------------------------- MODULE HookForwarderProofs -------------------------
(***************************************************************************)
(* The safety of the callback registry for any set of threads, any hook    *)
(* types and any bounds.  The invariant adds to the checked ones that only *)
(* the innermost frame of a thread can be waiting for the mutex, and that  *)
(* a frame's snapshot of the vector is not older than its call.            *)
(***************************************************************************)
EXTENDS HookForwarder, TLAPS, SequenceTheorems

\* Only the innermost frame can be waiting for g_mutex.
OnlyTopWaits ==
    \A t \in Threads : \A i \in 1..Len(stack[t]) :
        i < Len(stack[t]) => stack[t][i].pc # "enter"

\* end() was taken after the call began, and vectors never shrink.
SnapshotsAreRecent ==
    \A t \in Threads : \A i \in 1..Len(stack[t]) :
        /\ stack[t][i].floor <= size[stack[t][i].hook]
        /\ stack[t][i].pc # "enter" => stack[t][i].floor <= stack[t][i].last

IInv == /\ TypeOK
        /\ OnlyTopWaits
        /\ LockMatchesFrames
        /\ OnlyReentryInvalidates
        /\ SnapshotsAreRecent

-----------------------------------------------------------------------------
\* What a call, a return and a step of the innermost frame do to the stacks.
LEMMA PushFacts ==
    ASSUME TypeOK, NEW t \in Threads, NEW f \in Frame, Push(t, f)
    PROVE  /\ stack' \in [Threads -> Seq(Frame)]
           /\ Len(stack'[t]) = Len(stack[t]) + 1
           /\ stack'[t][Len(stack[t]) + 1] = f
           /\ \A i \in 1..Len(stack[t]) : stack'[t][i] = stack[t][i]
           /\ \A u \in Threads \ {t} : stack'[u] = stack[u]
<1>1. stack[t] \in Seq(Frame) BY DEF TypeOK
<1>2. stack'[t] = Append(stack[t], f) BY DEF TypeOK, Push
<1>3. Append(stack[t], f) \in Seq(Frame) BY <1>1, AppendProperties
<1>4. stack' \in [Threads -> Seq(Frame)] BY <1>3 DEF TypeOK, Push
<1>5. \A u \in Threads \ {t} : stack'[u] = stack[u] BY DEF TypeOK, Push
<1> QED BY <1>1, <1>2, <1>4, <1>5, AppendProperties

\* All but the last element of a sequence, which is what Pop leaves of a stack.
LEMMA FrontFacts ==
    ASSUME NEW S, NEW s \in Seq(S), s # <<>>
    PROVE  /\ Len(s) \in Nat /\ Len(s) > 0
           /\ Front(s) \in Seq(S)
           /\ Len(Front(s)) = Len(s) - 1
           /\ \A i \in 1..(Len(s) - 1) : Front(s)[i] = s[i]
<1>1. Len(s) \in Nat /\ Len(s) > 0 BY EmptySeq, LenProperties
<1>2. \A i \in 1..(Len(s) - 1) : s[i] \in S BY <1>1, ElementOfSeq
<1>3. /\ Front(s) \in Seq(S)
      /\ Len(Front(s)) = IF 1 <= Len(s) - 1 THEN (Len(s) - 1) - 1 + 1 ELSE 0
      /\ \A i \in 1..((Len(s) - 1) - 1 + 1) : Front(s)[i] = s[1 + i - 1]
   BY <1>1, <1>2, SubSeqProperties DEF Front
<1>4. Len(Front(s)) = Len(s) - 1
  <2>1. CASE Len(s) > 1 BY <1>1, <1>3, <2>1
  <2>2. CASE Len(s) = 1 BY <1>3, <2>2
  <2>3. \A n \in Nat : n > 0 => n = 1 \/ n > 1 OBVIOUS
  <2> QED BY <1>1, <2>1, <2>2, <2>3
<1>5. \A i \in 1..(Len(s) - 1) : Front(s)[i] = s[i] BY <1>1, <1>3
<1> QED BY <1>1, <1>3, <1>4, <1>5

\* A return takes the innermost frame off its thread's stack, and nothing else.
LEMMA PopFacts ==
    ASSUME TypeOK, NEW t \in Threads, stack[t] # <<>>, Pop(t)
    PROVE  /\ stack' \in [Threads -> Seq(Frame)]
           /\ Len(stack[t]) \in Nat /\ Len(stack[t]) > 0
           /\ Len(stack'[t]) = Len(stack[t]) - 1
           /\ \A i \in 1..(Len(stack[t]) - 1) : stack'[t][i] = stack[t][i]
           /\ \A u \in Threads \ {t} : stack'[u] = stack[u]
<1>1. stack[t] \in Seq(Frame) BY DEF TypeOK
<1>2. stack'[t] = Front(stack[t]) BY DEF TypeOK, Pop
<1>3. Front(stack[t]) \in Seq(Frame) BY <1>1, FrontFacts
<1>4. stack' \in [Threads -> Seq(Frame)] BY <1>3 DEF TypeOK, Pop
<1>5. \A u \in Threads \ {t} : stack'[u] = stack[u] BY DEF TypeOK, Pop
<1> QED BY <1>1, <1>2, <1>4, <1>5, FrontFacts

\* A step of the innermost frame changes that frame only.
LEMMA ReplaceTopFacts ==
    ASSUME TypeOK, NEW t \in Threads, NEW f \in Frame,
           stack[t] # <<>>, ReplaceTop(t, f)
    PROVE  /\ stack' \in [Threads -> Seq(Frame)]
           /\ Len(stack[t]) \in Nat /\ Len(stack[t]) > 0
           /\ Len(stack'[t]) = Len(stack[t])
           /\ stack'[t][Len(stack[t])] = f
           /\ \A i \in 1..(Len(stack[t]) - 1) : stack'[t][i] = stack[t][i]
           /\ \A u \in Threads \ {t} : stack'[u] = stack[u]
<1>1. stack[t] \in Seq(Frame) BY DEF TypeOK
<1>2. stack'[t] = Append(Front(stack[t]), f) BY DEF TypeOK, ReplaceTop
<1>3. /\ Len(stack[t]) \in Nat /\ Len(stack[t]) > 0
      /\ Front(stack[t]) \in Seq(Frame)
      /\ Len(Front(stack[t])) = Len(stack[t]) - 1
      /\ \A i \in 1..(Len(stack[t]) - 1) : Front(stack[t])[i] = stack[t][i]
   BY <1>1, FrontFacts
<1>4. /\ Append(Front(stack[t]), f) \in Seq(Frame)
      /\ Len(stack'[t]) = (Len(stack[t]) - 1) + 1
      /\ \A i \in 1..(Len(stack[t]) - 1) : stack'[t][i] = Front(stack[t])[i]
      /\ stack'[t][(Len(stack[t]) - 1) + 1] = f
   BY <1>2, <1>3, AppendProperties
<1>5. stack' \in [Threads -> Seq(Frame)] BY <1>4 DEF TypeOK, ReplaceTop
<1>6. \A u \in Threads \ {t} : stack'[u] = stack[u] BY DEF TypeOK, ReplaceTop
<1>7. /\ Len(stack'[t]) = Len(stack[t])
      /\ stack'[t][Len(stack[t])] = f
  <2>1. (Len(stack[t]) - 1) + 1 = Len(stack[t]) BY <1>3
  <2> QED BY <1>4, <2>1
<1>8. \A i \in 1..(Len(stack[t]) - 1) : stack'[t][i] = stack[t][i]
  BY <1>3, <1>4
<1> QED BY <1>3, <1>5, <1>6, <1>7, <1>8

\* A thread inside a dispatcher has an innermost frame.
LEMMA TopIsFrame ==
    ASSUME TypeOK, NEW t \in Threads, stack[t] # <<>>
    PROVE  Len(stack[t]) \in Nat /\ Len(stack[t]) > 0 /\ Top(t) \in Frame
<1>1. stack[t] \in Seq(Frame) BY DEF TypeOK
<1>2. Len(stack[t]) \in Nat /\ Len(stack[t]) > 0 BY <1>1, FrontFacts
<1> QED BY <1>1, <1>2, ElementOfSeq DEF Top

\* A thread with a frame past its lock_guard holds the mutex.
LEMMA PastTheLockHolds ==
    ASSUME TypeOK, OnlyTopWaits, LockMatchesFrames, NEW u \in Threads,
           NEW i \in 1..Len(stack[u]), stack[u][i].pc # "enter"
    PROVE  owner = u
<1>1. stack[u] \in Seq(Frame) BY DEF TypeOK
<1>2. Len(stack[u]) \in Nat BY <1>1, LenProperties
<1>3. i \in Nat /\ 1 <= i /\ i <= Len(stack[u]) BY <1>2
<1>4. Held(u) > 0
  <2>1. CASE stack[u] # <<>> /\ Top(u).pc = "enter"
    <3>1. i # Len(stack[u]) BY <2>1 DEF Top
    <3> QED BY <1>2, <1>3, <2>1, <3>1 DEF Held
  <2>2. CASE ~(stack[u] # <<>> /\ Top(u).pc = "enter")
    BY <1>2, <1>3, <2>2 DEF Held
  <2> QED BY <2>1, <2>2
<1> QED BY <1>4 DEF LockMatchesFrames

-----------------------------------------------------------------------------
\* The shapes of step the actions have: a call, a return from a frame that
\* waits for the mutex, one from a frame that holds it, a move of that frame.
LEMMA CallPreserves ==
    ASSUME IInv, NEW t \in Threads, NEW f \in Frame, RunsUserCode(t),
           f.pc = "enter", f.floor <= size[f.hook],
           Push(t, f), UNCHANGED <<vector, mutex, crashed>>, registrations' \in Nat
    PROVE  IInv'
<1> DEFINE L == Len(stack[t])
<1> USE DEF IInv, vector, mutex
<1>1. /\ stack' \in [Threads -> Seq(Frame)]
      /\ Len(stack'[t]) = L + 1
      /\ stack'[t][L + 1] = f
      /\ \A i \in 1..L : stack'[t][i] = stack[t][i]
      /\ \A u \in Threads \ {t} : stack'[u] = stack[u]
   BY PushFacts
<1>2. L \in Nat BY LenProperties DEF TypeOK
<1>3. L # 0 => stack[t] # <<>> BY EmptySeq
<1>4. L # 0 => stack[t][L].pc = "body" BY <1>3 DEF RunsUserCode, Top
<1>5. TypeOK' BY <1>1 DEF TypeOK
<1>6. OnlyTopWaits'
  <2> SUFFICES ASSUME NEW u \in Threads, NEW i \in 1..Len(stack'[u]),
                      i < Len(stack'[u])
               PROVE  stack'[u][i].pc # "enter"
    BY DEF OnlyTopWaits
  <2>1. CASE u # t BY <1>1, <2>1 DEF OnlyTopWaits
  <2>2. CASE u = t /\ i < L BY <1>1, <1>2, <2>2 DEF OnlyTopWaits
  <2>3. CASE u = t /\ i = L BY <1>1, <1>2, <1>4, <2>3
  <2> QED BY <1>1, <1>2, <2>1, <2>2, <2>3
<1>7. \A u \in Threads : Held(u)' = Held(u)
  <2>1. stack'[t] # <<>> BY <1>1, <1>2, EmptySeq
  <2>2. Held(t)' = L BY <1>1, <1>2, <2>1 DEF Held, Top
  <2>3. Held(t) = L BY <1>2, <1>3 DEF Held, RunsUserCode
  <2> QED BY <1>1, <2>2, <2>3 DEF Held, Top
<1>8. LockMatchesFrames' BY <1>7 DEF LockMatchesFrames, TypeOK
<1>9. OnlyReentryInvalidates'
  <2> SUFFICES ASSUME NEW u \in Threads, NEW i \in 1..Len(stack'[u]),
                      Dangling(stack[u][i])'
               PROVE  grownBy'[stack'[u][i].hook] = u
    BY DEF OnlyReentryInvalidates, Dangling
  <2>1. CASE u # t BY <1>1, <2>1 DEF OnlyReentryInvalidates, Dangling
  <2>2. CASE u = t /\ i <= L
    BY <1>1, <1>2, <2>2 DEF OnlyReentryInvalidates, Dangling
  <2>3. CASE u = t /\ i = L + 1 BY <1>1, <2>3 DEF Dangling
  <2> QED BY <1>1, <1>2, <2>1, <2>2, <2>3
<1>10. SnapshotsAreRecent'
  <2> SUFFICES ASSUME NEW u \in Threads, NEW i \in 1..Len(stack'[u])
               PROVE  /\ stack'[u][i].floor <= size'[stack'[u][i].hook]
                      /\ stack'[u][i].pc # "enter"
                            => stack'[u][i].floor <= stack'[u][i].last
    BY DEF SnapshotsAreRecent
  <2>1. CASE u # t BY <1>1, <2>1 DEF SnapshotsAreRecent
  <2>2. CASE u = t /\ i <= L BY <1>1, <1>2, <2>2 DEF SnapshotsAreRecent
  <2>3. CASE u = t /\ i = L + 1 BY <1>1, <2>3
  <2> QED BY <1>1, <1>2, <2>1, <2>2, <2>3
<1> QED BY <1>5, <1>6, <1>8, <1>9, <1>10

\* What a registration by t does to the vectors: they only grow, and a storage
\* that moves is put down to t.
VectorStep(t) ==
    /\ size' \in [HookTypes -> Nat]
    /\ capacity' \in [HookTypes -> Nat]
    /\ storage' \in [HookTypes -> Nat]
    /\ grownBy' \in [HookTypes -> Threads \cup {NoThread}]
    /\ \A h \in HookTypes :
          /\ size[h] <= size'[h]
          /\ storage'[h] # storage[h] => grownBy'[h] = t
          /\ storage'[h] = storage[h] => grownBy'[h] = grownBy[h]

\* A registration, or a dispatch of an empty vector, gets the mutex and returns.
LEMMA ReturnWaitingPreserves ==
    ASSUME IInv, NEW t \in Threads, stack[t] # <<>>, Top(t).pc = "enter",
           LockAvailable(t), Pop(t), VectorStep(t),
           UNCHANGED <<mutex, registrations, crashed>>
    PROVE  IInv'
<1> DEFINE L == Len(stack[t])
<1> USE DEF IInv, mutex
<1>1. /\ stack' \in [Threads -> Seq(Frame)]
      /\ L \in Nat /\ L > 0
      /\ Len(stack'[t]) = L - 1
      /\ \A i \in 1..(L - 1) : stack'[t][i] = stack[t][i]
      /\ \A u \in Threads \ {t} : stack'[u] = stack[u]
   BY PopFacts
<1>2. TypeOK' BY <1>1 DEF TypeOK, VectorStep
<1>3. \A u \in Threads : \A i \in 1..Len(stack'[u]) :
         i \in 1..Len(stack[u]) /\ stack'[u][i] = stack[u][i]
  <2> TAKE u \in Threads
  <2> TAKE i \in 1..Len(stack'[u])
  <2>1. CASE u = t BY <1>1, <2>1
  <2>2. CASE u # t BY <1>1, <2>2
  <2> QED BY <2>1, <2>2
<1>4. OnlyTopWaits'
  <2>1. \A u \in Threads : \A i \in 1..Len(stack'[u]) :
           i < Len(stack'[u]) => i < Len(stack[u])
    BY <1>1
  <2> QED BY <1>3, <2>1 DEF OnlyTopWaits
<1>5. \A u \in Threads : Held(u)' = Held(u)
  <2>1. Held(t) = L - 1 BY <1>1 DEF Held
  <2>2. Held(t)' = L - 1
    <3>1. CASE stack'[t] # <<>>
      <4>1. Len(stack'[t]) > 0 BY <1>1, <3>1, FrontFacts
      <4>2. L - 1 \in 1..L /\ L - 1 < L /\ L - 1 \in 1..(L - 1) BY <1>1, <4>1
      <4>3. stack[t][L - 1].pc # "enter" BY <4>2 DEF OnlyTopWaits
      <4>4. stack'[t][L - 1] = stack[t][L - 1] BY <1>1, <4>2
      <4> QED BY <1>1, <4>3, <4>4 DEF Held, Top
    <3>2. CASE stack'[t] = <<>> BY <1>1, <3>2 DEF Held
    <3> QED BY <3>1, <3>2
  <2> QED BY <1>1, <2>1, <2>2 DEF Held, Top
<1>6. LockMatchesFrames' BY <1>5 DEF LockMatchesFrames, TypeOK
<1>7. \A u \in Threads : \A i \in 1..Len(stack[u]) : stack[u][i] \in Frame
  BY ElementOfSeq DEF TypeOK
<1>8. OnlyReentryInvalidates'
  <2> SUFFICES ASSUME NEW u \in Threads, NEW i \in 1..Len(stack'[u]),
                      Dangling(stack[u][i])'
               PROVE  grownBy'[stack'[u][i].hook] = u
    BY DEF OnlyReentryInvalidates, Dangling
  <2> DEFINE f == stack[u][i]
  <2>1. /\ i \in 1..Len(stack[u]) /\ stack'[u][i] = f
        /\ f.hook \in HookTypes /\ f.pc # "enter"
        /\ f.storage # storage'[f.hook]
    BY <1>3, <1>7 DEF Frame, Dangling
  <2>2. owner = u BY <2>1, PastTheLockHolds
  <2>3. u = t BY <2>2, ForwarderAssumption DEF LockAvailable
  <2>4. CASE storage'[f.hook] # storage[f.hook] BY <2>1, <2>3, <2>4 DEF VectorStep
  <2>5. CASE storage'[f.hook] = storage[f.hook]
    BY <2>1, <2>5 DEF VectorStep, OnlyReentryInvalidates, Dangling
  <2> QED BY <2>4, <2>5
<1>9. SnapshotsAreRecent'
  <2> SUFFICES ASSUME NEW u \in Threads, NEW i \in 1..Len(stack'[u])
               PROVE  /\ stack'[u][i].floor <= size'[stack'[u][i].hook]
                      /\ stack'[u][i].pc # "enter"
                            => stack'[u][i].floor <= stack'[u][i].last
    BY DEF SnapshotsAreRecent
  <2> DEFINE f == stack[u][i]
  <2>1. i \in 1..Len(stack[u]) /\ stack'[u][i] = f BY <1>3
  <2>2. f.hook \in HookTypes /\ f.floor \in Nat BY <1>7, <2>1 DEF Frame
  <2>3. size[f.hook] <= size'[f.hook] /\ size[f.hook] \in Nat
        /\ size'[f.hook] \in Nat
    BY <2>2 DEF VectorStep, TypeOK
  <2>4. f.floor <= size[f.hook] /\ (f.pc # "enter" => f.floor <= f.last)
    BY <2>1 DEF SnapshotsAreRecent
  <2> QED BY <2>1, <2>2, <2>3, <2>4
<1> QED BY <1>2, <1>4, <1>6, <1>8, <1>9

\* A dispatcher leaves its loop and gives the mutex back once.
LEMMA ReturnHoldingPreserves ==
    ASSUME IInv, NEW t \in Threads, stack[t] # <<>>, Top(t).pc # "enter",
           Pop(t), Unlock, UNCHANGED <<vector, registrations, crashed>>
    PROVE  IInv'
<1> DEFINE L == Len(stack[t])
<1> USE DEF IInv, vector
<1>1. /\ stack' \in [Threads -> Seq(Frame)]
      /\ L \in Nat /\ L > 0
      /\ Len(stack'[t]) = L - 1
      /\ \A i \in 1..(L - 1) : stack'[t][i] = stack[t][i]
      /\ \A u \in Threads \ {t} : stack'[u] = stack[u]
   BY PopFacts
<1>2. Held(t) = L BY DEF Held
<1>3. owner = t /\ holds = L BY <1>1, <1>2 DEF LockMatchesFrames
<1>4. TypeOK' BY <1>1, <1>3 DEF TypeOK, Unlock
<1>5. \A u \in Threads : \A i \in 1..Len(stack'[u]) :
         i \in 1..Len(stack[u]) /\ stack'[u][i] = stack[u][i]
  <2> TAKE u \in Threads
  <2> TAKE i \in 1..Len(stack'[u])
  <2>1. CASE u = t BY <1>1, <2>1
  <2>2. CASE u # t BY <1>1, <2>2
  <2> QED BY <2>1, <2>2
<1>6. OnlyTopWaits'
  <2>1. \A u \in Threads : \A i \in 1..Len(stack'[u]) :
           i < Len(stack'[u]) => i < Len(stack[u])
    BY <1>1
  <2> QED BY <1>5, <2>1 DEF OnlyTopWaits
<1>7. Held(t)' = L - 1
  <2>1. CASE stack'[t] # <<>>
    <3>1. Len(stack'[t]) > 0 BY <1>1, <2>1, FrontFacts
    <3>2. L - 1 \in 1..L /\ L - 1 < L /\ L - 1 \in 1..(L - 1) BY <1>1, <3>1
    <3>3. stack[t][L - 1].pc # "enter" BY <3>2 DEF OnlyTopWaits
    <3>4. stack'[t][L - 1] = stack[t][L - 1] BY <1>1, <3>2
    <3> QED BY <1>1, <3>3, <3>4 DEF Held, Top
  <2>2. CASE stack'[t] = <<>> BY <1>1, <2>2 DEF Held
  <2> QED BY <2>1, <2>2
<1>8. \A u \in Threads \ {t} : Held(u)' = Held(u) /\ ~(Held(u) > 0)
  BY <1>1, <1>3 DEF Held, Top, LockMatchesFrames
<1>9. LockMatchesFrames'
  <2>1. CASE L = 1
    <3>1. owner' = NoThread /\ holds' = 0 /\ Held(t)' = 0
      BY <1>3, <1>7, <2>1 DEF Unlock
    <3> QED BY <1>8, <3>1 DEF LockMatchesFrames
  <2>2. CASE L # 1
    <3>1. owner' = t /\ holds' = L - 1 BY <1>3, <2>2 DEF Unlock
    <3>2. L - 1 > 0
      <4>1. \A n \in Nat : n > 0 /\ n # 1 => n - 1 > 0 OBVIOUS
      <4> QED BY <1>1, <2>2, <4>1
    <3> QED BY <1>7, <1>8, <3>1, <3>2, ForwarderAssumption DEF LockMatchesFrames
  <2> QED BY <2>1, <2>2
<1>10. OnlyReentryInvalidates' BY <1>5 DEF OnlyReentryInvalidates, Dangling
<1>11. SnapshotsAreRecent' BY <1>5 DEF SnapshotsAreRecent
<1> QED BY <1>4, <1>6, <1>9, <1>10, <1>11

\* A dispatcher goes on to its next callback, or calls it.
LEMMA MovePreserves ==
    ASSUME IInv, NEW t \in Threads, NEW f \in Frame, stack[t] # <<>>,
           Top(t).pc # "enter", f.pc # "enter", f.hook = Top(t).hook,
           f.floor = Top(t).floor, f.last = Top(t).last,
           f.storage = Top(t).storage, ReplaceTop(t, f),
           UNCHANGED <<vector, mutex, registrations, crashed>>
    PROVE  IInv'
<1> DEFINE L == Len(stack[t])
<1> USE DEF IInv, vector, mutex
<1>1. /\ stack' \in [Threads -> Seq(Frame)]
      /\ L \in Nat /\ L > 0
      /\ Len(stack'[t]) = L
      /\ stack'[t][L] = f
      /\ \A i \in 1..(L - 1) : stack'[t][i] = stack[t][i]
      /\ \A u \in Threads \ {t} : stack'[u] = stack[u]
   BY ReplaceTopFacts
<1>2. TypeOK' BY <1>1 DEF TypeOK
<1>3. \A u \in Threads : \A i \in 1..Len(stack'[u]) :
         /\ i \in 1..Len(stack[u])
         /\ stack[u][i].pc # "enter" => stack'[u][i].pc # "enter"
         /\ stack'[u][i].pc # "enter" => stack[u][i].pc # "enter"
         /\ stack'[u][i].hook = stack[u][i].hook
         /\ stack'[u][i].floor = stack[u][i].floor
         /\ stack'[u][i].last = stack[u][i].last
         /\ stack'[u][i].storage = stack[u][i].storage
  <2> TAKE u \in Threads
  <2> TAKE i \in 1..Len(stack'[u])
  <2>1. CASE u # t BY <1>1, <2>1
  <2>2. CASE u = t /\ i # L
    <3>1. i \in 1..(L - 1) BY <1>1, <2>2
    <3> QED BY <1>1, <2>2, <3>1
  <2>3. CASE u = t /\ i = L BY <1>1, <2>3 DEF Top
  <2> QED BY <2>1, <2>2, <2>3
<1>4. \A u \in Threads : Len(stack'[u]) = Len(stack[u]) BY <1>1
<1>5. OnlyTopWaits' BY <1>3, <1>4 DEF OnlyTopWaits
<1>6. \A u \in Threads : Held(u)' = Held(u)
  <2>1. stack'[t] # <<>> BY <1>1, LenProperties, EmptySeq
  <2>2. Held(t)' = L /\ Held(t) = L BY <1>1, <2>1 DEF Held, Top
  <2> QED BY <1>1, <2>2 DEF Held, Top
<1>7. LockMatchesFrames' BY <1>6 DEF LockMatchesFrames, TypeOK
<1>8. OnlyReentryInvalidates' BY <1>3 DEF OnlyReentryInvalidates, Dangling
<1>9. SnapshotsAreRecent' BY <1>3 DEF SnapshotsAreRecent
<1> QED BY <1>2, <1>5, <1>7, <1>8, <1>9

\* A dispatcher gets the mutex and takes begin() and end() of its vector.
LEMMA EnterLoopPreserves ==
    ASSUME IInv, NEW t \in Threads, EnterLoop(t)
    PROVE  IInv'
<1> DEFINE L == Len(stack[t])
           h == Top(t).hook
           f == [Top(t) EXCEPT !.pc = "loop", !.last = size[h],
                               !.storage = storage[h]]
<1> USE DEF IInv, vector, mutex
<1>1. stack[t] # <<>> /\ Top(t).pc = "enter" /\ LockAvailable(t)
      /\ ReplaceTop(t, f) /\ Lock(t)
      /\ UNCHANGED <<vector, registrations, crashed>>
  BY DEF EnterLoop, At
<1>2. Top(t) \in Frame /\ h \in HookTypes BY <1>1, TopIsFrame DEF Frame
<1>3. f \in Frame /\ f.hook = h /\ f.pc = "loop" /\ f.last = size[h]
      /\ f.storage = storage[h] /\ f.floor = Top(t).floor
  BY <1>2 DEF Frame, TypeOK
<1> HIDE DEF f
<1>4. /\ stack' \in [Threads -> Seq(Frame)]
      /\ L \in Nat /\ L > 0
      /\ Len(stack'[t]) = L
      /\ stack'[t][L] = f
      /\ \A i \in 1..(L - 1) : stack'[t][i] = stack[t][i]
      /\ \A u \in Threads \ {t} : stack'[u] = stack[u]
   BY <1>1, <1>3, ReplaceTopFacts
<1>5. TypeOK' BY <1>1, <1>4 DEF TypeOK, Lock
<1>6. \A u \in Threads : \A i \in 1..Len(stack'[u]) :
         /\ i \in 1..Len(stack[u])
         /\ ~(u = t /\ i = L) => stack'[u][i] = stack[u][i]
  <2> TAKE u \in Threads
  <2> TAKE i \in 1..Len(stack'[u])
  <2>1. CASE u # t BY <1>4, <2>1
  <2>2. CASE u = t /\ i # L
    <3>1. i \in 1..(L - 1) BY <1>4, <2>2
    <3> QED BY <1>4, <2>2, <3>1
  <2>3. CASE u = t /\ i = L BY <1>4, <2>3
  <2> QED BY <2>1, <2>2, <2>3
<1>7. OnlyTopWaits'
  <2> SUFFICES ASSUME NEW u \in Threads, NEW i \in 1..Len(stack'[u]),
                      i < Len(stack'[u])
               PROVE  stack'[u][i].pc # "enter"
    BY DEF OnlyTopWaits
  <2>1. CASE u = t /\ i = L BY <1>4, <2>1
  <2>2. CASE ~(u = t /\ i = L)
    <3>1. Len(stack'[u]) = Len(stack[u]) BY <1>4
    <3> QED BY <1>6, <2>2, <3>1 DEF OnlyTopWaits
  <2> QED BY <2>1, <2>2
<1>8. Held(t) = L - 1 BY <1>1 DEF Held
<1>9. Held(t)' = L
  <2>1. stack'[t] # <<>> BY <1>4, EmptySeq
  <2> QED BY <1>3, <1>4, <2>1 DEF Held, Top
<1>10. \A u \in Threads \ {t} : Held(u)' = Held(u) /\ ~(Held(u) > 0)
  BY <1>1, <1>4, ForwarderAssumption
     DEF Held, Top, LockMatchesFrames, LockAvailable
<1>11. holds = L - 1
  <2>1. CASE owner = NoThread
    <3>1. ~(Held(t) > 0) BY <2>1, ForwarderAssumption DEF LockMatchesFrames
    <3>2. L - 1 = 0
      <4>1. \A n \in Nat : n > 0 /\ ~(n - 1 > 0) => n - 1 = 0 OBVIOUS
      <4> QED BY <1>4, <1>8, <3>1, <4>1
    <3> QED BY <2>1, <3>2 DEF LockMatchesFrames
  <2>2. CASE owner = t
    BY <1>8, <2>2, ForwarderAssumption DEF LockMatchesFrames
  <2> QED BY <1>1, <2>1, <2>2 DEF LockAvailable
<1>12. LockMatchesFrames'
  <2>1. owner' = t /\ holds' = L BY <1>1, <1>4, <1>11 DEF Lock
  <2> QED BY <1>4, <1>9, <1>10, <2>1, ForwarderAssumption DEF LockMatchesFrames
<1>13. OnlyReentryInvalidates'
  <2> SUFFICES ASSUME NEW u \in Threads, NEW i \in 1..Len(stack'[u]),
                      Dangling(stack[u][i])'
               PROVE  grownBy'[stack'[u][i].hook] = u
    BY DEF OnlyReentryInvalidates, Dangling
  <2>1. ~(u = t /\ i = L) BY <1>1, <1>3, <1>4 DEF Dangling
  <2> QED BY <1>1, <1>6, <2>1 DEF OnlyReentryInvalidates, Dangling
<1>14. SnapshotsAreRecent'
  <2> SUFFICES ASSUME NEW u \in Threads, NEW i \in 1..Len(stack'[u])
               PROVE  /\ stack'[u][i].floor <= size'[stack'[u][i].hook]
                      /\ stack'[u][i].pc # "enter"
                            => stack'[u][i].floor <= stack'[u][i].last
    BY DEF SnapshotsAreRecent
  <2>1. CASE ~(u = t /\ i = L) BY <1>1, <1>6, <2>1 DEF SnapshotsAreRecent
  <2>2. CASE u = t /\ i = L
    <3>1. L \in 1..L BY <1>4
    <3>2. f.floor <= size[h]
      BY <1>3, <3>1 DEF Top, SnapshotsAreRecent
    <3> QED BY <1>1, <1>3, <1>4, <2>2, <3>2
  <2> QED BY <2>1, <2>2
<1> QED BY <1>5, <1>7, <1>12, <1>13, <1>14

-----------------------------------------------------------------------------
\* Before any call no mutex is held, and no iterator exists.
LEMMA InitIInv == Init => IInv
<1> SUFFICES ASSUME Init PROVE IInv OBVIOUS
<1>1. \A t \in Threads : stack[t] = <<>> /\ stack[t] \in Seq(Frame)
  BY EmptySeq DEF Init
<1>2. TypeOK BY <1>1, EmptySeq DEF Init, TypeOK
<1>3. \A t \in Threads : Len(stack[t]) = 0 /\ 1..Len(stack[t]) = {}
  BY <1>1, EmptySeq
<1>4. LockMatchesFrames BY <1>1, <1>3 DEF Init, LockMatchesFrames, Held
<1> QED BY <1>2, <1>3, <1>4
        DEF IInv, OnlyTopWaits, OnlyReentryInvalidates, SnapshotsAreRecent

\* Every operation of the registry preserves the invariant.
LEMMA NextIInv == IInv /\ [Next]_vars => IInv'
<1> SUFFICES ASSUME IInv, [Next]_vars PROVE IInv'
  OBVIOUS
<1> USE DEF vector, mutex
<1>1. ASSUME UNCHANGED vars PROVE IInv'
  BY <1>1 DEF vars, IInv, TypeOK, OnlyTopWaits, LockMatchesFrames, Held, Top,
              OnlyReentryInvalidates, Dangling, SnapshotsAreRecent
<1>2. ASSUME NEW t \in Threads, NEW h \in HookTypes, Invoke(t, h)
      PROVE  IInv'
  <2> DEFINE f == [op |-> "dispatch", hook |-> h, fits |-> TRUE, pc |-> "enter",
                   pos |-> 0, last |-> 0, storage |-> 0, floor |-> size[h]]
  <2>1. size[h] \in Nat /\ registrations \in Nat BY DEF IInv, TypeOK
  <2>2. f \in Frame BY <2>1 DEF Frame
  <2>3. f.pc = "enter" /\ f.floor = size[h] /\ f.hook = h OBVIOUS
  <2>4. RunsUserCode(t) /\ Push(t, f) /\ registrations' = registrations
        /\ UNCHANGED <<vector, mutex, crashed>>
    BY <1>2 DEF Invoke, MayCall
  <2>5. f.floor <= size[f.hook] BY <2>1, <2>3
  <2> HIDE DEF f
  <2> QED BY <2>1, <2>2, <2>3, <2>4, <2>5, CallPreserves
<1>3. ASSUME NEW t \in Threads, NEW h \in HookTypes,
             NEW o \in {RpcHooks, PacketHooks}, InvokeRegister(t, h, o)
      PROVE  IInv'
  <2> DEFINE f == [op |-> "register", hook |-> h, fits |-> h \in o,
                   pc |-> "enter", pos |-> 0, last |-> 0, storage |-> 0,
                   floor |-> 0]
  <2>1. size[h] \in Nat /\ registrations' \in Nat
    BY <1>3 DEF IInv, TypeOK, InvokeRegister
  <2>2. f \in Frame BY DEF Frame
  <2>3. f.pc = "enter" /\ f.floor = 0 /\ f.hook = h OBVIOUS
  <2>4. RunsUserCode(t) /\ Push(t, f) /\ UNCHANGED <<vector, mutex, crashed>>
    BY <1>3 DEF InvokeRegister, MayCall
  <2>5. f.floor <= size[f.hook] BY <2>1, <2>3
  <2> HIDE DEF f
  <2> QED BY <2>1, <2>2, <2>3, <2>4, <2>5, CallPreserves
<1>4. ASSUME NEW t \in Threads, Register(t) PROVE IInv'
  <2>1. stack[t] # <<>> /\ Top(t).pc = "enter" /\ LockAvailable(t) /\ Pop(t)
        /\ UNCHANGED <<mutex, registrations, crashed>>
    BY <1>4 DEF Register, At
  <2>2. Top(t).hook \in HookTypes BY <2>1, TopIsFrame DEF IInv, Frame
  <2>3. VectorStep(t)
    <3> DEFINE h == Top(t).hook
    <3>1. CASE UNCHANGED vector BY <3>1 DEF VectorStep, IInv, TypeOK
    <3>2. CASE PushBack(t, h) /\ size[h] < capacity[h]
      BY <2>2, <3>2 DEF PushBack, VectorStep, IInv, TypeOK
    <3>3. CASE PushBack(t, h) /\ ~(size[h] < capacity[h])
      <4>1. \A c \in Nat : Grown(c) \in Nat BY DEF Grown
      <4>2. /\ size \in [HookTypes -> Nat] /\ capacity \in [HookTypes -> Nat]
            /\ storage \in [HookTypes -> Nat]
            /\ grownBy \in [HookTypes -> Threads \cup {NoThread}]
        BY DEF IInv, TypeOK
      <4>3. /\ size' = [size EXCEPT ![h] = @ + 1]
            /\ capacity' = [capacity EXCEPT ![h] = Grown(@)]
            /\ storage' = [storage EXCEPT ![h] = @ + 1]
            /\ grownBy' = [grownBy EXCEPT ![h] = t]
        BY <3>3 DEF PushBack
      <4>4. Grown(capacity[h]) \in Nat BY <2>2, <4>1, <4>2
      <4>5. /\ size' \in [HookTypes -> Nat] /\ capacity' \in [HookTypes -> Nat]
            /\ storage' \in [HookTypes -> Nat]
            /\ grownBy' \in [HookTypes -> Threads \cup {NoThread}]
        BY <2>2, <4>2, <4>3, <4>4
      <4>6. ASSUME NEW g \in HookTypes
            PROVE  /\ size[g] <= size'[g]
                   /\ storage'[g] # storage[g] => grownBy'[g] = t
                   /\ storage'[g] = storage[g] => grownBy'[g] = grownBy[g]
        <5>1. CASE g = h BY <2>2, <4>2, <4>3, <5>1
        <5>2. CASE g # h BY <2>2, <4>2, <4>3, <5>2
        <5> QED BY <5>1, <5>2
      <4> QED BY <4>5, <4>6 DEF VectorStep
    <3> QED BY <1>4, <3>1, <3>2, <3>3 DEF Register
  <2> QED BY <2>1, <2>3, ReturnWaitingPreserves
<1>5. ASSUME NEW t \in Threads, ReturnEmpty(t) PROVE IInv'
  <2>1. VectorStep(t) BY <1>5 DEF ReturnEmpty, VectorStep, IInv, TypeOK
  <2> QED BY <1>5, <2>1, ReturnWaitingPreserves DEF ReturnEmpty, At
<1>6. ASSUME NEW t \in Threads, EnterLoop(t) PROVE IInv'
  BY <1>6, EnterLoopPreserves
<1>7. ASSUME NEW t \in Threads, CallNext(t) PROVE IInv'
  <2> DEFINE f == [Top(t) EXCEPT !.pc = "body", !.pos = @ + 1]
  <2>1. stack[t] # <<>> /\ Top(t).pc # "enter" /\ ReplaceTop(t, f)
        /\ UNCHANGED <<vector, mutex, registrations, crashed>>
    BY <1>7 DEF CallNext, AtElement, At
  <2>2. Top(t) \in Frame BY <2>1, TopIsFrame DEF IInv
  <2>3. f \in Frame /\ f.pc # "enter" /\ f.hook = Top(t).hook
        /\ f.floor = Top(t).floor /\ f.last = Top(t).last
        /\ f.storage = Top(t).storage
    <3>1. \A g \in Frame, n \in Nat :
             /\ [g EXCEPT !.pc = "body", !.pos = n] \in Frame
             /\ [g EXCEPT !.pc = "body", !.pos = n].pc = "body"
      BY DEF Frame
    <3>2. Top(t).pos + 1 \in Nat BY <2>2 DEF Frame
    <3>3. f \in Frame /\ f.pc = "body" BY <2>2, <3>1, <3>2
    <3> QED BY <2>2, <3>3 DEF Frame
  <2> HIDE DEF f
  <2> QED BY <2>1, <2>3, MovePreserves
<1>8. ASSUME NEW t \in Threads, BodyReturnsTrue(t) PROVE IInv'
  <2> DEFINE f == [Top(t) EXCEPT !.pc = "loop"]
  <2>1. stack[t] # <<>> /\ Top(t).pc # "enter" /\ ReplaceTop(t, f)
        /\ UNCHANGED <<vector, mutex, registrations, crashed>>
    BY <1>8 DEF BodyReturnsTrue, At
  <2>2. Top(t) \in Frame BY <2>1, TopIsFrame DEF IInv
  <2>3. f \in Frame /\ f.pc # "enter" /\ f.hook = Top(t).hook
        /\ f.floor = Top(t).floor /\ f.last = Top(t).last
        /\ f.storage = Top(t).storage
    BY <2>2 DEF Frame
  <2> HIDE DEF f
  <2> QED BY <2>1, <2>3, MovePreserves
<1>9. ASSUME NEW t \in Threads, ReturnAllowed(t) PROVE IInv'
  BY <1>9, ReturnHoldingPreserves DEF ReturnAllowed, At
<1>10. ASSUME NEW t \in Threads, LeaveLoop(t) PROVE IInv'
  BY <1>10, ReturnHoldingPreserves DEF LeaveLoop, At
<1>11. ASSUME NEW t \in Threads, UseDangling(t) PROVE IInv'
  <2>1. CASE Pop(t) /\ Unlock /\ UNCHANGED crashed
    BY <1>11, <2>1, ReturnHoldingPreserves DEF UseDangling, AtElement, At
  <2>2. CASE crashed' = TRUE /\ UNCHANGED <<mutex, stack>>
    BY <1>11, <2>2
       DEF UseDangling, IInv, TypeOK, OnlyTopWaits, LockMatchesFrames, Held,
           Top, OnlyReentryInvalidates, Dangling, SnapshotsAreRecent
  <2> QED BY <1>11, <2>1, <2>2 DEF UseDangling
<1> QED BY <1>1, <1>2, <1>3, <1>4, <1>5, <1>6, <1>7, <1>8, <1>9, <1>10, <1>11
        DEF Next, Dead

(* The inductive invariant of the registry holds in every state it can reach. *)
THEOREM Invariance == Spec => []IInv
<1> QED BY InitIInv, NextIInv, PTL DEF Spec

-----------------------------------------------------------------------------
(* The registry's state is always well typed. *)
THEOREM TypeCorrect == Spec => []TypeOK
<1>1. IInv => TypeOK BY DEF IInv
<1> QED BY <1>1, Invariance, PTL

(* g_mutex of te-sdk.cpp is held by one thread at a time and exactly as often *)
(* as that thread has dispatches past their lock_guard, at every depth of     *)
(* re-entrant sends and on every way out of them.                             *)
THEOREM MutualExclusion == Spec => []LockMatchesFrames
<1>1. IInv => LockMatchesFrames BY DEF IInv
<1> QED BY <1>1, Invariance, PTL

(* A dispatcher's iterators dangle only when a callback on its own thread     *)
(* registered another one: no interleaving with other threads does it.        *)
THEOREM IteratorSafety == Spec => []OnlyReentryInvalidates
<1>1. IInv => OnlyReentryInvalidates BY DEF IInv
<1> QED BY <1>1, Invariance, PTL

(* Nothing passes a hook before every callback registered when the hook was   *)
(* called has agreed to it.                                                   *)
THEOREM NothingSlipsThrough == Spec => AllowedMeansAllAsked
<1> DEFINE Asked == \A t \in Threads :
                       (ReturnEmpty(t) \/ ReturnAllowed(t))
                          => Top(t).pos >= Top(t).floor
<1>1. IInv /\ [Next]_vars => [Asked]_vars
  <2> SUFFICES ASSUME IInv, NEW t \in Threads,
                      ReturnEmpty(t) \/ ReturnAllowed(t)
               PROVE  Top(t).pos >= Top(t).floor
    OBVIOUS
  <2>1. stack[t] # <<>> BY DEF ReturnEmpty, ReturnAllowed, At
  <2>2. Len(stack[t]) \in Nat /\ Len(stack[t]) > 0 /\ Top(t) \in Frame
    BY <2>1, TopIsFrame DEF IInv
  <2>3. Len(stack[t]) \in 1..Len(stack[t]) BY <2>2
  <2>4. /\ Top(t).floor <= size[Top(t).hook]
        /\ Top(t).pc # "enter" => Top(t).floor <= Top(t).last
    BY <2>3 DEF IInv, SnapshotsAreRecent, Top
  <2>5. CASE ReturnEmpty(t)
    <3>1. size[Top(t).hook] = 0 BY <2>5 DEF ReturnEmpty
    <3>2. Top(t).pos \in Nat /\ Top(t).floor \in Nat BY <2>2 DEF Frame
    <3> QED BY <2>4, <3>1, <3>2
  <2>6. CASE ReturnAllowed(t)
    <3>1. Top(t).pc # "enter" /\ Top(t).pos = Top(t).last
      BY <2>6 DEF ReturnAllowed, At
    <3> QED BY <2>4, <3>1
  <2> QED BY <2>5, <2>6
<1> QED BY <1>1, Invariance, PTL DEF Spec, AllowedMeansAllAsked
=============================================================================
