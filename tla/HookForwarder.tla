---------------------------- MODULE HookForwarder ----------------------------
(***************************************************************************)
(* The callback registry of te-sdk.cpp: four vectors of callbacks guarded  *)
(* by one std::recursive_mutex, the four On* dispatchers that walk them    *)
(* and the two RegisterRaknetCallback overloads that grow them.            *)
(*                                                                         *)
(* A thread of the game runs a stack of frames: a dispatch or register     *)
(* call, and, while a callback body runs, the calls that body makes (a     *)
(* send from a callback re-enters the hooks, because MinHook patches the   *)
(* functions LocalClient calls).  A callback is known by its position.     *)
(*                                                                         *)
(* std::vector and std::recursive_mutex are external: push_back on a full  *)
(* vector moves the elements to a new storage (MSVC grows by a half) and   *)
(* every iterator into the old one dangles.                                *)
(***************************************************************************)
EXTENDS Naturals, Sequences, SequencesExt

CONSTANTS
    Threads,            \* threads that send, receive or register
    NoThread,           \* owner of the free mutex
    RpcHooks,           \* hook types whose vector holds RpcCallbacks
    PacketHooks,        \* hook types whose vector holds PacketCallbacks
    MaxDepth,           \* bound: frames on one thread's stack
    MaxRegistrations    \* bound: register calls in a behaviour

ASSUME ForwarderAssumption ==
    /\ NoThread \notin Threads
    /\ RpcHooks \cap PacketHooks = {}
    /\ MaxDepth \in Nat /\ MaxRegistrations \in Nat

HookTypes == RpcHooks \cup PacketHooks

VARIABLES
    size,           \* callbacks registered, per hook type
    capacity,       \* elements the vector's storage has room for
    storage,        \* which storage the vector uses: bumped by a reallocation
    grownBy,        \* history: the thread whose push_back moved it last
    owner, holds,   \* g_mutex: its owner and how often it is held
    stack,          \* the frames of each thread, outermost first
    registrations,  \* register calls made so far
    crashed         \* a dangling iterator was used and the process died

vector == <<size, capacity, storage, grownBy>>
mutex == <<owner, holds>>
vars == <<vector, mutex, stack, registrations, crashed>>

\* floor is a history field: the callbacks registered when the call began.
Frame == [op : {"dispatch", "register"}, hook : HookTypes, fits : BOOLEAN,
          pc : {"enter", "loop", "body"}, pos : Nat, last : Nat,
          storage : Nat, floor : Nat]

TypeOK ==
    /\ size \in [HookTypes -> Nat]
    /\ capacity \in [HookTypes -> Nat]
    /\ storage \in [HookTypes -> Nat]
    /\ grownBy \in [HookTypes -> Threads \cup {NoThread}]
    /\ owner \in Threads \cup {NoThread}
    /\ holds \in Nat
    /\ stack \in [Threads -> Seq(Frame)]
    /\ registrations \in Nat
    /\ crashed \in BOOLEAN

Init ==
    /\ size = [h \in HookTypes |-> 0]
    /\ capacity = [h \in HookTypes |-> 0]
    /\ storage = [h \in HookTypes |-> 0]
    /\ grownBy = [h \in HookTypes |-> NoThread]
    /\ owner = NoThread
    /\ holds = 0
    /\ stack = [t \in Threads |-> <<>>]
    /\ registrations = 0
    /\ crashed = FALSE

-----------------------------------------------------------------------------
Top(t) == stack[t][Len(stack[t])]

At(t, op, pc) == /\ ~crashed
                 /\ stack[t] # <<>>
                 /\ Top(t).op = op
                 /\ Top(t).pc = pc

\* Game code runs, or the body of a callback does: either may call the SDK.
RunsUserCode(t) == stack[t] # <<>> => Top(t).pc = "body"

MayCall(t) == ~crashed /\ RunsUserCode(t) /\ Len(stack[t]) < MaxDepth

\* Mutants: no wait for the mutex; std::mutex for std::recursive_mutex.
NoWait(t) == t \in Threads
PlainMutex(t) == owner = NoThread

LockAvailable(t) == owner \in {NoThread, t}

Lock(t) == owner' = t /\ holds' = holds + 1

Unlock == /\ holds' = holds - 1
          /\ owner' = IF holds = 1 THEN NoThread ELSE owner

Push(t, f) == stack' = [stack EXCEPT ![t] = Append(@, f)]
Pop(t) == stack' = [stack EXCEPT ![t] = Front(@)]
ReplaceTop(t, f) == stack' = [stack EXCEPT ![t] = Append(Front(@), f)]

-----------------------------------------------------------------------------
\* A hook calls g_forwarder.<hook>: the lock_guard is not constructed yet.
Invoke(t, h) ==
    /\ MayCall(t)
    /\ Push(t, [op |-> "dispatch", hook |-> h, fits |-> TRUE, pc |-> "enter",
                pos |-> 0, last |-> 0, storage |-> 0, floor |-> size[h]])
    /\ UNCHANGED <<vector, mutex, registrations, crashed>>

\* RegisterRaknetCallback is called, by the overload for RpcCallback or the
\* one for PacketCallback: its switch knows two of the four hook types.
InvokeRegister(t, h, overload) ==
    /\ MayCall(t)
    /\ registrations < MaxRegistrations
    /\ registrations' = registrations + 1
    /\ Push(t, [op |-> "register", hook |-> h, fits |-> h \in overload,
                pc |-> "enter", pos |-> 0, last |-> 0, storage |-> 0,
                floor |-> 0])
    /\ UNCHANGED <<vector, mutex, crashed>>

Grown(c) == IF c + (c \div 2) > c + 1 THEN c + (c \div 2) ELSE c + 1

PushBack(t, h) ==
    /\ size' = [size EXCEPT ![h] = @ + 1]
    /\ IF size[h] < capacity[h]
       THEN UNCHANGED <<capacity, storage, grownBy>>
       ELSE /\ capacity' = [capacity EXCEPT ![h] = Grown(@)]
            /\ storage' = [storage EXCEPT ![h] = @ + 1]
            /\ grownBy' = [grownBy EXCEPT ![h] = t]

\* The whole critical section of a register call: it runs no foreign code.
Register(t) ==
    /\ At(t, "register", "enter")
    /\ LockAvailable(t)
    /\ IF Top(t).fits THEN PushBack(t, Top(t).hook) ELSE UNCHANGED vector
    /\ Pop(t)
    /\ UNCHANGED <<mutex, registrations, crashed>>

\* On*: the vector is empty, the packet is allowed.
ReturnEmpty(t) ==
    /\ At(t, "dispatch", "enter")
    /\ LockAvailable(t)
    /\ size[Top(t).hook] = 0
    /\ Pop(t)
    /\ UNCHANGED <<vector, mutex, registrations, crashed>>

\* On*: the lock is taken and the range-for evaluates begin() and end().
EnterLoop(t) ==
    /\ At(t, "dispatch", "enter")
    /\ LockAvailable(t)
    /\ LET h == Top(t).hook
       IN  /\ size[h] > 0
           /\ ReplaceTop(t, [Top(t) EXCEPT !.pc = "loop", !.last = size[h],
                                           !.storage = storage[h]])
    /\ Lock(t)
    /\ UNCHANGED <<vector, registrations, crashed>>

AtElement(t) == At(t, "dispatch", "loop") /\ Top(t).pos < Top(t).last

Dangling(f) == f.pc # "enter" /\ f.storage # storage[f.hook]

CallNext(t) ==
    /\ AtElement(t)
    /\ ~Dangling(Top(t))
    /\ ReplaceTop(t, [Top(t) EXCEPT !.pc = "body", !.pos = @ + 1])
    /\ UNCHANGED <<vector, mutex, registrations, crashed>>

\* Mutant: the first callback that agrees decides.
FirstAgrees(t) ==
    /\ At(t, "dispatch", "loop")
    /\ Top(t).pos > 0
    /\ Pop(t)
    /\ Unlock
    /\ UNCHANGED <<vector, registrations, crashed>>

\* Every callback returned true: lock_guard releases, the packet is allowed.
ReturnAllowed(t) ==
    /\ At(t, "dispatch", "loop")
    /\ Top(t).pos = Top(t).last
    /\ Pop(t)
    /\ Unlock
    /\ UNCHANGED <<vector, registrations, crashed>>

BodyReturnsTrue(t) ==
    /\ At(t, "dispatch", "body")
    /\ ReplaceTop(t, [Top(t) EXCEPT !.pc = "loop"])
    /\ UNCHANGED <<vector, mutex, registrations, crashed>>

\* Mutant: g_mutex.lock() and unlock() by hand, not on the early way out.
LeaveLocked(t) ==
    /\ At(t, "dispatch", "body")
    /\ Pop(t)
    /\ UNCHANGED <<vector, mutex, registrations, crashed>>

\* The callback returned false, or threw: the remaining ones are not asked.
LeaveLoop(t) ==
    /\ At(t, "dispatch", "body")
    /\ Pop(t)
    /\ Unlock
    /\ UNCHANGED <<vector, registrations, crashed>>

\* Undefined behaviour: the loop reads the storage a nested registration
\* freed.  The process dies, or finds a moved-from std::function, which throws.
UseDangling(t) ==
    /\ AtElement(t)
    /\ Dangling(Top(t))
    /\ \/ crashed' = TRUE /\ UNCHANGED <<mutex, stack>>
       \/ Pop(t) /\ Unlock /\ UNCHANGED crashed
    /\ UNCHANGED <<vector, registrations>>

\* A crashed process takes no step: this stutter tells it from a deadlock.
Dead == crashed /\ UNCHANGED vars

BodyReturns(t) == BodyReturnsTrue(t) \/ LeaveLoop(t)

Advance(t) == \/ Register(t) \/ ReturnEmpty(t) \/ EnterLoop(t)
              \/ CallNext(t) \/ ReturnAllowed(t) \/ UseDangling(t)

Next ==
    \/ \E t \in Threads :
          \/ \E h \in HookTypes : Invoke(t, h)
          \/ \E h \in HookTypes, o \in {RpcHooks, PacketHooks} :
                InvokeRegister(t, h, o)
          \/ Register(t)
          \/ ReturnEmpty(t)
          \/ EnterLoop(t)
          \/ CallNext(t)
          \/ ReturnAllowed(t)
          \/ BodyReturnsTrue(t)
          \/ LeaveLoop(t)
          \/ UseDangling(t)
    \/ Dead

Spec == Init /\ [][Next]_vars

\* The SDK's own code makes progress, and every callback body terminates
\* (at each depth, or nested calls could hide an outer body that does not).
Fairness ==
    \A t \in Threads :
        /\ WF_vars(Advance(t))
        /\ \A d \in 1..MaxDepth : SF_vars(Len(stack[t]) = d /\ BodyReturns(t))

FairSpec == Spec /\ Fairness

-----------------------------------------------------------------------------
\* The times g_mutex is held by the frames of a thread: each frame holds it
\* once, but the innermost one may still be waiting for it.
Held(t) == IF stack[t] # <<>> /\ Top(t).pc = "enter"
           THEN Len(stack[t]) - 1 ELSE Len(stack[t])

(* g_mutex is held by one thread, exactly as often as that thread has         *)
(* dispatches past their lock_guard: every way out of On* (empty vector,      *)
(* first refusal, end of the loop, exception) gives back what it took, at any *)
(* depth of re-entrant sends.                                                 *)
LockMatchesFrames ==
    /\ \A t \in Threads : Held(t) > 0 => owner = t /\ holds = Held(t)
    /\ owner = NoThread => holds = 0
    /\ owner # NoThread => Held(owner) > 0

(* Only a thread's own callback can pull the storage from under the range-for *)
(* it runs in: a registration on another thread never does, whatever the      *)
(* interleaving.                                                              *)
OnlyReentryInvalidates ==
    \A t \in Threads : \A i \in 1..Len(stack[t]) :
        Dangling(stack[t][i]) => grownBy[stack[t][i].hook] = t

(* A packet or RPC is let through only after every callback that was          *)
(* registered before the hook was called has been asked and has agreed, even  *)
(* when other threads register, or callbacks re-enter the hooks, meanwhile.   *)
AllowedMeansAllAsked ==
    [][\A t \in Threads :
          (ReturnEmpty(t) \/ ReturnAllowed(t)) => Top(t).pos >= Top(t).floor]_vars

(* The lock is never kept for good: whoever holds it, through any nest of     *)
(* re-entrant sends and registrations, gives it up (or the process is dead).  *)
LockEventuallyFree == (owner # NoThread) ~> (owner = NoThread \/ crashed)
=============================================================================
