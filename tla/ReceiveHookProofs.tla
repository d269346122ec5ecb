--------------------------- MODULE ReceiveHookProofs ---------------------------
(***************************************************************************)
(* The incoming packet hook, for any set of threads and of packets: each   *)
(* packet has one owner, the hook and the facade implement PacketFilter,   *)
(* and null is returned only when RakNet's queue is empty.                 *)
(***************************************************************************)
EXTENDS ReceiveHook, TLAPS, SequenceTheorems, FiniteSetTheorems

Entries(q) == {q[i] : i \in 1..Len(q)}
NoDuplicates(q) == \A i, j \in 1..Len(q) : q[i] = q[j] => i = j

Owned == delivered \cup freed \cup leaked

\* A packet is in the queue once, at one thread, or in one of the histories.
OwnersAreApart ==
    /\ NoDuplicates(queue)
    /\ \A t, u \in Threads : held[t] = held[u] /\ held[t] # NoPacket => t = u
    /\ \A t \in Threads : held[t] \notin Entries(queue) \cup Owned
    /\ Entries(queue) \cap Owned = {}
    /\ delivered \cap (freed \cup leaked) = {} /\ freed \cap leaked = {}

\* RakNet's packets are those that have an owner.
ArrivedAreOwned ==
    arrived = Entries(queue) \cup Owned \cup ({held[t] : t \in Threads} \ {NoPacket})

\* The place of a thread says whether it has a packet, and how it was judged.
HeldMatchesPlace(t) ==
    /\ held[t] = NoPacket <=> pc[t] \in {"idle", "take"}
    /\ pc[t] \in {"check", "dispatch"} => judged[held[t]] = "none"
    /\ pc[t] \in {"dispatch", "dealloc"} => held[t] \notin Malformed
    /\ pc[t] = "dealloc" => judged[held[t]] = "refuse"

NoneTooEarly == \A p \in Packets :
                    p \in Entries(queue) \/ p \notin arrived => judged[p] = "none"

IInv == /\ TypeOK /\ OwnersAreApart /\ ArrivedAreOwned /\ NoneTooEarly
        /\ \A t \in Threads : HeldMatchesPlace(t)

-----------------------------------------------------------------------------
\* A queue without duplicates, and a new packet at its end.
LEMMA AppendFacts ==
    ASSUME NEW S, NEW q \in Seq(S), NEW x \in S \ Entries(q), NoDuplicates(q)
    PROVE  /\ Append(q, x) \in Seq(S) /\ NoDuplicates(Append(q, x))
           /\ Entries(Append(q, x)) = Entries(q) \cup {x}
<1> DEFINE r == Append(q, x)
           n == Len(q)
<1>1. /\ r \in Seq(S) /\ n \in Nat /\ Len(r) = n + 1 /\ r[n + 1] = x
      /\ \A i \in 1..n : r[i] = q[i]
  BY AppendProperties, LenProperties
<1>2. 1..Len(r) = (1..n) \cup {n + 1} BY <1>1
<1> HIDE DEF r, n
<1>3. Entries(r) = {r[i] : i \in 1..n} \cup {x} BY <1>1, <1>2 DEF Entries
<1>4. {r[i] : i \in 1..n} = Entries(q) BY <1>1 DEF Entries, n
<1>5. \A i \in 1..n : r[i] # x BY <1>4
<1>6. NoDuplicates(r) BY <1>1, <1>2, <1>5 DEF NoDuplicates, n
<1> QED BY <1>1, <1>3, <1>4, <1>6 DEF r

\* ... and its first packet taken off.
LEMMA TailFacts ==
    ASSUME NEW S, NEW q \in Seq(S), q # <<>>, NoDuplicates(q)
    PROVE  /\ Head(q) \in S /\ Head(q) \in Entries(q)
           /\ Tail(q) \in Seq(S) /\ NoDuplicates(Tail(q))
           /\ Entries(Tail(q)) = Entries(q) \ {Head(q)}
<1> DEFINE r == Tail(q)
           n == Len(r)
<1>1. /\ Head(q) = q[1] /\ Head(q) \in S
      /\ r \in Seq(S) /\ n \in Nat /\ Len(q) = n + 1
      /\ \A i \in 1..n : r[i] = q[i + 1]
  BY HeadTailProperties, LenProperties, EmptySeq
<1>2. 1..Len(q) = {1} \cup {i + 1 : i \in 1..n}
  <2>1. \A j \in 1..Len(q) : j = 1 \/ (j - 1 \in 1..n /\ j = (j - 1) + 1) BY <1>1
  <2>2. \A i \in 1..n : i + 1 \in 1..Len(q) BY <1>1
  <2>3. 1 \in 1..Len(q) BY <1>1
  <2> QED BY <2>1, <2>2, <2>3
<1> HIDE DEF r, n
<1>3. NoDuplicates(r)
  <2> SUFFICES ASSUME NEW i \in 1..Len(r), NEW j \in 1..Len(r), r[i] = r[j] PROVE i = j
    BY DEF NoDuplicates
  <2>1. i + 1 \in 1..Len(q) /\ j + 1 \in 1..Len(q) BY <1>1 DEF n
  <2>2. i + 1 = j + 1 BY <1>1, <2>1 DEF NoDuplicates, n
  <2> QED BY <2>2
<1>4. Entries(r) = {q[i + 1] : i \in 1..n} BY <1>1 DEF Entries, n
<1>5. Entries(q) = {q[1]} \cup {q[i + 1] : i \in 1..n} BY <1>2 DEF Entries
<1>6. \A i \in 1..n : q[i + 1] # q[1]
  <2> SUFFICES ASSUME NEW i \in 1..n, q[i + 1] = q[1] PROVE FALSE OBVIOUS
  <2>1. i + 1 \in 1..Len(q) /\ 1 \in 1..Len(q) BY <1>1
  <2> QED BY <2>1 DEF NoDuplicates
<1> QED BY <1>1, <1>3, <1>4, <1>5, <1>6 DEF r

-----------------------------------------------------------------------------
LEMMA InitIInv == Init => IInv
<1> SUFFICES ASSUME Init PROVE IInv OBVIOUS
<1> USE DEF Init
<1>1. Len(queue) = 0 /\ queue \in Seq(Packets) /\ Entries(queue) = {}
  BY EmptySeq DEF Entries
<1>2. TypeOK BY <1>1 DEF TypeOK, Layers
<1>3. OwnersAreApart BY <1>1 DEF OwnersAreApart, Owned, NoDuplicates
<1>4. ArrivedAreOwned BY <1>1 DEF ArrivedAreOwned, Owned
<1>5. NoneTooEarly BY DEF NoneTooEarly
<1>6. \A t \in Threads : HeldMatchesPlace(t) BY DEF HeldMatchesPlace
<1> QED BY <1>2, <1>3, <1>4, <1>5, <1>6 DEF IInv

LEMMA ArrivePreserves ==
    ASSUME IInv, NEW p \in Packets, Arrive(p)
    PROVE  IInv'
<1>1. /\ p \notin arrived /\ arrived' = arrived \cup {p} /\ queue' = Append(queue, p)
      /\ UNCHANGED <<freed, leaked, pc, layer, held, forwarder, delivered, judged>>
  BY DEF Arrive, thread
<1>2. /\ p \notin Entries(queue) \cup Owned
      /\ p # NoPacket /\ \A t \in Threads : held[t] # p
  BY <1>1, ReceiveAssumption DEF IInv, ArrivedAreOwned
<1>3. /\ queue' \in Seq(Packets) /\ NoDuplicates(queue')
      /\ Entries(queue') = Entries(queue) \cup {p}
  BY <1>1, <1>2, AppendFacts DEF IInv, TypeOK, OwnersAreApart
<1>4. TypeOK' BY <1>1, <1>3 DEF IInv, TypeOK
<1>5. OwnersAreApart' BY <1>1, <1>2, <1>3 DEF IInv, OwnersAreApart, Owned
<1>6. ArrivedAreOwned' BY <1>1, <1>2, <1>3 DEF IInv, ArrivedAreOwned, Owned
<1>7. NoneTooEarly' BY <1>1, <1>3 DEF IInv, NoneTooEarly
<1>8. \A t \in Threads : HeldMatchesPlace(t)' BY <1>1 DEF IInv, HeldMatchesPlace
<1> QED BY <1>4, <1>5, <1>6, <1>7, <1>8 DEF IInv

LEMMA TakePreserves ==
    ASSUME IInv, NEW t \in Threads, Take(t)
    PROVE  IInv'
<1> DEFINE p == Head(queue)
<1>1. /\ pc[t] = "take" /\ queue # <<>> /\ queue' = Tail(queue)
      /\ held' = [held EXCEPT ![t] = p] /\ pc' = [pc EXCEPT ![t] = "check"]
      /\ UNCHANGED <<arrived, freed, leaked, layer, forwarder, delivered, judged>>
  BY DEF Take, Hold, Goto
<1>2. /\ p \in Packets /\ p \in Entries(queue)
      /\ queue' \in Seq(Packets) /\ NoDuplicates(queue')
      /\ Entries(queue') = Entries(queue) \ {p}
  BY <1>1, TailFacts DEF IInv, TypeOK, OwnersAreApart
<1> HIDE DEF p
<1>3. held[t] = NoPacket /\ p # NoPacket /\ judged[p] = "none"
  BY <1>1, <1>2, ReceiveAssumption DEF IInv, HeldMatchesPlace, NoneTooEarly
<1>4. TypeOK' BY <1>1, <1>2 DEF IInv, TypeOK
<1>5. held'[t] = p /\ \A u \in Threads \ {t} : held'[u] = held[u] /\ held[u] # p
  BY <1>1, <1>2 DEF IInv, TypeOK, OwnersAreApart
<1>6. OwnersAreApart' BY <1>1, <1>2, <1>5 DEF IInv, OwnersAreApart, Owned
<1>7. ArrivedAreOwned'
  <2>1. {held'[u] : u \in Threads} \ {NoPacket}
           = ({held[u] : u \in Threads} \ {NoPacket}) \cup {p}
    BY <1>3, <1>5
  <2> QED BY <1>1, <1>2, <2>1 DEF IInv, ArrivedAreOwned, Owned
<1>8. NoneTooEarly' BY <1>1, <1>2 DEF IInv, NoneTooEarly
<1>9. \A u \in Threads : HeldMatchesPlace(u)'
  BY <1>1, <1>3, <1>5 DEF IInv, TypeOK, HeldMatchesPlace
<1> QED BY <1>4, <1>6, <1>7, <1>8, <1>9 DEF IInv

\* A step of t that leaves every packet where it is.
LEMMA KeepPreserves ==
    ASSUME IInv, TypeOK', NEW t \in Threads, NEW l, pc' = [pc EXCEPT ![t] = l],
           UNCHANGED <<arrived, queue, held, delivered, freed, leaked>>,
           \A p \in Packets \ {held[t]} : judged'[p] = judged[p],
           HeldMatchesPlace(t)'
    PROVE  IInv'
<1>1. OwnersAreApart' BY DEF IInv, OwnersAreApart, Owned
<1>2. ArrivedAreOwned' BY DEF IInv, ArrivedAreOwned, Owned
<1>3. NoneTooEarly'
  <2>1. \A p \in Packets : p \in Entries(queue) \/ p \notin arrived => p # held[t]
    BY ReceiveAssumption DEF IInv, OwnersAreApart, ArrivedAreOwned
  <2> QED BY <2>1 DEF IInv, NoneTooEarly
<1>4. ASSUME NEW u \in Threads \ {t} PROVE HeldMatchesPlace(u)'
  <2>1. pc'[u] = pc[u] /\ held'[u] = held[u] /\ HeldMatchesPlace(u) BY DEF IInv, TypeOK
  <2>2. CASE held[u] = NoPacket BY <2>1, <2>2, ReceiveAssumption DEF IInv, TypeOK, HeldMatchesPlace
  <2>3. CASE held[u] # NoPacket
    <3>1. held[u] \in Packets \ {held[t]} BY <2>3 DEF IInv, TypeOK, OwnersAreApart
    <3> QED BY <2>1, <3>1 DEF HeldMatchesPlace
  <2> QED BY <2>2, <2>3
<1> QED BY <1>1, <1>2, <1>3, <1>4 DEF IInv

\* A step of t that gives its packet to a caller, frees it or loses it.
LEMMA ReleasePreserves ==
    ASSUME IInv, TypeOK', NEW t \in Threads, NEW l \in {"idle", "take"},
           held[t] # NoPacket,
           pc' = [pc EXCEPT ![t] = l], held' = [held EXCEPT ![t] = NoPacket],
           UNCHANGED <<arrived, queue>>,
           \/ delivered' = delivered \cup {held[t]} /\ UNCHANGED <<freed, leaked>>
           \/ freed' = freed \cup {held[t]} /\ UNCHANGED <<delivered, leaked>>
           \/ leaked' = leaked \cup {held[t]} /\ UNCHANGED <<delivered, freed>>,
           \A p \in Packets \ {held[t]} : judged'[p] = judged[p]
    PROVE  IInv'
<1> DEFINE p == held[t]
<1>1. Owned' = Owned \cup {p} BY DEF Owned
<1>2. /\ held'[t] = NoPacket
      /\ \A u \in Threads \ {t} : held'[u] = held[u] /\ held[u] # p /\ pc'[u] = pc[u]
  BY DEF IInv, TypeOK, OwnersAreApart
<1>3. p \in Packets /\ p \notin Entries(queue) \cup Owned BY DEF IInv, TypeOK, OwnersAreApart
<1>4. OwnersAreApart'
  <2>1. /\ delivered' \cap (freed' \cup leaked') = {} /\ freed' \cap leaked' = {}
    BY <1>3 DEF IInv, OwnersAreApart, Owned
  <2>2. NoPacket \notin Entries(queue) \cup Owned'
    <3>1. NoPacket \notin arrived BY ReceiveAssumption DEF IInv, TypeOK
    <3> QED BY <1>1, <3>1 DEF IInv, ArrivedAreOwned
  <2> QED BY <1>1, <1>2, <1>3, <2>1, <2>2 DEF IInv, OwnersAreApart
<1>5. ArrivedAreOwned'
  <2>1. ({held[u] : u \in Threads} \ {NoPacket})
           = ({held'[u] : u \in Threads} \ {NoPacket}) \cup {p}
    BY <1>2
  <2> QED BY <1>1, <2>1 DEF IInv, ArrivedAreOwned
<1>6. NoneTooEarly'
  <2>1. p \in arrived BY DEF IInv, ArrivedAreOwned
  <2> QED BY <1>3, <2>1 DEF IInv, NoneTooEarly
<1>7. \A u \in Threads : HeldMatchesPlace(u)'
  <2>1. HeldMatchesPlace(t)' BY <1>2 DEF IInv, TypeOK, HeldMatchesPlace
  <2>2. ASSUME NEW u \in Threads \ {t} PROVE HeldMatchesPlace(u)'
    <3>1. HeldMatchesPlace(u) BY DEF IInv
    <3>2. held[u] = NoPacket \/ judged'[held[u]] = judged[held[u]] BY <1>2 DEF IInv, TypeOK
    <3> QED BY <1>2, <3>1, <3>2 DEF HeldMatchesPlace
  <2> QED BY <2>1, <2>2
<1> QED BY <1>4, <1>5, <1>6, <1>7 DEF IInv

LEMMA NextIInv == IInv /\ [Next]_vars => IInv'
<1> SUFFICES ASSUME IInv, [Next]_vars PROVE IInv' OBVIOUS
<1> USE DEF packets, thread, Goto, In, Hold, Verdicts, Layers
<1>1. TypeOK BY DEF IInv
<1>2. ASSUME NEW p \in Packets, Arrive(p) PROVE IInv' BY <1>2, ArrivePreserves
<1>3. CASE UNCHANGED vars
  <2>1. UNCHANGED <<arrived, queue, freed, leaked, pc, layer, held, forwarder, delivered,
                    judged>>
    BY <1>3 DEF vars
  <2> QED BY <2>1 DEF IInv, TypeOK, OwnersAreApart, ArrivedAreOwned, Owned, NoneTooEarly,
                      HeldMatchesPlace
<1>4. CASE SetForwarder
  BY <1>4 DEF SetForwarder, IInv, TypeOK, OwnersAreApart, ArrivedAreOwned, Owned,
              NoneTooEarly, HeldMatchesPlace
<1>5. ASSUME NEW t \in Threads, NEW l \in {"hook", "nested"}, Call(t, l) PROVE IInv'
  <2>1. TypeOK' BY <1>1, <1>5 DEF Call, TypeOK
  <2>2. HeldMatchesPlace(t)' BY <1>1, <1>5 DEF Call, IInv, TypeOK, HeldMatchesPlace
  <2> QED BY <1>5, <2>1, <2>2, KeepPreserves DEF Call
<1>6. ASSUME NEW t \in Threads, Take(t) PROVE IInv' BY <1>6, TakePreserves
<1>7. ASSUME NEW t \in Threads, ReturnNull(t) PROVE IInv'
  <2>1. TypeOK' BY <1>1, <1>7 DEF ReturnNull, TypeOK
  <2>2. HeldMatchesPlace(t)' BY <1>1, <1>7 DEF ReturnNull, IInv, TypeOK, HeldMatchesPlace
  <2> QED BY <1>7, <2>1, <2>2, KeepPreserves DEF ReturnNull
<1>8. ASSUME NEW t \in Threads, pc[t] \in {"check", "dispatch"}, Return(t),
             UNCHANGED <<arrived, packets, forwarder>>, judged' \in [Packets -> Verdicts \cup {"none"}],
             \A p \in Packets \ {held[t]} : judged'[p] = judged[p]
      PROVE IInv'
  <2>1. held[t] \in Packets BY <1>1, <1>8 DEF IInv, TypeOK, HeldMatchesPlace
  <2>2. TypeOK' BY <1>1, <1>8, <2>1 DEF Return, TypeOK
  <2> QED BY <1>8, <2>1, <2>2, ReleasePreserves, ReceiveAssumption DEF Return
<1>9. ASSUME NEW t \in Threads, pc[t] \in {"check", "dispatch"}, ReturnToFacade(t),
             UNCHANGED <<arrived, packets, forwarder, judged>>
      PROVE IInv'
  <2>1. TypeOK' BY <1>1, <1>9 DEF ReturnToFacade, TypeOK
  <2>2. HeldMatchesPlace(t)'
    BY <1>1, <1>9 DEF ReturnToFacade, IInv, TypeOK, HeldMatchesPlace
  <2> QED BY <1>9, <2>1, <2>2, KeepPreserves DEF ReturnToFacade
<1>10. ASSUME NEW t \in Threads, ReturnMalformed(t) PROVE IInv'
  <2>1. pc[t] = "check" /\ UNCHANGED <<arrived, packets, forwarder, judged>>
    BY <1>10 DEF ReturnMalformed
  <2>2. CASE ReturnToFacade(t) BY <1>9, <2>1, <2>2
  <2>3. CASE Return(t) BY <1>1, <1>8, <2>1, <2>3 DEF TypeOK
  <2> QED BY <1>10, <2>2, <2>3 DEF ReturnMalformed
<1>11. ASSUME NEW t \in Threads, MakeStream(t) PROVE IInv'
  <2>1. TypeOK' BY <1>1, <1>11 DEF MakeStream, TypeOK
  <2>2. HeldMatchesPlace(t)' BY <1>1, <1>11 DEF MakeStream, IInv, TypeOK, HeldMatchesPlace
  <2> QED BY <1>11, <2>1, <2>2, KeepPreserves DEF MakeStream
<1>12. ASSUME NEW t \in Threads, NEW v \in Verdicts, JudgedAs(t, v)
       PROVE /\ judged' \in [Packets -> Verdicts \cup {"none"}]
             /\ \A p \in Packets \ {held[t]} : judged'[p] = judged[p]
             /\ held[t] \in Packets => judged'[held[t]] = v
  BY <1>1, <1>12 DEF JudgedAs, TypeOK
<1>13. ASSUME NEW t \in Threads, ReturnAllowed(t) PROVE IInv'
  BY <1>8, <1>12, <1>13 DEF ReturnAllowed, Judging
<1>14. ASSUME NEW t \in Threads, PassToFacade(t) PROVE IInv'
  BY <1>9, <1>14 DEF PassToFacade, Judging
<1>15. ASSUME NEW t \in Threads, Refuse(t) \/ RefuseUnjudged(t) PROVE IInv'
  <2>1. /\ pc[t] = "dispatch" /\ JudgedAs(t, "refuse") /\ pc' = [pc EXCEPT ![t] = "dealloc"]
        /\ UNCHANGED <<arrived, packets, layer, held, forwarder, delivered>>
    BY <1>15 DEF Refuse, RefuseUnjudged, Judging
  <2>2. held[t] \in Packets /\ held[t] \notin Malformed
    BY <1>1, <2>1 DEF IInv, TypeOK, HeldMatchesPlace
  <2>3. TypeOK' BY <1>1, <1>12, <2>1 DEF TypeOK
  <2>4. HeldMatchesPlace(t)'
    BY <1>1, <1>12, <2>1, <2>2, ReceiveAssumption DEF TypeOK, HeldMatchesPlace
  <2> QED BY <1>12, <2>1, <2>3, <2>4, KeepPreserves
<1>16. ASSUME NEW t \in Threads, Deallocate(t) PROVE IInv'
  <2>1. held[t] \in Packets BY <1>1, <1>16 DEF Deallocate, IInv, TypeOK, HeldMatchesPlace
  <2>2. TypeOK' BY <1>1, <1>16, <2>1 DEF Deallocate, TypeOK
  <2> QED BY <1>16, <2>1, <2>2, ReleasePreserves, ReceiveAssumption DEF Deallocate
<1>17. ASSUME NEW t \in Threads, Throw(t) PROVE IInv'
  <2>1. held[t] \in Packets
    BY <1>1, <1>17 DEF Throw, Judging, IInv, TypeOK, HeldMatchesPlace
  <2>2. TypeOK' BY <1>1, <1>12, <1>17, <2>1 DEF Throw, TypeOK
  <2> QED BY <1>12, <1>17, <2>1, <2>2, ReleasePreserves, ReceiveAssumption DEF Throw
<1> QED BY <1>2, <1>3, <1>4, <1>5, <1>6, <1>7, <1>10, <1>11, <1>13, <1>14, <1>15, <1>16,
           <1>17 DEF Next

\* The invariant of hkReceive: every packet has one owner, and the place of the
\* thread that has it says what the callbacks said of it.
THEOREM Invariance == Spec => []IInv
<1> QED BY InitIInv, NextIInv, PTL DEF Spec

-----------------------------------------------------------------------------
\* Sets with at most one element, as OneOwner counts them.
LEMMA CountOf ==
    ASSUME NEW S
    PROVE  /\ S = {} => Cardinality(S) = 0
           /\ \A x : S = {x} => Cardinality(S) = 1
BY FS_EmptySet, FS_Singleton

LEMMA OneOwnerHolds == IInv => OneOwner
<1> SUFFICES ASSUME IInv, NEW p \in arrived
             PROVE  Cardinality({i \in DOMAIN queue : queue[i] = p})
                  + Cardinality({t \in Threads : held[t] = p})
                  + Cardinality({s \in {"delivered", "freed", "leaked"} :
                                    p \in CASE s = "delivered" -> delivered
                                            [] s = "freed" -> freed
                                            [] s = "leaked" -> leaked}) = 1
  BY DEF IInv, OneOwner
<1> DEFINE Q == {i \in DOMAIN queue : queue[i] = p}
           H == {t \in Threads : held[t] = p}
           K == {s \in {"delivered", "freed", "leaked"} :
                    p \in CASE s = "delivered" -> delivered
                            [] s = "freed" -> freed
                            [] s = "leaked" -> leaked}
<1>1. p # NoPacket BY ReceiveAssumption DEF IInv, TypeOK
<1>2. DOMAIN queue = 1..Len(queue) BY LenProperties DEF IInv, TypeOK
<1>3. /\ p \in Entries(queue) => \E i : Q = {i}
      /\ p \notin Entries(queue) => Q = {}
  BY <1>2 DEF IInv, OwnersAreApart, NoDuplicates, Entries
<1>4. /\ \A t \in Threads : held[t] = p => H = {t}
      /\ (\A t \in Threads : held[t] # p) => H = {}
  BY <1>1 DEF IInv, OwnersAreApart
<1>5. /\ p \in delivered => K = {"delivered"}
      /\ p \in freed => K = {"freed"}
      /\ p \in leaked => K = {"leaked"}
      /\ p \notin Owned => K = {}
  <2>1. "delivered" \in K <=> p \in delivered OBVIOUS
  <2>2. "freed" \in K <=> p \in freed OBVIOUS
  <2>3. "leaked" \in K <=> p \in leaked OBVIOUS
  <2>4. K \subseteq {"delivered", "freed", "leaked"} OBVIOUS
  <2> HIDE DEF K
  <2> QED BY <2>1, <2>2, <2>3, <2>4 DEF IInv, OwnersAreApart, Owned
<1> HIDE DEF Q, H, K
<1>6. CASE p \in Entries(queue)
  <2>1. p \notin Owned /\ \A t \in Threads : held[t] # p BY <1>6 DEF IInv, OwnersAreApart
  <2>2. Cardinality(Q) = 1 /\ Cardinality(H) = 0 /\ Cardinality(K) = 0
    BY <1>3, <1>4, <1>5, <1>6, <2>1, CountOf
  <2> QED BY <2>2 DEF Q, H, K
<1>7. CASE p \in Owned
  <2>1. p \notin Entries(queue) /\ \A t \in Threads : held[t] # p
    BY <1>7 DEF IInv, OwnersAreApart
  <2>2. Cardinality(Q) = 0 /\ Cardinality(H) = 0 BY <1>3, <1>4, <2>1, CountOf
  <2>3. Cardinality(K) = 1 BY <1>5, <1>7, CountOf DEF Owned
  <2> QED BY <2>2, <2>3 DEF Q, H, K
<1>8. ASSUME NEW t \in Threads, held[t] = p PROVE Cardinality(Q) + Cardinality(H) + Cardinality(K) = 1
  <2>1. p \notin Owned /\ p \notin Entries(queue) BY <1>8 DEF IInv, OwnersAreApart
  <2>2. Cardinality(Q) = 0 /\ Cardinality(H) = 1 /\ Cardinality(K) = 0
    BY <1>3, <1>4, <1>5, <1>8, <2>1, CountOf
  <2> QED BY <2>2
<1> QED BY <1>6, <1>7, <1>8 DEF IInv, ArrivedAreOwned, Q, H, K

\* No packet is freed under a thread or a caller that has it, or lost by both,
\* however many threads poll Receive of the hook and of the facade.
THEOREM OneOwnerEach == Spec => []OneOwner
<1> QED BY Invariance, OneOwnerHolds, PTL

-----------------------------------------------------------------------------
\* The three ways a packet ends, of which only ReturnNull is none.
LEMMA NullStep ==
    ASSUME IInv, [Next]_vars, NEW t \in Threads, pc[t] # "idle", pc'[t] = "idle",
           delivered' = delivered, leaked' = leaked
    PROVE  queue = <<>>
<1> USE DEF Goto, Hold, In, thread
<1>1. TypeOK /\ HeldMatchesPlace(t) /\ OwnersAreApart BY DEF IInv
<1>2. held[t] \notin delivered /\ held[t] \notin leaked BY <1>1 DEF OwnersAreApart, Owned
<1>3. ~Return(t) BY <1>2 DEF Return
<1>4. ~Throw(t) BY <1>2 DEF Throw
<1>5. ASSUME NEW u \in Threads \ {t}, NEW l PROVE pc' # [pc EXCEPT ![u] = l]
  BY <1>1 DEF TypeOK
<1>6. ~UNCHANGED pc OBVIOUS
<1>7. ASSUME NEW l, l # "idle" PROVE pc' # [pc EXCEPT ![t] = l] BY <1>1, <1>7 DEF TypeOK
<1>8. PICK u \in Threads :
         \/ Call(u, "hook") \/ Call(u, "nested") \/ Take(u) \/ ReturnNull(u)
         \/ ReturnMalformed(u) \/ MakeStream(u) \/ ReturnAllowed(u) \/ PassToFacade(u)
         \/ Refuse(u) \/ RefuseUnjudged(u) \/ Deallocate(u) \/ Throw(u)
  BY <1>6 DEF Next, Arrive, SetForwarder, vars
<1>9. u = t
  BY <1>5, <1>8 DEF Call, Take, ReturnNull, ReturnMalformed, MakeStream, ReturnAllowed,
                    PassToFacade, Refuse, RefuseUnjudged, Deallocate, Throw, Return,
                    ReturnToFacade
<1>10. ReturnNull(t)
  BY <1>3, <1>4, <1>7, <1>8, <1>9
     DEF Call, Take, ReturnMalformed, MakeStream, ReturnAllowed, PassToFacade, Refuse,
         RefuseUnjudged, Deallocate, ReturnToFacade
<1> QED BY <1>10 DEF ReturnNull

\* The game's polling loop may stop at null: hkReceive goes on after a refused
\* packet, until the original has none.
THEOREM NullIsTheEnd == Spec => NullMeansDrained
<1>1. IInv /\ [Next]_vars =>
         [\A t \in Threads :
             (pc[t] # "idle" /\ pc'[t] = "idle" /\ delivered' = delivered
                /\ leaked' = leaked) => queue = <<>>]_vars
  BY NullStep
<1> QED BY Invariance, <1>1, PTL DEF Spec, NullMeansDrained

-----------------------------------------------------------------------------
\* The refinement: what PacketFilter sees of a state.
Out == [p \in Packets |-> Outcome(p)]

LEMMA OutcomeFacts ==
    ASSUME IInv, NEW p \in Packets
    PROVE  /\ p \in delivered => Outcome(p) = "delivered"
           /\ p \in freed => Outcome(p) = "dropped"
           /\ p \in leaked => Outcome(p) = "lost"
           /\ p \in arrived \ Owned => Outcome(p) = "pending"
           /\ p \notin arrived => Outcome(p) = "absent"
<1>1. Owned \subseteq arrived BY DEF IInv, ArrivedAreOwned
<1> QED BY <1>1 DEF IInv, OwnersAreApart, Outcome, Owned

LEMMA OutcomeFactsNext ==
    ASSUME IInv', NEW p \in Packets
    PROVE  /\ p \in delivered' => Outcome(p)' = "delivered"
           /\ p \in freed' => Outcome(p)' = "dropped"
           /\ p \in leaked' => Outcome(p)' = "lost"
           /\ p \in arrived' \ Owned' => Outcome(p)' = "pending"
<1>1. Owned' \subseteq arrived' BY DEF IInv, ArrivedAreOwned
<1> QED BY <1>1 DEF IInv, OwnersAreApart, Outcome, Owned

\* The outcome of the packets that a step does not concern.
LEMMA OneMoves ==
    ASSUME NEW p \in Packets,
           \A q \in Packets \ {p} :
              /\ q \in arrived' <=> q \in arrived
              /\ q \in delivered' <=> q \in delivered
              /\ q \in freed' <=> q \in freed
              /\ q \in leaked' <=> q \in leaked
    PROVE  Out' = [Out EXCEPT ![p] = Outcome(p)']
<1>1. \A q \in Packets \ {p} : Outcome(q)' = Outcome(q) BY DEF Outcome
<1> QED BY <1>1 DEF Out

LEMMA NoneMoves ==
    ASSUME UNCHANGED <<arrived, delivered, freed, leaked>>
    PROVE  Out' = Out
BY DEF Out, Outcome

LEMMA InitRefines == Init => Filter!Init
<1> SUFFICES ASSUME Init PROVE Filter!Init OBVIOUS
<1>1. \A p \in Packets : Outcome(p) = "absent" BY DEF Init, Outcome
<1> QED BY <1>1 DEF Init, Filter!Init

\* What a thread holds is pending.
LEMMA HeldIsPending ==
    ASSUME IInv, NEW t \in Threads, held[t] # NoPacket
    PROVE  held[t] \in Packets /\ Out[held[t]] = "pending"
<1>1. held[t] \in Packets /\ held[t] \in arrived \ Owned
  BY DEF IInv, TypeOK, ArrivedAreOwned, OwnersAreApart
<1> QED BY <1>1, OutcomeFacts DEF Out

LEMMA ArriveRefines ==
    ASSUME IInv, IInv', NEW p \in Packets, Arrive(p)
    PROVE  Filter!Arrive(p)
<1>1. Out[p] = "absent" BY OutcomeFacts DEF Arrive, Out
<1>2. p \in arrived' \ Owned'
  <2>1. p \notin Owned BY DEF Arrive, IInv, ArrivedAreOwned
  <2> QED BY <2>1 DEF Arrive, Owned
<1>3. Out' = [Out EXCEPT ![p] = "pending"] BY <1>2, OneMoves, OutcomeFactsNext DEF Arrive
<1> QED BY <1>1, <1>3 DEF Arrive, Filter!Arrive, Out

\* A verdict that stands alone, or that ends the packet in the same step.
LEMMA JudgeRefines ==
    ASSUME IInv, IInv', NEW t \in Threads, NEW v \in Verdicts, pc[t] = "dispatch",
           JudgedAs(t, v), UNCHANGED arrived,
           \/ UNCHANGED <<delivered, freed, leaked>>
           \/ /\ v = "allow" /\ delivered' = delivered \cup {held[t]}
              /\ UNCHANGED <<freed, leaked>>
           \/ /\ v = "throw" /\ leaked' = leaked \cup {held[t]}
              /\ UNCHANGED <<delivered, freed>>
    PROVE  Filter!Judge(held[t], v)
<1>1. HeldMatchesPlace(t) /\ held[t] # NoPacket BY DEF IInv, HeldMatchesPlace
<1> PICK p \in Packets : p = held[t] BY <1>1, HeldIsPending
<1>2. /\ p \in Packets /\ Out[p] = "pending" /\ judged[p] = "none" /\ p \notin Malformed
  BY <1>1, HeldIsPending DEF HeldMatchesPlace
<1>3. judged' = [judged EXCEPT ![p] = v] BY DEF JudgedAs
<1>4. Out' \in {Out, [Out EXCEPT ![p] = Filter!Fate(v)]}
  <2>1. CASE UNCHANGED <<delivered, freed, leaked>> BY <2>1, NoneMoves
  <2>2. CASE /\ v = "allow" /\ delivered' = delivered \cup {p}
             /\ UNCHANGED <<freed, leaked>>
    <3>1. Outcome(p)' = "delivered" BY <1>2, <2>2, OutcomeFactsNext
    <3>2. Out' = [Out EXCEPT ![p] = "delivered"] BY <1>2, <2>2, <3>1, OneMoves
    <3> QED BY <2>2, <3>2 DEF Filter!Fate
  <2>3. CASE /\ v = "throw" /\ leaked' = leaked \cup {p}
             /\ UNCHANGED <<delivered, freed>>
    <3>1. Outcome(p)' = "lost" BY <1>2, <2>3, OutcomeFactsNext
    <3>2. Out' = [Out EXCEPT ![p] = "lost"] BY <1>2, <2>3, <3>1, OneMoves
    <3> QED BY <2>3, <3>2 DEF Filter!Fate
  <2> QED BY <2>1, <2>2, <2>3
<1> QED BY <1>2, <1>3, <1>4 DEF Filter!Judge, Filter!Resolved, Out

\* The refused packet is freed, the one without data returned.
LEMMA ResolveRefines ==
    ASSUME IInv, IInv', NEW t \in Threads, held[t] # NoPacket, UNCHANGED <<arrived, judged>>,
           \/ /\ pc[t] = "dealloc" /\ freed' = freed \cup {held[t]}
              /\ UNCHANGED <<delivered, leaked>>
           \/ /\ held[t] \in Malformed /\ delivered' = delivered \cup {held[t]}
              /\ UNCHANGED <<freed, leaked>>
    PROVE  Filter!Resolve(held[t])
<1> PICK p \in Packets : p = held[t] BY HeldIsPending
<1>1. p \in Packets /\ Out[p] = "pending" BY HeldIsPending
<1>2. CASE /\ pc[t] = "dealloc" /\ freed' = freed \cup {p}
           /\ UNCHANGED <<delivered, leaked>>
  <2>1. p \notin Malformed /\ judged[p] = "refuse" BY <1>2 DEF IInv, HeldMatchesPlace
  <2>2. Outcome(p)' = "dropped" BY <1>1, <1>2, OutcomeFactsNext
  <2>3. Out' = [Out EXCEPT ![p] = "dropped"] BY <1>1, <1>2, <2>2, OneMoves
  <2>4. Filter!Words(p) = {"refuse"} BY <1>1, <2>1 DEF Filter!Words
  <2> QED BY <1>1, <2>3, <2>4 DEF Filter!Resolve, Filter!Resolved, Filter!Fate, Out
<1>3. CASE /\ p \in Malformed /\ delivered' = delivered \cup {p}
           /\ UNCHANGED <<freed, leaked>>
  <2>1. Outcome(p)' = "delivered" BY <1>1, <1>3, OutcomeFactsNext
  <2>2. Out' = [Out EXCEPT ![p] = "delivered"] BY <1>1, <1>3, <2>1, OneMoves
  <2>3. Filter!Words(p) = {"allow"}
    BY <1>1, <1>3 DEF Filter!Words, IInv, TypeOK, HeldMatchesPlace
  <2> QED BY <1>1, <1>3, <2>2, <2>3
          DEF Filter!Resolve, Filter!Resolved, Filter!Fate, Out
<1> QED BY <1>2, <1>3

LEMMA NextRefines == IInv /\ IInv' /\ [Next]_vars => [Filter!Next]_(Filter!vars)
<1> SUFFICES ASSUME IInv, IInv', [Next]_vars PROVE [Filter!Next]_(Filter!vars) OBVIOUS
<1> USE DEF packets
<1>1. ASSUME UNCHANGED <<arrived, delivered, freed, leaked, judged>>
      PROVE  UNCHANGED Filter!vars
  BY <1>1, NoneMoves DEF Filter!vars, Out
<1>2. ASSUME NEW p \in Packets,
             Filter!Arrive(p) \/ Filter!Resolve(p) \/ \E v \in Verdicts : Filter!Judge(p, v)
      PROVE  Filter!Next
  BY <1>2 DEF Filter!Next, Verdicts
<1>3. ASSUME NEW p \in Packets, Arrive(p) PROVE Filter!Next BY <1>2, <1>3, ArriveRefines
<1>4. CASE UNCHANGED vars \/ SetForwarder BY <1>1, <1>4 DEF vars, SetForwarder
<1>5. ASSUME NEW t \in Threads,
             Call(t, "hook") \/ Call(t, "nested") \/ Take(t) \/ ReturnNull(t) \/ MakeStream(t)
                \/ PassToFacade(t)
      PROVE  UNCHANGED Filter!vars
  BY <1>1, <1>5 DEF Call, Take, ReturnNull, MakeStream, PassToFacade, ReturnToFacade
<1>6. ASSUME NEW t \in Threads, NEW v \in Verdicts, Filter!Judge(held[t], v), pc[t] = "dispatch"
      PROVE  Filter!Next
  <2>1. held[t] \in Packets BY <1>6 DEF IInv, TypeOK, HeldMatchesPlace
  <2> QED BY <1>2, <1>6, <2>1
<1>7. ASSUME NEW t \in Threads,
             ReturnAllowed(t) \/ Refuse(t) \/ RefuseUnjudged(t) \/ Throw(t)
      PROVE  Filter!Next
  <2>1. pc[t] = "dispatch"
    BY <1>7 DEF ReturnAllowed, Refuse, RefuseUnjudged, Throw, Judging
  <2>2. CASE ReturnAllowed(t)
    <3>1. Filter!Judge(held[t], "allow")
      BY <2>1, <2>2, JudgeRefines DEF ReturnAllowed, Return, Verdicts
    <3> QED BY <1>6, <2>1, <3>1 DEF Verdicts
  <2>3. CASE Refuse(t) \/ RefuseUnjudged(t)
    <3>1. Filter!Judge(held[t], "refuse")
      BY <2>1, <2>3, JudgeRefines DEF Refuse, RefuseUnjudged, Verdicts
    <3> QED BY <1>6, <2>1, <3>1 DEF Verdicts
  <2>4. CASE Throw(t)
    <3>1. Filter!Judge(held[t], "throw")
      BY <2>1, <2>4, JudgeRefines DEF Throw, Verdicts
    <3> QED BY <1>6, <2>1, <3>1 DEF Verdicts
  <2> QED BY <1>7, <2>2, <2>3, <2>4
<1>8. ASSUME NEW t \in Threads, Filter!Resolve(held[t]), held[t] # NoPacket
      PROVE  Filter!Next
  BY <1>2, <1>8 DEF IInv, TypeOK
<1>9. ASSUME NEW t \in Threads, ReturnMalformed(t) PROVE [Filter!Next]_(Filter!vars)
  <2>1. held[t] # NoPacket BY <1>9 DEF ReturnMalformed, IInv, HeldMatchesPlace
  <2>2. CASE ReturnToFacade(t) BY <1>1, <1>9, <2>2 DEF ReturnMalformed, ReturnToFacade
  <2>3. CASE Return(t)
    BY <1>8, <1>9, <2>1, <2>3, ResolveRefines DEF ReturnMalformed, Return
  <2> QED BY <1>9, <2>2, <2>3 DEF ReturnMalformed
<1>10. ASSUME NEW t \in Threads, Deallocate(t) PROVE Filter!Next
  <2>1. held[t] # NoPacket BY <1>10 DEF Deallocate, IInv, HeldMatchesPlace
  <2> QED BY <1>8, <1>10, <2>1, ResolveRefines DEF Deallocate
<1> QED BY <1>3, <1>4, <1>1, <1>5, <1>7, <1>9, <1>10 DEF Next

\* hkReceive and the facade over it implement PacketFilter: each packet gets one
\* final verdict, and ends once, as that says.
THEOREM Implements == Spec => IsAFilter
<1> QED BY Invariance, InitRefines, NextRefines, PTL DEF Spec, IsAFilter, Filter!Spec
=============================================================================
