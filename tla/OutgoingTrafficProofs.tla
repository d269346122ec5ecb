------------------------- MODULE OutgoingTrafficProofs -------------------------
(***************************************************************************)
(* The send hooks and the facade over them, for any set of messages, and   *)
(* so for calls nested to any depth: what the callers are told is true,    *)
(* edits reach the originals, and the hooks implement PacketFilter.        *)
(***************************************************************************)
EXTENDS OutgoingTraffic, TLAPS, SequenceTheorems, FiniteSetTheorems

Streams == {"Send_BitStream", "RPC_BitStream", "RPC_Extended"}

\* A message has one call, which has not returned, and is sent as it returns.
OneCallEach ==
    /\ \A i, j \in 1..Len(frames) : frames[i].msg = frames[j].msg => i = j
    /\ \A i \in 1..Len(frames) : returned[frames[i].msg] = "none"
    /\ IsFiniteSet(SentMessages)
    /\ CallerIsTold

\* Where a call is says what was judged of its message and what is passed on.
FrameMatchesPlace(f) ==
    /\ f.layer = "facade" => f.msg \in ViaFacade
    /\ f.msg \in Empty => f.at = "pass" /\ f.content = "original"
    /\ f.layer = "facade" \/ f.at = "judge" => judged[f.msg] = "none"
    /\ f.at = "pass" => f.rewound
    /\ f.at = "pass" /\ f.layer = "hook" /\ f.msg \notin Empty =>
           /\ judged[f.msg] = "allow"
           /\ Overload[f.msg] \in Streams => f.content = left[f.msg]

\* What nobody was shown is as it was; a copy is not the caller's.
UntouchedIsOriginal(m) ==
    /\ m \in Empty => judged[m] = "none" /\ left[m] = "original"
    /\ Overload[m] = "RPC_CharPtr" /\ m \notin ViaFacade => left[m] = "original"
    /\ returned[m] = "none" /\ m \notin Inside => judged[m] = "none"

IInv == /\ TypeOK /\ OneCallEach /\ StreamsCarryEdits
        /\ \A i \in 1..Len(frames) : FrameMatchesPlace(frames[i])
        /\ \A m \in Messages : UntouchedIsOriginal(m)

-----------------------------------------------------------------------------
\* The top of a stack is taken off, or replaced.
LEMMA FrontFacts ==
    ASSUME NEW S, NEW q \in Seq(S), q # <<>>
    PROVE  /\ Len(q) \in Nat \ {0} /\ q[Len(q)] \in S
           /\ Front(q) \in Seq(S) /\ Len(Front(q)) = Len(q) - 1
           /\ \A i \in 1..Len(q) - 1 : Front(q)[i] = q[i]
<1>1. Len(q) \in Nat \ {0} /\ \A i \in 1..Len(q) : q[i] \in S
  BY EmptySeq, LenProperties, ElementOfSeq
<1>2. \A i \in 1..Len(q) - 1 : q[i] \in S BY <1>1
<1>3. /\ Front(q) \in Seq(S)
      /\ Len(Front(q)) = IF 1 <= Len(q) - 1 THEN (Len(q) - 1) - 1 + 1 ELSE 0
      /\ \A i \in 1..(Len(q) - 1) - 1 + 1 : Front(q)[i] = q[1 + i - 1]
  BY <1>1, <1>2, SubSeqProperties DEF Front
<1>4. \A i \in 1..Len(q) - 1 : Front(q)[i] = q[i] BY <1>1, <1>3
<1>5. Len(Front(q)) = Len(q) - 1
  <2>1. \A n \in Nat \ {0} : (IF 1 <= n - 1 THEN (n - 1) - 1 + 1 ELSE 0) = n - 1 OBVIOUS
  <2> QED BY <1>1, <1>3, <2>1
<1>6. q[Len(q)] \in S BY <1>1
<1> QED BY <1>1, <1>3, <1>4, <1>5, <1>6

LEMMA ReplaceFacts ==
    ASSUME NEW S, NEW q \in Seq(S), q # <<>>, NEW x \in S
    PROVE  LET r == Append(Front(q), x) IN
           /\ r \in Seq(S) /\ Len(r) = Len(q) /\ r[Len(q)] = x
           /\ \A i \in 1..Len(q) : i # Len(q) => r[i] = q[i]
<1>1. Len(q) \in Nat \ {0} /\ Front(q) \in Seq(S) /\ Len(Front(q)) = Len(q) - 1
      /\ \A i \in 1..Len(q) - 1 : Front(q)[i] = q[i]
  BY FrontFacts
<1>2. /\ Append(Front(q), x) \in Seq(S)
      /\ Len(Append(Front(q), x)) = Len(Front(q)) + 1
      /\ \A i \in 1..Len(Front(q)) : Append(Front(q), x)[i] = Front(q)[i]
      /\ Append(Front(q), x)[Len(Front(q)) + 1] = x
  BY <1>1, AppendProperties
<1>3. \A i \in 1..Len(q) : i # Len(q) => i \in 1..Len(q) - 1 BY <1>1
<1> QED BY <1>1, <1>2, <1>3

\* The call in progress, when there is one.
LEMMA TopFacts ==
    ASSUME IInv, frames # <<>>
    PROVE  /\ Len(frames) \in 1..Len(frames) /\ Top \in Frame /\ Top.msg \in Messages
           /\ Top.msg \in Inside /\ returned[Top.msg] = "none" /\ FrameMatchesPlace(Top)
           /\ \A i \in 1..Len(frames) : i # Len(frames) => frames[i].msg # Top.msg
<1>1. frames \in Seq(Frame) BY DEF IInv, TypeOK
<1>2. Len(frames) \in Nat \ {0} /\ Top \in Frame BY <1>1, FrontFacts DEF Top
<1>3. Len(frames) \in 1..Len(frames) BY <1>2
<1> QED BY <1>2, <1>3 DEF IInv, OneCallEach, Top, Inside, Frame

\* What the two sequences hold.
LEMMA ElementFacts ==
    ASSUME IInv
    PROVE  /\ \A i \in 1..Len(frames) : frames[i] \in Frame /\ frames[i].msg \in Messages
           /\ \A i \in 1..Len(sent) : /\ sent[i] \in Sending /\ sent[i].msg \in Messages
                                      /\ sent[i].msg \in SentMessages
<1>1. \A i \in 1..Len(frames) : frames[i] \in Frame BY ElementOfSeq DEF IInv, TypeOK
<1>2. \A i \in 1..Len(sent) : sent[i] \in Sending
  BY ElementOfSeq DEF IInv, TypeOK
<1> QED BY <1>1, <1>2 DEF Frame, Sending, SentMessages

\* A message was sent as its call returned.
LEMMA SentFacts ==
    ASSUME IInv, NEW m \in Messages
    PROVE  /\ m \in SentMessages => returned[m] \in {"true", "false"}
           /\ returned[m] = "true" => m \in SentMessages
BY DEF IInv, OneCallEach, CallerIsTold, SentMessages

LEMMA SentFactsNext ==
    ASSUME IInv', NEW m \in Messages
    PROVE  m \in SentMessages' => returned'[m] \in {"true", "false"}
BY DEF IInv, OneCallEach, CallerIsTold, SentMessages

\* What the callers of other messages were told stays so.
LEMMA OthersWereTold ==
    ASSUME IInv, NEW m \in Messages, m \notin SentMessages, UNCHANGED sent,
           NEW v, returned' = [returned EXCEPT ![m] = v], v # "true"
    PROVE  CallerIsTold'
<1>1. \A i \in 1..Len(sent) : sent[i].msg \in Messages \ {m} BY ElementFacts
<1>2. SentMessages' = SentMessages BY DEF SentMessages
<1>3. \A k \in Messages \ {m} : returned'[k] = returned[k] BY DEF IInv, TypeOK
<1>4. returned'[m] = v BY DEF IInv, TypeOK
<1> QED BY <1>1, <1>2, <1>3, <1>4 DEF IInv, OneCallEach, CallerIsTold

\* How the calls in progress, and the messages sent, change.
LEMMA PushInside ==
    ASSUME IInv, NEW f \in Frame, frames' = Append(frames, f)
    PROVE  Inside' = Inside \cup {f.msg}
<1> DEFINE n == Len(frames)
<1>1. /\ n \in Nat /\ Len(frames') = n + 1 /\ frames'[n + 1] = f
      /\ \A i \in 1..n : frames'[i] = frames[i]
  BY AppendProperties, LenProperties DEF IInv, TypeOK
<1>2. 1..n + 1 = (1..n) \cup {n + 1} BY <1>1
<1> HIDE DEF n
<1>3. Inside' = {frames'[i].msg : i \in 1..n} \cup {f.msg} BY <1>1, <1>2 DEF Inside
<1>4. {frames'[i].msg : i \in 1..n} = Inside BY <1>1 DEF Inside, n
<1> QED BY <1>3, <1>4

LEMMA ReplaceInside ==
    ASSUME IInv, frames # <<>>, NEW f \in Frame, f.msg = Top.msg,
           frames' = Append(Front(frames), f)
    PROVE  Inside' = Inside
<1>1. /\ Len(frames') = Len(frames) /\ Len(frames) \in 1..Len(frames)
      /\ \A i \in 1..Len(frames) : frames'[i].msg = frames[i].msg
  BY TopFacts, ReplaceFacts DEF IInv, TypeOK, Top
<1> QED BY <1>1 DEF Inside

LEMMA LeaveInside ==
    ASSUME IInv, frames # <<>>, NEW m, m = Top.msg, frames' = Front(frames)
    PROVE  Inside' = Inside \ {m}
<1> DEFINE n == Len(frames)
<1>1. /\ n \in Nat \ {0} /\ Len(frames') = n - 1
      /\ \A i \in 1..n - 1 : frames'[i] = frames[i]
  BY FrontFacts DEF IInv, TypeOK
<1>2. Inside' = {frames[i].msg : i \in 1..n - 1} BY <1>1 DEF Inside
<1>3. 1..n = (1..n - 1) \cup {n} BY <1>1
<1>4. frames[n].msg = m BY DEF Top
<1>5. \A i \in 1..n - 1 : frames[i].msg # m
  <2>1. \A i \in 1..n - 1 : i \in 1..n /\ i # n BY <1>1
  <2> QED BY <2>1, TopFacts
<1> HIDE DEF n
<1> QED BY <1>2, <1>3, <1>4, <1>5 DEF Inside, n

LEMMA AppendSent ==
    ASSUME IInv, NEW x \in Sending, sent' = Append(sent, x)
    PROVE  LET s == Len(sent) IN
           /\ sent' \in Seq(Sending) /\ Len(sent') = s + 1 /\ sent'[s + 1] = x
           /\ \A i \in 1..s : sent'[i] = sent[i]
           /\ \A i \in 1..Len(sent') : i \in 1..s \/ i = s + 1
           /\ SentMessages' = SentMessages \cup {x.msg}
<1> DEFINE s == Len(sent)
<1>1. sent \in Seq(Sending) /\ s \in Nat BY LenProperties DEF IInv, TypeOK
<1>2. /\ sent' \in Seq(Sending) /\ Len(sent') = s + 1 /\ sent'[s + 1] = x
      /\ \A i \in 1..s : sent'[i] = sent[i]
  BY <1>1, AppendProperties
<1>3. 1..Len(sent') = (1..s) \cup {s + 1} BY <1>1, <1>2
<1> HIDE DEF s
<1>4. SentMessages' = {sent'[i].msg : i \in 1..s} \cup {x.msg}
  BY <1>2, <1>3 DEF SentMessages
<1>5. {sent'[i].msg : i \in 1..s} = SentMessages BY <1>2 DEF SentMessages, s
<1> QED BY <1>2, <1>3, <1>4, <1>5 DEF s

-----------------------------------------------------------------------------
LEMMA InitIInv == Init => IInv
<1> SUFFICES ASSUME Init PROVE IInv OBVIOUS
<1> USE DEF Init
<1>1. /\ frames \in Seq(Frame) /\ Len(frames) = 0 /\ Len(sent) = 0 /\ sent \in Seq(Sending)
  BY EmptySeq DEF Frame, Sending
<1>2. SentMessages = {} /\ Inside = {} BY <1>1 DEF SentMessages, Inside
<1>3. IsFiniteSet(SentMessages) /\ Cardinality(SentMessages) = 0 BY <1>2, FS_EmptySet
<1>4. TypeOK
  <2>1. left \in [Messages -> Contents] BY DEF Contents
  <2>2. sent \in Seq(Sending) BY <1>1
  <2>3. \A i \in 1..Len(frames) : returned[frames[i].msg] = "none" BY <1>1
  <2>4. /\ returned \in [Messages -> {"none", "true", "false", "exception"}]
        /\ judged \in [Messages -> {"none", "allow", "refuse", "throw"}]
    OBVIOUS
  <2>5. client \in BOOLEAN /\ forwarder \in BOOLEAN OBVIOUS
  <2> HIDE DEF Init
  <2> QED BY <1>1, <2>1, <2>2, <2>3, <2>4, <2>5 DEF TypeOK
<1>5. OneCallEach BY <1>1, <1>2, <1>3 DEF OneCallEach, CallerIsTold
<1>6. StreamsCarryEdits BY <1>1 DEF StreamsCarryEdits
<1>7. \A m \in Messages : UntouchedIsOriginal(m) BY DEF UntouchedIsOriginal
<1> QED BY <1>1, <1>4, <1>5, <1>6, <1>7 DEF IInv

\* A call begins, from the game or from a callback.
LEMMA SendPreserves ==
    ASSUME IInv, NEW m \in Messages, Send(m)
    PROVE  IInv'
<1> DEFINE f == [msg |-> m, at |-> FirstStep(m), rewound |-> TRUE,
                 layer |-> IF m \in ViaFacade THEN "facade" ELSE "hook",
                 content |-> "original"]
           n == Len(frames)
<1>1. /\ returned[m] = "none" /\ m \notin Inside /\ frames' = Append(frames, f)
      /\ UNCHANGED <<client, forwarder, sent, returned, judged, left>>
  BY DEF Send, MaySend, setup
<1>2. f \in Frame /\ f.msg = m /\ (m \in Empty => f.at = "pass")
  BY DEF Frame, FirstStep, Contents
<1>3. judged[m] = "none" BY <1>1 DEF IInv, UntouchedIsOriginal
<1>4. f.at = "pass" /\ f.layer = "hook" => m \in Empty BY DEF FirstStep
<1>5. FrameMatchesPlace(f) BY <1>2, <1>3, <1>4 DEF FrameMatchesPlace
<1>6. f.msg = m /\ f.content = "original" /\ f.rewound = TRUE /\ (f.layer = "facade" => m \in ViaFacade)
  OBVIOUS
<1> HIDE DEF f
<1>7. /\ frames' \in Seq(Frame) /\ n \in Nat /\ Len(frames') = n + 1 /\ frames'[n + 1] = f
      /\ \A i \in 1..n : frames'[i] = frames[i]
  BY <1>1, <1>2, AppendProperties, LenProperties DEF IInv, TypeOK
<1>8. \A i \in 1..Len(frames') : i \in 1..n \/ i = n + 1 BY <1>7
<1>9. \A i \in 1..n : frames[i].msg # m BY <1>1 DEF Inside
<1>10. SentMessages' = SentMessages BY <1>1 DEF SentMessages
<1>11. TypeOK' BY <1>1, <1>2, <1>7, <1>8 DEF IInv, TypeOK
<1>12. OneCallEach'
  <2>1. \A i, j \in 1..Len(frames') : frames'[i].msg = frames'[j].msg => i = j
    BY <1>2, <1>7, <1>8, <1>9 DEF IInv, OneCallEach
  <2> QED BY <1>1, <1>10, <1>11, <2>1 DEF IInv, TypeOK, OneCallEach, CallerIsTold
<1>13. StreamsCarryEdits' BY <1>1 DEF IInv, StreamsCarryEdits
<1>14. \A i \in 1..Len(frames') : FrameMatchesPlace(frames[i])'
  BY <1>1, <1>5, <1>7, <1>8 DEF IInv, FrameMatchesPlace
<1>15. \A k \in Messages : UntouchedIsOriginal(k)'
  <2>1. Inside' = Inside \cup {m} BY <1>1, <1>2, PushInside
  <2> QED BY <1>1, <2>1 DEF IInv, UntouchedIsOriginal
<1> QED BY <1>11, <1>12, <1>13, <1>14, <1>15 DEF IInv

\* The facade or LocalClient returns false at once.
LEMMA NoCallPreserves ==
    ASSUME IInv, NEW m \in Messages, SendNothing(m) \/ SendTooEarly(m)
    PROVE  IInv'
<1>1. /\ m \notin Inside /\ returned[m] = "none" /\ returned' = [returned EXCEPT ![m] = "false"]
      /\ UNCHANGED <<client, forwarder, frames, sent, judged, left>>
  BY DEF SendNothing, SendTooEarly, MaySend, setup
<1>2. SentMessages' = SentMessages /\ Inside' = Inside BY <1>1 DEF SentMessages, Inside
<1>3. \A i \in 1..Len(frames) : frames[i].msg # m BY <1>1 DEF Inside
<1>4. TypeOK' BY <1>1, <1>3 DEF IInv, TypeOK, Frame
<1>5. OneCallEach'
  <2>1. CallerIsTold' BY <1>1, SentFacts, OthersWereTold
  <2> QED BY <1>1, <1>2, <1>4, <2>1 DEF IInv, OneCallEach, TypeOK
<1>6. StreamsCarryEdits' BY <1>1 DEF IInv, StreamsCarryEdits
<1>7. \A i \in 1..Len(frames') : FrameMatchesPlace(frames[i])'
  BY <1>1 DEF IInv, FrameMatchesPlace
<1>8. \A k \in Messages : UntouchedIsOriginal(k)'
  BY <1>1, <1>2 DEF IInv, TypeOK, UntouchedIsOriginal
<1> QED BY <1>4, <1>5, <1>6, <1>7, <1>8 DEF IInv

\* What a step may do to the histories of the message m of the top call.
JudgedInPlace(m) ==
    /\ judged' \in [Messages -> {"none", "allow", "refuse", "throw"}]
    /\ left' \in [Messages -> Contents]
    /\ \A k \in Messages \ {m} : judged'[k] = judged[k] /\ left'[k] = left[k]
    /\ m \in Empty => judged'[m] = "none" /\ left'[m] = "original"
    /\ Overload[m] = "RPC_CharPtr" /\ m \notin ViaFacade => left'[m] = "original"

\* The top call goes on.
LEMMA ReplacePreserves ==
    ASSUME IInv, frames # <<>>, NEW f \in Frame, f.msg = Top.msg,
           frames' = Append(Front(frames), f),
           UNCHANGED <<client, forwarder, sent, returned>>,
           JudgedInPlace(f.msg), FrameMatchesPlace(f)'
    PROVE  IInv'
<1> DEFINE n == Len(frames)
<1>1. /\ frames' \in Seq(Frame) /\ Len(frames') = n /\ n \in 1..n /\ frames'[n] = f
      /\ \A i \in 1..n : i # n => frames'[i] = frames[i] /\ frames[i].msg # f.msg
      /\ frames[n].msg = f.msg /\ f.msg \in Messages
  BY TopFacts, ReplaceFacts DEF IInv, TypeOK, Top
<1>2. \A i \in 1..n : frames'[i].msg = frames[i].msg BY <1>1
<1>3. Inside' = Inside /\ f.msg \in Inside BY TopFacts, ReplaceInside
<1>4. SentMessages' = SentMessages BY DEF SentMessages
<1>5. \A i \in 1..n : frames[i].msg \in Messages BY ElementFacts
<1> HIDE DEF n
<1>6. TypeOK' BY <1>1, <1>2 DEF IInv, TypeOK, JudgedInPlace, n
<1>7. OneCallEach'
  BY <1>1, <1>2, <1>4 DEF IInv, OneCallEach, CallerIsTold, n
<1>8. StreamsCarryEdits'
  <2>1. f.msg \notin SentMessages BY <1>1, TopFacts, SentFacts
  <2>2. \A i \in 1..Len(sent) : sent[i].msg \in Messages \ {f.msg}
    BY <2>1, ElementFacts
  <2> QED BY <2>2 DEF IInv, StreamsCarryEdits, JudgedInPlace
<1>9. \A i \in 1..n : FrameMatchesPlace(frames[i])'
  <2>1. \A i \in 1..n : i # n => FrameMatchesPlace(frames[i])'
    BY <1>1, <1>5 DEF IInv, FrameMatchesPlace, JudgedInPlace, n
  <2>2. ASSUME NEW i \in 1..n, i = n PROVE FrameMatchesPlace(frames[i])'
    BY <1>1, <2>2 DEF FrameMatchesPlace
  <2> QED BY <2>1, <2>2
<1>10. \A k \in Messages : UntouchedIsOriginal(k)'
  BY <1>1, <1>3 DEF IInv, UntouchedIsOriginal, JudgedInPlace
<1> QED BY <1>1, <1>6, <1>7, <1>8, <1>9, <1>10 DEF IInv, n

\* What the original gets is what StreamsCarryEdits says of it.
Carries(x, m) ==
    /\ x.rewound
    /\ Overload[m] \in Streams => x.content = left'[m]
    /\ Overload[m] = "RPC_CharPtr" =>
           x.content = left'[m] /\ (m \in ViaFacade \/ left'[m] = "original")

\* The top call returns: with the original's word on its message, if that got it.
LEMMA LeavePreserves ==
    ASSUME IInv, frames # <<>>, NEW m \in Messages, m = Top.msg,
           NEW v \in {"true", "false", "exception"},
           frames' = Front(frames), returned' = [returned EXCEPT ![m] = v],
           UNCHANGED <<client, forwarder>>, JudgedInPlace(m),
           \/ v # "true" /\ UNCHANGED sent
           \/ \E x \in Sending : /\ x.msg = m /\ Carries(x, m)
                                 /\ v = IF x.accepted THEN "true" ELSE "false"
                                 /\ sent' = Append(sent, x)
    PROVE  IInv'
<1> DEFINE n == Len(frames)
           s == Len(sent)
<1>1. /\ frames' \in Seq(Frame) /\ n \in Nat \ {0} /\ Len(frames') = n - 1
      /\ \A i \in 1..n - 1 : frames'[i] = frames[i]
  BY FrontFacts DEF IInv, TypeOK
<1>2. \A i \in 1..Len(frames') : /\ i \in 1..n /\ i # n /\ frames[i].msg # m
                                /\ frames[i].msg \in Messages
  <2>1. \A i \in 1..Len(frames') : i \in 1..n /\ i # n BY <1>1
  <2> QED BY <2>1, TopFacts, ElementFacts
<1>3. frames[n].msg = m /\ returned[m] = "none" BY TopFacts DEF Top
<1>4. Inside' = Inside \ {m} BY LeaveInside
<1>5. m \notin SentMessages /\ sent \in Seq(Sending) /\ s \in Nat
  BY <1>3, SentFacts, LenProperties DEF IInv, TypeOK
<1>6. ASSUME NEW x \in Sending, sent' = Append(sent, x)
      PROVE  /\ sent' \in Seq(Sending) /\ Len(sent') = s + 1 /\ sent'[s + 1] = x
             /\ \A i \in 1..s : sent'[i] = sent[i]
             /\ \A i \in 1..Len(sent') : i \in 1..s \/ i = s + 1
             /\ SentMessages' = SentMessages \cup {x.msg}
  BY <1>6, AppendSent
<1> HIDE DEF n, s
<1>7. TypeOK'
  <2>1. sent' \in Seq(Sending) BY <1>5, <1>6
  <2>2. \A i \in 1..Len(frames') : returned'[frames'[i].msg] = "none"
    BY <1>1, <1>2 DEF IInv, TypeOK, n
  <2> QED BY <1>1, <2>1, <2>2 DEF IInv, TypeOK, JudgedInPlace
<1>8. IsFiniteSet(SentMessages)' /\ CallerIsTold'
  <2>1. CASE v # "true" /\ UNCHANGED sent
    <3>1. SentMessages' = SentMessages BY <2>1 DEF SentMessages
    <3> QED BY <1>5, <2>1, <3>1, OthersWereTold DEF IInv, OneCallEach
  <2>2. CASE \E x \in Sending : /\ x.msg = m /\ Carries(x, m)
                                /\ v = IF x.accepted THEN "true" ELSE "false"
                                /\ sent' = Append(sent, x)
    <3>1. PICK x \in Sending : /\ x.msg = m /\ sent' = Append(sent, x)
                               /\ v = IF x.accepted THEN "true" ELSE "false"
      BY <2>2
    <3>2. /\ SentMessages' = SentMessages \cup {m} /\ Len(sent') = s + 1
          /\ sent'[s + 1] = x /\ \A i \in 1..s : sent'[i] = sent[i]
          /\ \A i \in 1..Len(sent') : i \in 1..s \/ i = s + 1
      BY <1>6, <3>1
    <3>3. IsFiniteSet(SentMessages)' /\ Cardinality(SentMessages') = Cardinality(SentMessages) + 1
      BY <1>5, <3>2, FS_AddElement DEF IInv, OneCallEach
    <3>4. returned'[m] = v /\ \A k \in Messages \ {m} : returned'[k] = returned[k]
      BY DEF IInv, TypeOK
    <3>5. \A k \in Messages : returned'[k] = "true" => k \in SentMessages'
      BY <3>2, <3>4 DEF IInv, OneCallEach, CallerIsTold
    <3>6. ASSUME NEW i \in 1..Len(sent')
          PROVE  returned'[sent'[i].msg] = IF sent'[i].accepted THEN "true" ELSE "false"
      <4>1. CASE i \in 1..s
        <5>1. sent[i].msg \in Messages \ {m} BY <1>5, <4>1, ElementFacts DEF s
        <5> QED BY <3>2, <3>4, <4>1, <5>1 DEF IInv, OneCallEach, CallerIsTold, s
      <4>2. CASE i = s + 1 BY <3>1, <3>2, <3>4, <4>2
      <4> QED BY <3>2, <4>1, <4>2
    <3> QED BY <3>2, <3>3, <3>5, <3>6 DEF IInv, OneCallEach, CallerIsTold, s
  <2> QED BY <2>1, <2>2
<1>9. OneCallEach'
  <2>1. \A i, j \in 1..Len(frames') : frames'[i].msg = frames'[j].msg => i = j
    BY <1>1, <1>2 DEF IInv, OneCallEach, n
  <2> QED BY <1>7, <1>8, <2>1 DEF TypeOK, OneCallEach
<1>10. StreamsCarryEdits'
  <2>1. \A i \in 1..s : sent[i].msg \in Messages \ {m}
    BY <1>5, ElementFacts DEF s
  <2>2. \A i \in 1..s :
           /\ sent[i].rewound
           /\ Overload[sent[i].msg] \in Streams => sent[i].content = left'[sent[i].msg]
           /\ Overload[sent[i].msg] = "RPC_CharPtr" =>
                  /\ sent[i].content = left'[sent[i].msg]
                  /\ sent[i].msg \in ViaFacade \/ left'[sent[i].msg] = "original"
    BY <2>1 DEF IInv, StreamsCarryEdits, JudgedInPlace, Streams, s
  <2>3. CASE UNCHANGED sent BY <2>2, <2>3 DEF StreamsCarryEdits, Streams, s
  <2>4. ASSUME NEW x \in Sending, x.msg = m, Carries(x, m), sent' = Append(sent, x)
        PROVE  StreamsCarryEdits'
    <3>1. ASSUME NEW i \in 1..Len(sent')
          PROVE  /\ sent'[i].rewound
                 /\ Overload[sent'[i].msg] \in Streams =>
                        sent'[i].content = left'[sent'[i].msg]
                 /\ Overload[sent'[i].msg] = "RPC_CharPtr" =>
                        /\ sent'[i].content = left'[sent'[i].msg]
                        /\ sent'[i].msg \in ViaFacade \/ left'[sent'[i].msg] = "original"
      <4>1. CASE i \in 1..s BY <1>6, <2>2, <2>4, <4>1
      <4>2. CASE i = s + 1 BY <1>6, <2>4, <4>2 DEF Carries
      <4> QED BY <1>6, <2>4, <3>1, <4>1, <4>2
    <3> QED BY <3>1 DEF StreamsCarryEdits, Streams
  <2> QED BY <2>3, <2>4
<1>11. \A i \in 1..Len(frames') : FrameMatchesPlace(frames[i])'
  <2>1. ASSUME NEW i \in 1..Len(frames') PROVE FrameMatchesPlace(frames[i])'
    <3>1. FrameMatchesPlace(frames[i]) /\ frames'[i] = frames[i]
      BY <1>1, <1>2 DEF IInv, n
    <3>2. frames[i].msg \in Messages \ {m} BY <1>2
    <3> QED BY <3>1, <3>2 DEF FrameMatchesPlace, JudgedInPlace
  <2> QED BY <2>1
<1>12. \A k \in Messages : UntouchedIsOriginal(k)'
  <2>1. returned'[m] = v /\ v # "none" /\ \A k \in Messages \ {m} : returned'[k] = returned[k]
    BY DEF IInv, TypeOK
  <2> QED BY <1>4, <2>1 DEF IInv, UntouchedIsOriginal, JudgedInPlace
<1> QED BY <1>7, <1>9, <1>10, <1>11, <1>12 DEF IInv

-----------------------------------------------------------------------------
LEMMA WireFacts ==
    ASSUME IInv, NEW f \in Frame
    PROVE  /\ OnTheWire(f) \in Contents
           /\ Overload[f.msg] \in Streams => OnTheWire(f) = f.content
           /\ f.content = "original" /\ ~Copied(f) => OnTheWire(f) = "original"
<1>1. f.content \in Contents /\ left[f.msg] \in Contents BY DEF Frame, IInv, TypeOK
<1> QED BY <1>1 DEF OnTheWire, Copied, ByLength, Streams, Contents

LEMMA UseStreamPreserves ==
    ASSUME IInv, UseStream PROVE IInv'
<1>1. frames # <<>> /\ Top.at = "judge" BY DEF UseStream, Judging
<1>2. Top \in Frame /\ FrameMatchesPlace(Top) BY <1>1, TopFacts
<1>3. PICK c \in Contents : frames' = Append(Front(frames),
                                 [Top EXCEPT !.content = c, !.rewound = FALSE])
  BY <1>2 DEF UseStream, Frame, Contents
<1>4. PICK f \in Frame : f = [Top EXCEPT !.content = c, !.rewound = FALSE]
  BY <1>2 DEF Frame
<1>5. f.msg = Top.msg /\ f.at = "judge" /\ f.layer = Top.layer
  BY <1>1, <1>2, <1>4 DEF Frame
<1>6. UNCHANGED <<client, forwarder, sent, returned, judged, left>>
  BY DEF UseStream, setup
<1>7. FrameMatchesPlace(f)' BY <1>1, <1>2, <1>5, <1>6 DEF FrameMatchesPlace
<1>8. JudgedInPlace(f.msg)
  BY <1>2, <1>5, <1>6 DEF JudgedInPlace, IInv, TypeOK, UntouchedIsOriginal, Frame
<1> QED BY <1>1, <1>3, <1>4, <1>5, <1>6, <1>7, <1>8, ReplacePreserves

\* The word of the callbacks on the message of the top call.
LEMMA JudgeFacts ==
    ASSUME IInv, Judging, NEW m \in Messages, m = Top.msg, NEW v \in {"allow", "refuse", "throw"},
           Judge(v)
    PROVE  /\ JudgedInPlace(m) /\ judged'[m] = v /\ m \notin Empty
           /\ Overload[m] \in Streams => left'[m] = Top.content
<1>1. Top \in Frame /\ FrameMatchesPlace(Top) /\ Top.at = "judge" BY TopFacts DEF Judging
<1>2. m \notin Empty BY <1>1 DEF FrameMatchesPlace
<1>3. judged' = [judged EXCEPT ![m] = v]
      /\ left' = [left EXCEPT ![m] = IF Copied(Top) THEN @ ELSE Top.content]
  BY DEF Judge
<1>4. Top.content \in Contents BY <1>1 DEF Frame
<1>5. Overload[m] = "RPC_CharPtr" /\ m \notin ViaFacade => Copied(Top)
  BY <1>1 DEF Copied, FrameMatchesPlace, Frame
<1>6. Overload[m] \in Streams => ~Copied(Top) BY DEF Copied, Streams
<1>7. left'[m] = IF Copied(Top) THEN left[m] ELSE Top.content
  BY <1>3 DEF IInv, TypeOK
<1>8. Overload[m] = "RPC_CharPtr" /\ m \notin ViaFacade => left'[m] = "original"
  BY <1>5, <1>7 DEF IInv, UntouchedIsOriginal
<1>9. JudgedInPlace(m)
  <2>1. judged' \in [Messages -> {"none", "allow", "refuse", "throw"}]
    BY <1>3 DEF IInv, TypeOK
  <2>2. left' \in [Messages -> Contents] BY <1>3, <1>4 DEF IInv, TypeOK
  <2>3. \A k \in Messages \ {m} : judged'[k] = judged[k] /\ left'[k] = left[k]
    BY <1>3 DEF IInv, TypeOK
  <2> QED BY <1>2, <1>8, <2>1, <2>2, <2>3 DEF JudgedInPlace
<1>10. judged'[m] = v BY <1>3 DEF IInv, TypeOK
<1> QED BY <1>2, <1>6, <1>7, <1>9, <1>10

LEMMA AllowPreserves ==
    ASSUME IInv, Allow PROVE IInv'
<1>1. frames # <<>> /\ Top.at = "judge" /\ Judging BY DEF Allow, Judging
<1>2. Top \in Frame /\ FrameMatchesPlace(Top) /\ Top.msg \in Messages BY <1>1, TopFacts
<1>3. PICK f \in Frame : f = [Top EXCEPT !.at = "pass", !.rewound = TRUE]
  BY <1>2 DEF Frame
<1>4. /\ f.msg = Top.msg /\ f.at = "pass" /\ f.layer = Top.layer /\ f.rewound
      /\ f.content = Top.content
  BY <1>2, <1>3 DEF Frame
<1>5. frames' = Append(Front(frames), f) /\ UNCHANGED <<client, forwarder, sent, returned>>
  BY <1>3 DEF Allow, setup
<1>6. f.msg \in Messages /\ f.msg \notin Empty BY <1>1, <1>2, <1>4 DEF FrameMatchesPlace
<1>7. JudgedInPlace(f.msg) /\ FrameMatchesPlace(f)'
  <2>1. CASE Top.layer = "hook"
    <3>1. Judge("allow") BY <2>1 DEF Allow
    <3>2. /\ JudgedInPlace(f.msg) /\ judged'[f.msg] = "allow"
          /\ Overload[f.msg] \in Streams => left'[f.msg] = f.content
      BY <1>1, <1>2, <1>4, <1>6, <3>1, JudgeFacts
    <3> QED BY <1>4, <1>6, <2>1, <3>2 DEF FrameMatchesPlace
  <2>2. CASE Top.layer = "facade"
    <3>1. /\ left' = [left EXCEPT ![f.msg] = OnTheWire(Top)] /\ judged' = judged
          /\ f.msg \in ViaFacade /\ judged[f.msg] = "none"
      BY <1>2, <1>4, <2>2 DEF Allow, FrameMatchesPlace
    <3>2. OnTheWire(Top) \in Contents BY <1>2, WireFacts
    <3>3. JudgedInPlace(f.msg)
      BY <1>6, <3>1, <3>2 DEF JudgedInPlace, IInv, TypeOK
    <3> QED BY <1>4, <1>6, <2>2, <3>1, <3>3 DEF FrameMatchesPlace
  <2> QED BY <1>2, <2>1, <2>2 DEF Frame
<1> QED BY <1>1, <1>4, <1>5, <1>7, ReplacePreserves

LEMMA PassToHookPreserves ==
    ASSUME IInv, PassToHook PROVE IInv'
<1>1. frames # <<>> /\ Top.at = "pass" /\ Top.layer = "facade" BY DEF PassToHook
<1>2. Top \in Frame /\ FrameMatchesPlace(Top) /\ Top.msg \in Messages BY <1>1, TopFacts
<1> DEFINE at == IF Top.msg \in Empty THEN "pass" ELSE "judge"
<1>3. PICK f \in Frame : f = [Top EXCEPT !.layer = "hook", !.content = OnTheWire(Top), !.at = at]
  BY <1>2, WireFacts DEF Frame
<1>4. /\ f.msg = Top.msg /\ f.at = at /\ f.layer = "hook" /\ f.rewound = Top.rewound
      /\ f.content = OnTheWire(Top)
  BY <1>2, <1>3 DEF Frame
<1>5. /\ frames' = Append(Front(frames), f)
      /\ UNCHANGED <<client, forwarder, sent, returned, judged, left>>
  BY <1>3 DEF PassToHook, setup
<1>6. f.msg \in Empty => f.content = "original"
  BY <1>1, <1>2, <1>4, WireFacts DEF FrameMatchesPlace, Copied
<1>7. FrameMatchesPlace(f)' BY <1>1, <1>2, <1>4, <1>5, <1>6 DEF FrameMatchesPlace
<1>8. JudgedInPlace(f.msg)
  BY <1>2, <1>4, <1>5 DEF JudgedInPlace, IInv, TypeOK, UntouchedIsOriginal
<1> QED BY <1>1, <1>4, <1>5, <1>7, <1>8, ReplacePreserves

LEMMA StopPreserves ==
    ASSUME IInv, Refuse \/ Throw PROVE IInv'
<1>1. PICK v \in {"refuse", "throw"}, w \in {"false", "exception"} :
         Judging /\ Judge(v) /\ Leave(w) /\ UNCHANGED <<client, forwarder, sent>>
  BY DEF Refuse, Throw, setup
<1>2. frames # <<>> BY <1>1 DEF Judging
<1>3. PICK m \in Messages : m = Top.msg BY <1>2, TopFacts
<1>4. JudgedInPlace(m) BY <1>1, <1>3, JudgeFacts
<1>5. frames' = Front(frames) /\ returned' = [returned EXCEPT ![m] = w]
  BY <1>1, <1>3 DEF Leave
<1> QED BY <1>1, <1>2, <1>3, <1>4, <1>5, LeavePreserves

LEMMA PassPreserves ==
    ASSUME IInv, Pass PROVE IInv'
<1>1. frames # <<>> /\ Top.at = "pass" /\ Top.layer = "hook" BY DEF Pass
<1>2. Top \in Frame /\ FrameMatchesPlace(Top) BY <1>1, TopFacts
<1>3. PICK m \in Messages : m = Top.msg BY <1>1, TopFacts
<1>4. frames' = Front(frames) /\ UNCHANGED <<client, forwarder, judged, left>>
  BY DEF Pass, Leave, setup
<1>5. PICK accepted \in BOOLEAN :
         /\ sent' = Append(sent, [msg |-> m, content |-> OnTheWire(Top),
                                  rewound |-> Top.rewound, accepted |-> accepted])
         /\ returned' = [returned EXCEPT ![m] = IF accepted THEN "true" ELSE "false"]
  BY <1>3 DEF Pass, Leave
<1>6. PICK x \in Sending : x = [msg |-> m, content |-> OnTheWire(Top),
                                rewound |-> Top.rewound, accepted |-> accepted]
  BY <1>2, WireFacts DEF Sending, Frame
<1>7. /\ x.msg = m /\ sent' = Append(sent, x) /\ x.content = OnTheWire(Top)
      /\ x.rewound = Top.rewound
      /\ returned' = [returned EXCEPT ![m] = IF x.accepted THEN "true" ELSE "false"]
  BY <1>5, <1>6
<1>8. UntouchedIsOriginal(m) BY DEF IInv
<1>9. JudgedInPlace(m) BY <1>4, <1>8 DEF JudgedInPlace, IInv, TypeOK, UntouchedIsOriginal
<1>10. Carries(x, m)
  <2>1. x.rewound BY <1>1, <1>2, <1>7 DEF FrameMatchesPlace
  <2>2. Overload[m] \in Streams => x.content = left'[m]
    BY <1>1, <1>2, <1>3, <1>4, <1>7, <1>8, WireFacts
       DEF FrameMatchesPlace, UntouchedIsOriginal
  <2>3. Overload[m] = "RPC_CharPtr" => x.content = left'[m]
    BY <1>1, <1>3, <1>4, <1>7 DEF OnTheWire, Copied
  <2>4. Overload[m] = "RPC_CharPtr" => m \in ViaFacade \/ left'[m] = "original"
    BY <1>4, <1>8 DEF UntouchedIsOriginal
  <2> QED BY <2>1, <2>2, <2>3, <2>4 DEF Carries
<1> QED BY <1>1, <1>3, <1>4, <1>7, <1>9, <1>10, LeavePreserves

LEMMA NextIInv == IInv /\ [Next]_vars => IInv'
<1> SUFFICES ASSUME IInv, [Next]_vars PROVE IInv' OBVIOUS
<1>1. CASE UNCHANGED <<frames, sent, returned, judged, left>> /\ TypeOK'
  <2>1. SentMessages' = SentMessages /\ Inside' = Inside
    BY <1>1 DEF SentMessages, Inside
  <2> QED BY <1>1, <2>1 DEF IInv, OneCallEach, CallerIsTold, StreamsCarryEdits,
                            FrameMatchesPlace, UntouchedIsOriginal
<1>2. CASE SetClient \/ SetForwarder \/ Done \/ UNCHANGED vars
  <2>1. UNCHANGED <<frames, sent, returned, judged, left>>
    BY <1>2 DEF SetClient, SetForwarder, Done, vars
  <2>2. client' \in BOOLEAN /\ forwarder' \in BOOLEAN
    BY <1>2 DEF SetClient, SetForwarder, Done, vars, setup, IInv, TypeOK
  <2> QED BY <1>1, <2>1, <2>2 DEF IInv, TypeOK
<1> QED BY <1>2, SendPreserves, NoCallPreserves, UseStreamPreserves, AllowPreserves,
           PassToHookPreserves, StopPreserves, PassPreserves DEF Next

\* The invariant of the send hooks: where the call of a message is says what the
\* callbacks said of it and what is passed on.
THEOREM Invariance == Spec => []IInv
<1> QED BY InitIInv, NextIInv, PTL DEF Spec

\* A caller is told of its message what the original said that got it, once, and
\* of any other message never that it was sent: however deep the calls nest, and
\* wherever callbacks throw.
THEOREM CallersAreTold == Spec => []CallerIsTold
<1>1. IInv => CallerIsTold BY DEF IInv, OneCallEach
<1> QED BY Invariance, <1>1, PTL

\* Streams go out as the callbacks left them, from their start; bytes in a copy
\* of the hook go out as they came.
THEOREM EditsGoOut == Spec => []StreamsCarryEdits
<1>1. IInv => StreamsCarryEdits BY DEF IInv
<1> QED BY Invariance, <1>1, PTL

-----------------------------------------------------------------------------
\* The refinement: what PacketFilter sees of a state.
Out == [m \in Messages |-> Outcome(m)]

LEMMA OutcomeFacts ==
    ASSUME IInv, NEW m \in Messages
    PROVE  /\ m \in SentMessages => Outcome(m) = "delivered"
           /\ m \in Inside => Outcome(m) = "pending"
           /\ returned[m] = "none" /\ m \notin Inside => Outcome(m) = "absent"
<1>1. m \in Inside => returned[m] = "none" BY DEF IInv, OneCallEach, Inside
<1>2. m \in SentMessages => returned[m] # "none" /\ m \notin Inside BY <1>1, SentFacts
<1>3. m \in SentMessages => Outcome(m) = "delivered"
  BY <1>1, <1>2, SentFacts DEF Outcome
<1>4. m \in Inside => Outcome(m) = "pending"
  BY <1>1, <1>2 DEF Outcome
<1>5. returned[m] = "none" /\ m \notin Inside => Outcome(m) = "absent"
  BY <1>2 DEF Outcome
<1> QED BY <1>3, <1>4, <1>5

LEMMA OutcomeFactsNext ==
    ASSUME IInv', NEW m \in Messages
    PROVE  /\ m \in SentMessages' => Outcome(m)' = "delivered"
           /\ m \in Inside' => Outcome(m)' = "pending"
           /\ returned'[m] = "false" /\ m \notin SentMessages' =>
                  Outcome(m)' = IF judged'[m] = "none" THEN "absent" ELSE "dropped"
           /\ returned'[m] = "exception" => Outcome(m)' = "lost"
<1>1. m \in Inside' => returned'[m] = "none" BY DEF IInv, OneCallEach, Inside
<1>2. m \in SentMessages' => m \notin Inside' BY <1>1, SentFactsNext
<1>3. returned'[m] = "exception" => m \notin SentMessages' BY SentFactsNext
<1>4. m \in SentMessages' => Outcome(m)' = "delivered"
  BY <1>2, SentFactsNext DEF Outcome
<1>5. m \in Inside' => Outcome(m)' = "pending"
  BY <1>1, <1>2 DEF Outcome
<1>6. returned'[m] = "false" /\ m \notin SentMessages' =>
          Outcome(m)' = IF judged'[m] = "none" THEN "absent" ELSE "dropped"
  BY <1>1 DEF Outcome
<1>7. returned'[m] = "exception" => Outcome(m)' = "lost"
  BY <1>1, <1>3 DEF Outcome
<1> QED BY <1>4, <1>5, <1>6, <1>7

\* The outcome of the messages that a step does not concern.
LEMMA OneMoves ==
    ASSUME NEW m \in Messages,
           \A k \in Messages \ {m} :
              /\ k \in SentMessages' <=> k \in SentMessages
              /\ k \in Inside' <=> k \in Inside
              /\ returned'[k] = returned[k] /\ judged'[k] = judged[k]
    PROVE  Out' = [Out EXCEPT ![m] = Outcome(m)']
<1>1. \A k \in Messages \ {m} : Outcome(k)' = Outcome(k) BY DEF Outcome
<1> QED BY <1>1 DEF Out

LEMMA NoneMoves ==
    ASSUME SentMessages' = SentMessages, Inside' = Inside, UNCHANGED <<returned, judged>>
    PROVE  UNCHANGED Filter!vars
BY DEF Filter!vars, Outcome

LEMMA InitRefines == Init => Filter!Init
<1> SUFFICES ASSUME Init PROVE Filter!Init OBVIOUS
<1>1. SentMessages = {} /\ Inside = {}
  <2>1. Len(frames) = 0 /\ Len(sent) = 0 BY EmptySeq DEF Init
  <2> QED BY <2>1 DEF SentMessages, Inside
<1>2. \A m \in Messages : Outcome(m) = "absent" BY <1>1 DEF Init, Outcome
<1> QED BY <1>2 DEF Init, Filter!Init

LEMMA SendRefines ==
    ASSUME IInv, IInv', NEW m \in Messages, Send(m)
    PROVE  Filter!Arrive(m)
<1>1. /\ returned[m] = "none" /\ m \notin Inside
      /\ UNCHANGED <<sent, returned, judged>>
  BY DEF Send, MaySend
<1>2. PICK f \in Frame : frames' = Append(frames, f) /\ f.msg = m
  <2>1. [msg |-> m, at |-> FirstStep(m), rewound |-> TRUE,
         layer |-> IF m \in ViaFacade THEN "facade" ELSE "hook",
         content |-> "original"] \in Frame
    BY DEF Frame, FirstStep, Contents
  <2> QED BY <2>1 DEF Send
<1>3. Inside' = Inside \cup {m} /\ SentMessages' = SentMessages
  BY <1>1, <1>2, PushInside DEF SentMessages
<1>4. Out[m] = "absent" /\ Outcome(m)' = "pending"
  BY <1>1, <1>3, OutcomeFacts, OutcomeFactsNext DEF Out
<1>5. Out' = [Out EXCEPT ![m] = "pending"] BY <1>1, <1>3, <1>4, OneMoves
<1> QED BY <1>1, <1>4, <1>5 DEF Filter!Arrive, Out

\* A call that returns at once never was one.
LEMMA NoCallRefines ==
    ASSUME IInv, IInv', NEW m \in Messages, SendNothing(m) \/ SendTooEarly(m)
    PROVE  UNCHANGED Filter!vars
<1>1. /\ returned[m] = "none" /\ m \notin Inside
      /\ returned' = [returned EXCEPT ![m] = "false"]
      /\ UNCHANGED <<frames, sent, judged>>
  BY DEF SendNothing, SendTooEarly, MaySend
<1>2. Inside' = Inside /\ SentMessages' = SentMessages BY <1>1 DEF Inside, SentMessages
<1>3. judged[m] = "none" /\ returned'[m] = "false" /\ m \notin SentMessages
  BY <1>1, SentFacts DEF IInv, TypeOK, UntouchedIsOriginal
<1>4. Out[m] = "absent" /\ Outcome(m)' = "absent"
  BY <1>1, <1>2, <1>3, OutcomeFacts, OutcomeFactsNext DEF Out
<1>5. Out' = [Out EXCEPT ![m] = "absent"] BY <1>1, <1>2, <1>4, OneMoves DEF IInv, TypeOK
<1>6. Out' = Out BY <1>4, <1>5 DEF Out
<1> QED BY <1>1, <1>6 DEF Filter!vars, Out

\* What the top call knows of its message, as PacketFilter says it.
LEMMA TopIsPending ==
    ASSUME IInv, frames # <<>>
    PROVE  /\ Out[Top.msg] = "pending"
           /\ Top.at = "judge" => judged[Top.msg] = "none" /\ Top.msg \notin Empty
BY TopFacts, OutcomeFacts DEF Out, FrameMatchesPlace

LEMMA AllowRefines ==
    ASSUME IInv, IInv', Allow
    PROVE  [Filter!Next]_(Filter!vars)
<1>1. frames # <<>> /\ Judging /\ Top.at = "judge" BY DEF Allow, Judging
<1>2. PICK m \in Messages : m = Top.msg BY <1>1, TopFacts
<1>3. PICK f \in Frame : f = [Top EXCEPT !.at = "pass", !.rewound = TRUE] /\ f.msg = m
  <2>1. [Top EXCEPT !.at = "pass", !.rewound = TRUE] \in Frame
        /\ [Top EXCEPT !.at = "pass", !.rewound = TRUE].msg = Top.msg
    BY <1>1, TopFacts DEF Frame
  <2> QED BY <1>2, <2>1
<1>4. /\ UNCHANGED <<sent, returned>> /\ Inside' = Inside /\ SentMessages' = SentMessages
      /\ m \in Inside
  BY <1>1, <1>2, <1>3, ReplaceInside, TopFacts DEF Allow, SentMessages
<1>5. CASE Top.layer # "hook"
  BY <1>4, <1>5, NoneMoves DEF Allow
<1>6. CASE Top.layer = "hook"
  <2>1. judged' = [judged EXCEPT ![m] = "allow"] BY <1>2, <1>6 DEF Allow, Judge
  <2>2. Out[m] = "pending" /\ judged[m] = "none" /\ m \notin Empty
    BY <1>1, <1>2, TopIsPending
  <2>3. Outcome(m)' = "pending" BY <1>4, OutcomeFactsNext
  <2>4. Out' = [Out EXCEPT ![m] = "pending"] BY <1>4, <2>1, <2>3, OneMoves DEF IInv, TypeOK
  <2>5. Out' = Out BY <2>2, <2>4 DEF Out
  <2>6. Filter!Judge(m, "allow") BY <2>1, <2>2, <2>5 DEF Filter!Judge, Out
  <2> QED BY <2>6 DEF Filter!Next
<1> QED BY <1>5, <1>6

\* The callbacks refuse or throw, and the call is over.
LEMMA StopRefines ==
    ASSUME IInv, IInv', NEW v \in {"refuse", "throw"}, NEW w,
           w = IF v = "refuse" THEN "false" ELSE "exception",
           Judging, Judge(v), Leave(w), UNCHANGED sent
    PROVE  Filter!Next
<1>1. frames # <<>> /\ Top.at = "judge" BY DEF Judging
<1>2. PICK m \in Messages : m = Top.msg BY <1>1, TopFacts
<1>3. /\ judged' = [judged EXCEPT ![m] = v] /\ returned' = [returned EXCEPT ![m] = w]
      /\ frames' = Front(frames)
  BY <1>2 DEF Judge, Leave
<1>4. Inside' = Inside \ {m} /\ SentMessages' = SentMessages
  BY <1>1, <1>2, <1>3, LeaveInside DEF SentMessages
<1>5. Out[m] = "pending" /\ judged[m] = "none" /\ m \notin Empty
  BY <1>1, <1>2, TopIsPending
<1>6. judged'[m] = v /\ returned'[m] = w /\ m \notin SentMessages'
  BY <1>1, <1>2, <1>3, <1>4, TopFacts, SentFacts DEF IInv, TypeOK
<1>7. Outcome(m)' = Filter!Fate(v) BY <1>6, OutcomeFactsNext DEF Filter!Fate
<1>8. Out' = [Out EXCEPT ![m] = Filter!Fate(v)]
  BY <1>3, <1>4, <1>7, OneMoves DEF IInv, TypeOK
<1>9. Filter!Judge(m, v)
  BY <1>3, <1>5, <1>8 DEF Filter!Judge, Filter!Resolved, Out
<1> QED BY <1>9 DEF Filter!Next

\* The original gets the message.
LEMMA PassRefines ==
    ASSUME IInv, IInv', Pass
    PROVE  Filter!Next
<1>1. frames # <<>> /\ Top.at = "pass" /\ Top.layer = "hook" BY DEF Pass
<1>2. PICK m \in Messages : m = Top.msg BY <1>1, TopFacts
<1>3. PICK v \in {"true", "false"} :
         frames' = Front(frames) /\ returned' = [returned EXCEPT ![m] = v] /\ UNCHANGED judged
  BY <1>2 DEF Pass, Leave
<1>4. PICK x \in Sending : x.msg = m /\ sent' = Append(sent, x)
  <2>1. \A accepted \in BOOLEAN :
           [msg |-> m, content |-> OnTheWire(Top), rewound |-> Top.rewound,
            accepted |-> accepted] \in Sending
    BY <1>1, TopFacts, WireFacts DEF Sending, Frame
  <2> QED BY <1>2, <2>1 DEF Pass
<1>5. Inside' = Inside \ {m} /\ SentMessages' = SentMessages \cup {m}
  BY <1>1, <1>2, <1>3, <1>4, LeaveInside, AppendSent
<1>6. Outcome(m)' = "delivered" BY <1>5, OutcomeFactsNext
<1>7. Out' = [Out EXCEPT ![m] = "delivered"]
  BY <1>3, <1>5, <1>6, OneMoves DEF IInv, TypeOK
<1>8. Out[m] = "pending" BY <1>1, <1>2, TopIsPending
<1>9. m \notin Empty => judged[m] = "allow"
  BY <1>1, <1>2, TopFacts DEF FrameMatchesPlace
<1>10. Filter!Resolve(m)
  <2>1. Filter!Words(m) = {"allow"}
    BY <1>2, <1>9 DEF Filter!Words, IInv, UntouchedIsOriginal
  <2> QED BY <1>3, <1>7, <1>8, <2>1
          DEF Filter!Resolve, Filter!Resolved, Filter!Fate, Out
<1> QED BY <1>10 DEF Filter!Next

LEMMA NextRefines == IInv /\ IInv' /\ [Next]_vars => [Filter!Next]_(Filter!vars)
<1> SUFFICES ASSUME IInv, IInv', [Next]_vars PROVE [Filter!Next]_(Filter!vars) OBVIOUS
<1>1. ASSUME UNCHANGED <<frames, sent, returned, judged>> PROVE UNCHANGED Filter!vars
  BY <1>1, NoneMoves DEF SentMessages, Inside
<1>2. CASE SetClient \/ SetForwarder \/ Done \/ UNCHANGED vars
  BY <1>1, <1>2 DEF SetClient, SetForwarder, Done, vars
<1>3. ASSUME NEW m \in Messages, Send(m) PROVE Filter!Next
  BY <1>3, SendRefines DEF Filter!Next
<1>4. ASSUME frames # <<>>, NEW f \in Frame, f.msg = Top.msg,
             frames' = Append(Front(frames), f), UNCHANGED <<sent, returned, judged>>
      PROVE  UNCHANGED Filter!vars
  BY <1>4, ReplaceInside, NoneMoves DEF SentMessages
<1>5. CASE UseStream
  <2>1. frames # <<>> /\ UNCHANGED <<sent, returned, judged>> BY <1>5 DEF UseStream, Judging
  <2>2. Top \in Frame BY <2>1, TopFacts
  <2>3. PICK c \in Contents : frames' = Append(Front(frames),
                                   [Top EXCEPT !.content = c, !.rewound = FALSE])
    BY <1>5, <2>2 DEF UseStream, Frame, Contents
  <2>4. /\ [Top EXCEPT !.content = c, !.rewound = FALSE] \in Frame
        /\ [Top EXCEPT !.content = c, !.rewound = FALSE].msg = Top.msg
    BY <2>2 DEF Frame
  <2> QED BY <1>4, <2>1, <2>3, <2>4
<1>6. CASE PassToHook
  <2>1. frames # <<>> /\ UNCHANGED <<sent, returned, judged>> BY <1>6 DEF PassToHook
  <2>2. Top \in Frame /\ OnTheWire(Top) \in Contents BY <2>1, TopFacts, WireFacts
  <2> DEFINE f == [Top EXCEPT !.layer = "hook", !.content = OnTheWire(Top),
                              !.at = IF Top.msg \in Empty THEN "pass" ELSE "judge"]
  <2>3. f \in Frame /\ f.msg = Top.msg BY <2>2 DEF Frame
  <2>4. frames' = Append(Front(frames), f) BY <1>6 DEF PassToHook
  <2> QED BY <1>4, <2>1, <2>3, <2>4
<1>7. CASE Refuse \/ Throw BY <1>7, StopRefines DEF Refuse, Throw
<1> QED BY <1>2, <1>3, <1>5, <1>6, <1>7, NoCallRefines, AllowRefines, PassRefines DEF Next

\* The five send hooks, the two send functions of LocalClient and the facade over
\* them implement PacketFilter, however their calls nest.
THEOREM Implements == Spec => IsAFilter
<1> QED BY Invariance, InitRefines, NextRefines, PTL DEF Spec, IsAFilter, Filter!Spec
=============================================================================
