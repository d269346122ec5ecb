--------------------------- MODULE IncomingRpcProofs ---------------------------
(***************************************************************************)
(* The incoming RPCs, for any set of threads and of RPCs.  The invariant   *)
(* follows an RPC: before it arrives, in the hands of one thread, of which *)
(* the place says what the original got so far, and afterwards.            *)
(***************************************************************************)
EXTENDS IncomingRpc, TLAPS, SequenceTheorems

\* Nobody has said or done anything about r.
Untouched(r) == verdict[r] = "none" /\ calls[r] = <<>> /\ r \notin thrown

OneHandlesIt ==
    /\ \A t, u \in Threads : Busy(t) /\ Busy(u) /\ rpc[t] = rpc[u] => t = u
    /\ \A r \in pending : Untouched(r) /\ \A t \in Threads : Busy(t) => rpc[t] # r

InHand(t) ==
    LET r == rpc[t] IN
    /\ pc[t] \in {"cachePeer", "cachePlayer", "parse", "dispatch"} =>
           Untouched(r) /\ Form[r] # "empty"
    /\ pc[t] = "dispatch" => Form[r] = "fine"
    /\ pc[t] = "handler" =>
           /\ calls[r] = <<>> /\ r \notin thrown /\ verdict[r] # "refuse"
           /\ verdict[r] # "none" =>
                  /\ stream[t].edited = left[r].edited
                  /\ stream[t].bits = 8 * BytesOf(left[r].bits)
    /\ pc[t] = "plain" =>
           /\ verdict[r] # "refuse"
           /\ Untouched(r) \/ (Len(calls[r]) = 1 /\ r \in thrown)

\* A verdict, and so a replay, comes after the first player was stored.
PlayerIsKnown ==
    /\ \A r \in Rpcs : verdict[r] # "none" => playerId # NoPlayer
    /\ \A t \in Threads : pc[t] \in {"parse", "dispatch"} => playerId # NoPlayer

IInv == /\ TypeOK /\ OneHandlesIt /\ PlayerIsKnown
        /\ \A t \in Threads : InHand(t)
        /\ RefusedStaysOut /\ HandledOnceUnlessItThrew /\ EditsReachTheHandler
        /\ ReplayHasASender

-----------------------------------------------------------------------------
\* One more call of the original.
LEMMA AppendFacts ==
    ASSUME NEW S, NEW s \in Seq(S), NEW x \in S
    PROVE  /\ Append(s, x) \in Seq(S)
           /\ Append(s, x) # <<>>
           /\ Len(Append(s, x)) = Len(s) + 1
           /\ s = <<>> => Len(s) = 0 /\ Append(s, x)[1] = x
           /\ s # <<>> => Append(s, x)[1] = s[1]
<1>1. Len(s) \in Nat /\ (s # <<>> => Len(s) > 0) BY EmptySeq, LenProperties
<1>2. /\ Append(s, x) \in Seq(S)
      /\ Len(Append(s, x)) = Len(s) + 1
      /\ \A i \in 1..Len(s) : Append(s, x)[i] = s[i]
      /\ Append(s, x)[Len(s) + 1] = x
   BY AppendProperties
<1>3. Append(s, x) # <<>> BY <1>1, <1>2, EmptySeq
<1>4. s = <<>> => Len(s) = 0 /\ Append(s, x)[1] = x BY <1>2, EmptySeq
<1>5. s # <<>> => Append(s, x)[1] = s[1] BY <1>1, <1>2
<1> QED BY <1>2, <1>3, <1>4, <1>5

\* Whole bytes: what is announced, and what is left, rounded up.
LEMMA BytesFacts ==
    ASSUME NEW n \in Nat
    PROVE  BytesOf(n) \in Nat /\ 8 * BytesOf(n) \in Nat /\ (8 * BytesOf(n)) \div 8 = BytesOf(n)
<1>1. BytesOf(n) \in Nat BY DEF BytesOf
<1>2. \A m \in Nat : 8 * m \in Nat /\ (8 * m) \div 8 = m OBVIOUS
<1> QED BY <1>1, <1>2

\* An RPC is data of its own, and its sender is a player.
LEMMA SentFacts ==
    ASSUME NEW r \in Rpcs
    PROVE  Sent(r) \in Data /\ Sender[r] \in Players
BY RpcAssumption DEF Sent, Data, Players

-----------------------------------------------------------------------------
LEMMA InitIInv == Init => IInv
<1> SUFFICES ASSUME Init PROVE IInv OBVIOUS
<1> USE DEF Init
<1>1. (CHOOSE r \in Rpcs : TRUE) \in Rpcs BY RpcAssumption
<1>2. rpc \in [Threads -> Rpcs] BY <1>1
<1>3. \A r \in Rpcs : calls[r] = <<>> /\ Len(calls[r]) = 0 /\ verdict[r] = "none"
  BY EmptySeq
<1>4. TypeOK
  <2>1. stream \in [Threads -> Data] BY DEF Data
  <2>2. left \in [Rpcs -> Data] BY SentFacts
  <2>3. calls \in [Rpcs -> Seq(Data)] BY EmptySeq
  <2> QED BY <1>2, <2>1, <2>2, <2>3 DEF TypeOK, Players
<1>5. OneHandlesIt /\ (\A t \in Threads : InHand(t))
  BY <1>3 DEF OneHandlesIt, InHand, Busy, Untouched
<1>6. PlayerIsKnown /\ ReplayHasASender BY <1>3 DEF PlayerIsKnown, ReplayHasASender
<1>7. RefusedStaysOut /\ HandledOnceUnlessItThrew /\ EditsReachTheHandler
  BY <1>3 DEF RefusedStaysOut, HandledOnceUnlessItThrew, EditsReachTheHandler
<1> QED BY <1>4, <1>5, <1>6, <1>7 DEF IInv

-----------------------------------------------------------------------------
\* What a step of t, with its own RPC, leaves of another thread's.
LEMMA OthersInHand ==
    ASSUME IInv, NEW t \in Threads, NEW u \in Threads \ {t}, Busy(t),
           pc'[u] = pc[u], rpc'[u] = rpc[u], stream'[u] = stream[u],
           \A r \in Rpcs \ {rpc[t]} :
              /\ verdict'[r] = verdict[r] /\ left'[r] = left[r]
              /\ calls'[r] = calls[r] /\ (r \in thrown' <=> r \in thrown)
    PROVE  InHand(u)'
<1>1. CASE Busy(u)
  <2>1. rpc[u] \in Rpcs \ {rpc[t]} BY <1>1 DEF IInv, OneHandlesIt, TypeOK
  <2>2. InHand(u) BY DEF IInv
  <2> QED BY <2>1, <2>2 DEF InHand, Untouched
<1>2. CASE ~Busy(u) BY <1>2 DEF Busy, InHand
<1> QED BY <1>1, <1>2

\* A step of t that neither judges its RPC nor passes it on.
LEMMA QuietPreserves ==
    ASSUME IInv, TypeOK', NEW t \in Threads, NEW l, Busy(t),
           pc' = [pc EXCEPT ![t] = l], UNCHANGED <<pending, rpc, judgement, handler>>,
           \A u \in Threads \ {t} : stream'[u] = stream[u],
           UNCHANGED replays, InHand(t)',
           playerId # NoPlayer => playerId' # NoPlayer,
           l \in {"parse", "dispatch"} => playerId' # NoPlayer
    PROVE  IInv'
<1> USE DEF judgement, handler
<1>1. OneHandlesIt' BY DEF IInv, TypeOK, OneHandlesIt, Busy, Untouched
<1>2. PlayerIsKnown' BY DEF IInv, TypeOK, PlayerIsKnown
<1>3. \A u \in Threads \ {t} : InHand(u)'
  <2>1. \A u \in Threads \ {t} : pc'[u] = pc[u] BY DEF IInv, TypeOK
  <2> QED BY <2>1, OthersInHand
<1>4. (RefusedStaysOut /\ HandledOnceUnlessItThrew)'
  BY DEF IInv, RefusedStaysOut, HandledOnceUnlessItThrew
<1>5. (EditsReachTheHandler /\ ReplayHasASender)'
  BY DEF IInv, EditsReachTheHandler, ReplayHasASender
<1> QED BY <1>1, <1>2, <1>3, <1>4, <1>5 DEF IInv

\* Nothing changes for an RPC but where its thread is.
LEMMA MovePreserves ==
    ASSUME IInv, NEW t \in Threads, Busy(t),
           CachePeer(t) \/ CachePlayer(t) \/ PassUnreadable(t) \/ DropShort(t)
              \/ ParserThrows(t) \/ MakeStream(t) \/ Edit(t)
    PROVE  IInv'
<1> USE SentFacts DEF Goto, cache, thread, judgement, handler
<1>1. TypeOK BY DEF IInv
<1>2. InHand(t) BY DEF IInv
<1>3. CASE CachePeer(t)
  <2>1. TypeOK' BY <1>1, <1>3 DEF CachePeer, TypeOK
  <2>2. InHand(t)' BY <1>1, <1>2, <1>3 DEF CachePeer, InHand, Untouched, TypeOK
  <2> QED BY <1>3, <2>1, <2>2, QuietPreserves DEF CachePeer
<1>4. CASE CachePlayer(t)
  <2>1. TypeOK' BY <1>1, <1>4 DEF CachePlayer, TypeOK
  <2>2. InHand(t)' BY <1>1, <1>2, <1>4 DEF CachePlayer, InHand, Untouched, TypeOK
  <2>3. playerId' # NoPlayer
    BY <1>1, <1>2, <1>4, RpcAssumption DEF CachePlayer, InHand, TypeOK
  <2> QED BY <1>4, <2>1, <2>2, <2>3, QuietPreserves DEF CachePlayer
<1>5. CASE PassUnreadable(t)
  <2>1. TypeOK' BY <1>1, <1>5 DEF PassUnreadable, PassOn, TypeOK
  <2>2. InHand(t)' BY <1>1, <1>2, <1>5
                   DEF PassUnreadable, PassOn, InHand, Untouched, TypeOK
  <2>3. \A u \in Threads \ {t} : stream'[u] = stream[u]
    BY <1>1, <1>5 DEF PassUnreadable, PassOn, TypeOK
  <2> QED BY <1>5, <2>1, <2>2, <2>3, QuietPreserves DEF PassUnreadable, PassOn
<1>6. CASE DropShort(t)
  <2>1. TypeOK' BY <1>1, <1>6 DEF DropShort, TypeOK
  <2>2. InHand(t)' BY <1>1, <1>6 DEF DropShort, InHand, TypeOK
  <2> QED BY <1>6, <2>1, <2>2, QuietPreserves DEF DropShort
<1>7. CASE ParserThrows(t)
  <2>1. TypeOK' BY <1>1, <1>7 DEF ParserThrows, TypeOK
  <2>2. InHand(t)' BY <1>1, <1>2, <1>7 DEF ParserThrows, InHand, Untouched, TypeOK
  <2> QED BY <1>7, <2>1, <2>2, QuietPreserves DEF ParserThrows
<1>8. CASE MakeStream(t)
  <2> DEFINE d == [Sent(rpc[t]) EXCEPT !.bits = 8 * BytesOf(@)]
  <2>1. d \in Data
    <3>1. Bits[rpc[t]] \in Nat BY <1>1, RpcAssumption DEF TypeOK
    <3> QED BY <3>1, BytesFacts DEF Sent, Data
  <2>2. /\ pc[t] = "parse" /\ pc' = [pc EXCEPT ![t] = "dispatch"] /\ Form[rpc[t]] = "fine"
        /\ stream' = [stream EXCEPT ![t] = d]
        /\ UNCHANGED <<cache, pending, rpc, judgement, handler, replays>>
    BY <1>8 DEF MakeStream
  <2> HIDE DEF d
  <2>3. TypeOK' BY <1>1, <2>1, <2>2 DEF TypeOK
  <2>4. InHand(t)' BY <1>1, <1>2, <2>2 DEF InHand, Untouched, TypeOK
  <2>5. \A u \in Threads \ {t} : stream'[u] = stream[u] BY <1>1, <2>2 DEF TypeOK
  <2>6. playerId # NoPlayer BY <2>2 DEF IInv, PlayerIsKnown
  <2> QED BY <2>2, <2>3, <2>4, <2>5, <2>6, QuietPreserves
<1>9. CASE Edit(t)
  <2>1. PICK n \in Lengths :
           stream' = [stream EXCEPT ![t] = [bits |-> n, edited |-> TRUE]]
    BY <1>9 DEF Edit
  <2>2. [bits |-> n, edited |-> TRUE] \in Data BY RpcAssumption DEF Data
  <2>3. /\ pc[t] = "dispatch"
        /\ UNCHANGED <<cache, pending, pc, rpc, judgement, handler, replays>>
    BY <1>9 DEF Edit
  <2>4. TypeOK' BY <1>1, <2>1, <2>2, <2>3 DEF TypeOK
  <2>5. InHand(t)' BY <1>1, <1>2, <2>3 DEF InHand, Untouched, TypeOK
  <2>6. \A u \in Threads \ {t} : stream'[u] = stream[u] BY <1>1, <2>1 DEF TypeOK
  <2>7. pc' = [pc EXCEPT ![t] = "dispatch"] BY <1>1, <2>3 DEF TypeOK
  <2>8. playerId # NoPlayer BY <2>3 DEF IInv, PlayerIsKnown
  <2> QED BY <2>3, <2>4, <2>5, <2>6, <2>7, <2>8, QuietPreserves
<1> QED BY <1>3, <1>4, <1>5, <1>6, <1>7, <1>8, <1>9

\* An RPC arrives at a thread that has none.
LEMMA EnterPreserves ==
    ASSUME IInv, NEW t \in Threads, NEW r \in Rpcs, Enter(t, r)
    PROVE  IInv'
<1> DEFINE l == IF Form[r] = "empty" THEN "plain" ELSE "cachePeer"
<1>1. /\ pc[t] = "idle" /\ r \in pending /\ pending' = pending \ {r}
      /\ rpc' = [rpc EXCEPT ![t] = r] /\ pc' = [pc EXCEPT ![t] = l]
      /\ UNCHANGED <<rakPeerSet, playerId, stream, verdict, left, calls, thrown, replays>>
  BY DEF Enter, Goto, cache, judgement, handler
<1>2. l \in {"plain", "cachePeer"} /\ (l = "plain" <=> Form[r] = "empty") OBVIOUS
<1> HIDE DEF l
<1>3. Untouched(r) /\ \A u \in Threads : Busy(u) => rpc[u] # r
  BY <1>1 DEF IInv, OneHandlesIt
<1>4. TypeOK' BY <1>1, <1>2 DEF IInv, TypeOK
<1>5. OneHandlesIt'
  BY <1>1, <1>3 DEF IInv, TypeOK, OneHandlesIt, Busy, Untouched
<1>6. PlayerIsKnown' BY <1>1, <1>2 DEF IInv, TypeOK, PlayerIsKnown
<1>7. \A u \in Threads : InHand(u)'
  <2>1. InHand(t)' BY <1>1, <1>2, <1>3 DEF IInv, TypeOK, InHand, Untouched
  <2>2. ASSUME NEW u \in Threads \ {t} PROVE InHand(u)'
    <3>1. InHand(u) /\ pc'[u] = pc[u] /\ rpc'[u] = rpc[u] BY <1>1 DEF IInv, TypeOK
    <3> QED BY <1>1, <3>1 DEF InHand, Untouched
  <2> QED BY <2>1, <2>2
<1>8. (RefusedStaysOut /\ HandledOnceUnlessItThrew)'
  BY <1>1 DEF IInv, RefusedStaysOut, HandledOnceUnlessItThrew
<1>9. (EditsReachTheHandler /\ ReplayHasASender)'
  BY <1>1 DEF IInv, EditsReachTheHandler, ReplayHasASender
<1> QED BY <1>4, <1>5, <1>6, <1>7, <1>8, <1>9 DEF IInv

\* The callbacks agree, throw or refuse.
LEMMA JudgePreserves ==
    ASSUME IInv, NEW t \in Threads, Allow(t) \/ Refuse(t)
    PROVE  IInv'
<1> DEFINE r == rpc[t]
<1>1. TypeOK /\ InHand(t) /\ r \in Rpcs /\ stream[t] \in Data BY DEF IInv, TypeOK
<1>2. pc[t] = "dispatch" /\ UNCHANGED <<rakPeerSet, playerId, pending, rpc, calls,
                                        thrown, replays>>
  BY DEF Allow, Refuse, cache, handler
<1>3. PICK v \in {"allow", "refuse", "throw"} :
         /\ verdict' = [verdict EXCEPT ![r] = v]
         /\ left' = [left EXCEPT ![r] = stream[t]]
         /\ \/ /\ v # "refuse" /\ pc' = [pc EXCEPT ![t] = "handler"]
               /\ stream' = [stream EXCEPT ![t] = Encoded(t)]
            \/ v = "refuse" /\ pc' = [pc EXCEPT ![t] = "idle"] /\ stream' = stream
  <2>1. CASE Allow(t) BY <2>1 DEF Allow, Judge, PassOn, Goto
  <2>2. CASE Refuse(t) BY <2>2 DEF Refuse, Judge, Goto
  <2> QED BY <2>1, <2>2
<1>4. Untouched(r) BY <1>1, <1>2 DEF InHand
<1>5. /\ Encoded(t) \in Data
      /\ Encoded(t).edited = stream[t].edited
      /\ Encoded(t).bits = 8 * BytesOf(stream[t].bits)
  BY <1>1, BytesFacts DEF Encoded, Data
<1>6. TypeOK'
  <2>1. verdict' \in [Rpcs -> {"none", "allow", "refuse", "throw"}] BY <1>1, <1>3 DEF TypeOK
  <2>2. left' \in [Rpcs -> Data] BY <1>1, <1>3 DEF TypeOK
  <2>3. stream' \in [Threads -> Data] BY <1>1, <1>3, <1>5 DEF TypeOK
  <2> QED BY <1>1, <1>2, <1>3, <2>1, <2>2, <2>3 DEF TypeOK
<1>7. OneHandlesIt'
  <2>1. r \notin pending BY <1>2 DEF IInv, OneHandlesIt, Busy
  <2>2. \A u \in Threads : Busy(u)' => Busy(u) BY <1>1, <1>2, <1>3 DEF Busy, TypeOK
  <2> QED BY <1>1, <1>2, <1>3, <2>1, <2>2 DEF IInv, OneHandlesIt, Untouched, TypeOK
<1>8. PlayerIsKnown'
  <2>1. playerId # NoPlayer BY <1>2 DEF IInv, PlayerIsKnown
  <2> QED BY <1>2, <2>1 DEF PlayerIsKnown
<1>9. \A u \in Threads : InHand(u)'
  <2>1. InHand(t)' BY <1>1, <1>2, <1>3, <1>4, <1>5 DEF InHand, Untouched, TypeOK
  <2>2. \A u \in Threads \ {t} : pc'[u] = pc[u] /\ stream'[u] = stream[u]
    BY <1>1, <1>3 DEF TypeOK
  <2>3. \A q \in Rpcs \ {r} : verdict'[q] = verdict[q] /\ left'[q] = left[q]
    BY <1>1, <1>3 DEF TypeOK
  <2>4. Busy(t) BY <1>2 DEF Busy
  <2>5. \A u \in Threads \ {t} : InHand(u)' BY <1>2, <2>2, <2>3, <2>4, OthersInHand
  <2> QED BY <2>1, <2>5
<1>10. (RefusedStaysOut /\ HandledOnceUnlessItThrew /\ ReplayHasASender)'
  BY <1>1, <1>2, <1>3, <1>4
     DEF IInv, TypeOK, Untouched, RefusedStaysOut, HandledOnceUnlessItThrew,
         ReplayHasASender
<1>11. EditsReachTheHandler'
  BY <1>1, <1>2, <1>3, <1>4 DEF IInv, TypeOK, Untouched, EditsReachTheHandler
<1> QED BY <1>6, <1>7, <1>8, <1>9, <1>10, <1>11 DEF IInv

\* The original gets the RPC: inside the try, and returns or throws, or after it.
LEMMA CallPreserves ==
    ASSUME IInv, NEW t \in Threads, Handle(t) \/ HandlerThrows(t) \/ HandlePlain(t)
    PROVE  IInv'
<1> DEFINE r == rpc[t]
           d == IF pc[t] = "handler" THEN stream[t] ELSE Sent(r)
           n == Len(calls[r])
<1>1. TypeOK /\ InHand(t) /\ r \in Rpcs /\ d \in Data /\ calls[r] \in Seq(Data)
  BY SentFacts DEF IInv, TypeOK
<1>2. /\ pc[t] \in {"handler", "plain"} /\ calls' = [calls EXCEPT ![r] = Append(@, d)]
      /\ UNCHANGED <<rakPeerSet, playerId, pending, rpc, stream, verdict, left, replays>>
      /\ \/ pc' = [pc EXCEPT ![t] = "idle"] /\ thrown' = thrown
         \/ /\ pc[t] = "handler" /\ pc' = [pc EXCEPT ![t] = "plain"]
            /\ thrown' = thrown \cup {r}
  <2>1. CASE Handle(t) BY <2>1 DEF Handle, Calls, Goto, cache, judgement
  <2>2. CASE HandlerThrows(t) BY <2>2 DEF HandlerThrows, Calls, Goto, cache, judgement
  <2>3. CASE HandlePlain(t) BY <2>3 DEF HandlePlain, Calls, Goto, cache, judgement
  <2> QED BY <2>1, <2>2, <2>3
<1>3. /\ calls'[r] \in Seq(Data) /\ calls'[r] # <<>>
      /\ Len(calls'[r]) = n + 1
      /\ calls[r] = <<>> => n = 0 /\ calls'[r][1] = d
      /\ calls[r] # <<>> => calls'[r][1] = calls[r][1]
      /\ \A q \in Rpcs \ {r} : calls'[q] = calls[q]
  BY <1>1, <1>2, AppendFacts DEF TypeOK
<1>4. /\ verdict[r] # "refuse"
      /\ n = 0 \/ (n = 1 /\ r \in thrown /\ pc[t] = "plain")
      /\ verdict[r] # "none" /\ calls[r] = <<>> =>
             /\ d.edited = left[r].edited
             /\ d.bits = 8 * BytesOf(left[r].bits)
  BY <1>1, <1>2, <1>3 DEF InHand, Untouched
<1> HIDE DEF d, n
<1>5. TypeOK' BY <1>1, <1>2, <1>3 DEF TypeOK
<1>6. OneHandlesIt'
  <2>1. r \notin pending BY <1>2 DEF IInv, OneHandlesIt, Busy
  <2>2. \A u \in Threads : Busy(u)' => Busy(u) BY <1>1, <1>2 DEF Busy, TypeOK
  <2> QED BY <1>1, <1>2, <1>3, <2>1, <2>2 DEF IInv, OneHandlesIt, Untouched, TypeOK
<1>7. PlayerIsKnown' BY <1>1, <1>2 DEF IInv, PlayerIsKnown, TypeOK
<1>8. \A u \in Threads : InHand(u)'
  <2>1. InHand(t)' BY <1>1, <1>2, <1>3, <1>4 DEF InHand, Untouched, TypeOK
  <2>2. \A u \in Threads \ {t} : pc'[u] = pc[u] BY <1>1, <1>2 DEF TypeOK
  <2>3. \A q \in Rpcs \ {r} : calls'[q] = calls[q] /\ (q \in thrown' <=> q \in thrown)
    BY <1>2, <1>3
  <2>4. Busy(t) BY <1>2 DEF Busy
  <2>5. \A u \in Threads \ {t} : InHand(u)' BY <1>2, <2>2, <2>3, <2>4, OthersInHand
  <2> QED BY <2>1, <2>5
<1>9. (RefusedStaysOut /\ ReplayHasASender)'
  BY <1>1, <1>2, <1>3, <1>4 DEF IInv, RefusedStaysOut, ReplayHasASender
<1>10. HandledOnceUnlessItThrew'
  BY <1>1, <1>2, <1>3, <1>4 DEF IInv, HandledOnceUnlessItThrew
<1>11. EditsReachTheHandler'
  <2>1. left[r].bits \in Nat BY <1>1 DEF TypeOK, Data
  <2>2. (8 * BytesOf(left[r].bits)) \div 8 = BytesOf(left[r].bits) BY <2>1, BytesFacts
  <2> QED BY <1>1, <1>2, <1>3, <1>4, <2>2 DEF IInv, EditsReachTheHandler
<1> QED BY <1>5, <1>6, <1>7, <1>8, <1>9, <1>10, <1>11 DEF IInv

\* A refused RPC is replayed: only the history of replays changes.
LEMMA ReplayPreserves ==
    ASSUME IInv, NEW r \in Rpcs, Replay(r)
    PROVE  IInv'
<1> USE DEF cache, thread, judgement, handler
<1>1. /\ UNCHANGED <<rakPeerSet, playerId, pending, pc, rpc, stream, verdict, left,
                     calls, thrown>>
      /\ replays' = replays \cup {[rpc |-> r, player |-> playerId]}
      /\ verdict[r] = "refuse"
  BY DEF Replay
<1>2. playerId # NoPlayer BY <1>1 DEF IInv, PlayerIsKnown
<1>3. TypeOK' BY <1>1 DEF IInv, TypeOK
<1>4. ReplayHasASender' BY <1>1, <1>2 DEF IInv, ReplayHasASender
<1>5. (OneHandlesIt /\ PlayerIsKnown)' BY <1>1
      DEF IInv, OneHandlesIt, PlayerIsKnown, Busy, Untouched
<1>6. \A u \in Threads : InHand(u)' BY <1>1 DEF IInv, InHand, Untouched
<1>7. (RefusedStaysOut /\ HandledOnceUnlessItThrew /\ EditsReachTheHandler)'
  BY <1>1 DEF IInv, RefusedStaysOut, HandledOnceUnlessItThrew, EditsReachTheHandler
<1> QED BY <1>3, <1>4, <1>5, <1>6, <1>7 DEF IInv

LEMMA NextIInv == IInv /\ [Next]_vars => IInv'
<1> SUFFICES ASSUME IInv, [Next]_vars PROVE IInv' OBVIOUS
<1>1. ASSUME NEW t \in Threads, NEW r \in Rpcs, Enter(t, r) PROVE IInv'
  BY <1>1, EnterPreserves
<1>2. ASSUME NEW t \in Threads,
             CachePeer(t) \/ CachePlayer(t) \/ PassUnreadable(t) \/ DropShort(t)
                \/ ParserThrows(t) \/ MakeStream(t) \/ Edit(t)
      PROVE IInv'
  <2>1. Busy(t)
    BY <1>2 DEF Busy, CachePeer, CachePlayer, PassUnreadable, DropShort, ParserThrows,
                MakeStream, Edit
  <2> QED BY <1>2, <2>1, MovePreserves
<1>3. ASSUME NEW t \in Threads, Allow(t) \/ Refuse(t) PROVE IInv'
  BY <1>3, JudgePreserves
<1>4. ASSUME NEW t \in Threads, Handle(t) \/ HandlerThrows(t) \/ HandlePlain(t)
      PROVE IInv'
  BY <1>4, CallPreserves
<1>5. ASSUME NEW r \in Rpcs, Replay(r) PROVE IInv' BY <1>5, ReplayPreserves
<1>6. CASE UNCHANGED vars
  <2>1. UNCHANGED <<rakPeerSet, playerId, pending, pc, rpc, stream, verdict, left,
                    calls, thrown, replays>>
    BY <1>6 DEF vars, cache, thread, judgement, handler
  <2> QED BY <2>1 DEF IInv, TypeOK, OneHandlesIt, PlayerIsKnown, InHand, Busy, Untouched,
                      RefusedStaysOut, HandledOnceUnlessItThrew, EditsReachTheHandler,
                      ReplayHasASender
<1>7. CASE Done BY <1>6, <1>7 DEF Done
<1> QED BY <1>1, <1>2, <1>3, <1>4, <1>5, <1>6, <1>7 DEF Next

\* The invariant of hkHandleRpcPacket: one thread handles an RPC, and where that
\* is says what the callbacks and the original did with it.
THEOREM Invariance == Spec => []IInv
<1> QED BY InitIInv, NextIInv, PTL DEF Spec

\* README.md:470: what a callback refuses never gets to the original handler, by
\* neither of the calls of it, with any number of threads.
THEOREM RefusedIsNotHandled == Spec => []RefusedStaysOut
<1>1. IInv => RefusedStaysOut BY DEF IInv
<1> QED BY Invariance, <1>1, PTL

\* The original handler gets an RPC once, and twice only when it threw itself:
\* the catch handlers of hkHandleRpcPacket call it again.
THEOREM AtMostOneRetry == Spec => []HandledOnceUnlessItThrew
<1>1. IInv => HandledOnceUnlessItThrew BY DEF IInv
<1> QED BY Invariance, <1>1, PTL

\* The bytes that callbacks left in callback_bs, whatever their number, are what
\* the original handler gets first.
THEOREM HandlerGetsTheEdits == Spec => []EditsReachTheHandler
<1>1. IInv => EditsReachTheHandler BY DEF IInv
<1> QED BY Invariance, <1>1, PTL

\* te-sdk.cpp:321: ReplayIncomingRPC never stands for the initial g_playerId.
THEOREM ReplaysAreForAPlayer == Spec => []ReplayHasASender
<1>1. IInv => ReplayHasASender BY DEF IInv
<1> QED BY Invariance, <1>1, PTL

-----------------------------------------------------------------------------
\* The refinement: what PacketFilter sees of a state.
Out == [r \in Rpcs |-> Outcome(r)]
Said == [r \in Rpcs |-> Consent(verdict[r])]

\* A thread's own RPC has arrived, and is pending until the original gets it.
LEMMA InHandIsPending ==
    ASSUME IInv, NEW t \in Threads, Busy(t)
    PROVE  /\ rpc[t] \in Rpcs /\ rpc[t] \notin pending
           /\ Out[rpc[t]] = IF calls[rpc[t]] # <<>> THEN "delivered" ELSE "pending"
<1>1. rpc[t] \in Rpcs /\ rpc[t] \notin pending BY DEF IInv, TypeOK, OneHandlesIt
<1> QED BY <1>1 DEF Out, Outcome

\* What a step of t leaves as it was: the outcome of all RPCs but its own.
LEMMA OthersStay ==
    ASSUME IInv, NEW t \in Threads, NEW r \in Rpcs,
           Busy(t) => rpc[t] = r, Busy(t)' => rpc'[t] = r,
           \A u \in Threads \ {t} : pc'[u] = pc[u] /\ rpc'[u] = rpc[u],
           \A q \in Rpcs \ {r} : calls'[q] = calls[q] /\ (q \in pending' <=> q \in pending)
    PROVE  Out' = [Out EXCEPT ![r] = Outcome(r)']
<1>1. ASSUME NEW q \in Rpcs \ {r} PROVE Outcome(q)' = Outcome(q)
  <2>1. \A u \in Threads : (Busy(u) /\ rpc[u] = q)' <=> (Busy(u) /\ rpc[u] = q)
    BY DEF Busy
  <2> QED BY <2>1 DEF Outcome
<1> QED BY <1>1 DEF Out

\* A step within the hook that moves no RPC.
LEMMA QuietRefines ==
    ASSUME IInv, NEW t \in Threads, Busy(t), Busy(t)',
           \A u \in Threads \ {t} : pc'[u] = pc[u],
           UNCHANGED <<rpc, pending, calls>>
    PROVE  Out' = Out
<1>1. \A u \in Threads : Busy(u)' <=> Busy(u) BY DEF Busy
<1> QED BY <1>1 DEF Out, Outcome

LEMMA InitRefines == Init => Filter!Init
<1> SUFFICES ASSUME Init PROVE Filter!Init OBVIOUS
<1>1. \A r \in Rpcs : Outcome(r) = "absent" /\ Consent(verdict[r]) = "none"
  BY DEF Init, Outcome, Consent
<1> QED BY <1>1 DEF Filter!Init

LEMMA EnterRefines ==
    ASSUME IInv, NEW t \in Threads, NEW r \in Rpcs, Enter(t, r)
    PROVE  Filter!Arrive(r)
<1>1. /\ pc[t] = "idle" /\ r \in pending /\ pending' = pending \ {r}
      /\ rpc' = [rpc EXCEPT ![t] = r] /\ UNCHANGED <<verdict, calls>>
      /\ pc' = [pc EXCEPT ![t] = IF Form[r] = "empty" THEN "plain" ELSE "cachePeer"]
  BY DEF Enter, Goto, judgement, handler
<1>2. /\ pc'[t] # "idle" /\ rpc'[t] = r /\ calls[r] = <<>>
      /\ \A u \in Threads \ {t} : pc'[u] = pc[u] /\ rpc'[u] = rpc[u]
  BY <1>1 DEF IInv, TypeOK, OneHandlesIt, Untouched
<1>3. Out[r] = "absent" /\ Outcome(r)' = "pending" BY <1>1, <1>2 DEF Out, Outcome, Busy
<1>4. Out' = [Out EXCEPT ![r] = "pending"] BY <1>1, <1>2, <1>3, OthersStay DEF Busy
<1> QED BY <1>1, <1>3, <1>4 DEF Filter!Arrive, Out

\* The callbacks' word, and the end of an RPC that they refuse.
LEMMA JudgeRefines ==
    ASSUME IInv, NEW t \in Threads, Allow(t) \/ Refuse(t)
    PROVE  \E v \in {"allow", "refuse"} : Filter!Judge(rpc[t], v)
<1> DEFINE r == rpc[t]
<1>1. pc[t] = "dispatch" /\ UNCHANGED <<pending, rpc, calls>>
  BY DEF Allow, Refuse, handler
<1>2. /\ r \in Rpcs /\ r \notin pending /\ Out[r] = "pending"
      /\ verdict[r] = "none" /\ calls[r] = <<>> /\ Form[r] = "fine"
  <2>1. Busy(t) BY <1>1 DEF Busy
  <2>2. InHand(t) BY DEF IInv
  <2> QED BY <1>1, <2>1, <2>2, InHandIsPending DEF InHand, Untouched
<1>3. PICK w \in {"allow", "refuse", "throw"} :
         /\ verdict' = [verdict EXCEPT ![r] = w]
         /\ pc' = [pc EXCEPT ![t] = IF w = "refuse" THEN "idle" ELSE "handler"]
  BY DEF Allow, Refuse, Judge, PassOn, Goto
<1> DEFINE v == Consent(w)
<1>4. v \in {"allow", "refuse"} /\ (v = "refuse" <=> w = "refuse") BY DEF Consent
<1>5. Said' = [Said EXCEPT ![r] = v] BY <1>2, <1>3 DEF Said, IInv, TypeOK
<1>6. Outcome(r)' = IF w = "refuse" THEN "dropped" ELSE "pending"
  <2>1. \A u \in Threads \ {t} : Busy(u) => rpc[u] # r BY <1>1 DEF IInv, OneHandlesIt, Busy
  <2>2. \A u \in Threads \ {t} : pc'[u] = pc[u] BY <1>3 DEF IInv, TypeOK
  <2>3. pc'[t] = IF w = "refuse" THEN "idle" ELSE "handler" BY <1>3 DEF IInv, TypeOK
  <2> QED BY <1>1, <1>2, <2>1, <2>2, <2>3 DEF Outcome, Busy
<1>7. Out' = [Out EXCEPT ![r] = Outcome(r)']
  <2>1. \A u \in Threads \ {t} : pc'[u] = pc[u] BY <1>3 DEF IInv, TypeOK
  <2> QED BY <1>1, <1>2, <2>1, OthersStay
<1>8. Out' \in {Out, [Out EXCEPT ![r] = Filter!Fate(v)]}
  <2>1. CASE w = "refuse" BY <1>4, <1>6, <1>7, <2>1 DEF Filter!Fate
  <2>2. CASE w # "refuse"
    <3>1. Out' = [Out EXCEPT ![r] = Out[r]] BY <1>2, <1>6, <1>7, <2>2
    <3> QED BY <3>1 DEF Out
  <2> QED BY <2>1, <2>2
<1>9. Filter!Judge(r, v)
  <2>1. Said[r] = "none" BY <1>2 DEF Said, Consent
  <2> HIDE DEF v
  <2> QED BY <1>2, <1>5, <1>8, <2>1 DEF Filter!Judge, Filter!Resolved, Out, Said
<1> QED BY <1>4, <1>9

\* A short RPC is dropped unjudged.
LEMMA DropRefines ==
    ASSUME IInv, NEW t \in Threads, DropShort(t)
    PROVE  Filter!Resolve(rpc[t])
<1> DEFINE r == rpc[t]
<1>1. /\ pc[t] = "parse" /\ Form[r] = "short" /\ pc' = [pc EXCEPT ![t] = "idle"]
      /\ UNCHANGED <<pending, rpc, calls, verdict>>
  BY DEF DropShort, Goto, judgement, handler
<1>2. Busy(t) /\ InHand(t) BY <1>1 DEF IInv, Busy
<1>3. /\ r \in Rpcs /\ r \notin pending /\ Out[r] = "pending"
      /\ verdict[r] = "none" /\ calls[r] = <<>>
  BY <1>1, <1>2, InHandIsPending DEF InHand, Untouched
<1>4. pc'[t] = "idle" /\ \A u \in Threads \ {t} : pc'[u] = pc[u]
  BY <1>1 DEF IInv, TypeOK
<1>5. Outcome(r)' = "dropped"
  <2>1. \A u \in Threads \ {t} : Busy(u) => rpc[u] # r BY <1>2 DEF IInv, OneHandlesIt
  <2> QED BY <1>1, <1>3, <1>4, <2>1 DEF Outcome, Busy
<1>6. Out' = [Out EXCEPT ![r] = "dropped"] BY <1>1, <1>3, <1>4, <1>5, OthersStay
<1>7. "refuse" \in Filter!Words(r) BY <1>1, <1>3 DEF Filter!Words, Consent
<1> QED BY <1>1, <1>3, <1>6, <1>7
        DEF Filter!Resolve, Filter!Resolved, Filter!Fate, Out

\* The original gets the RPC, for the first time or once more.
LEMMA CallRefines ==
    ASSUME IInv, NEW t \in Threads, Handle(t) \/ HandlerThrows(t) \/ HandlePlain(t)
    PROVE  Filter!Resolve(rpc[t]) \/ UNCHANGED Filter!vars
<1> DEFINE r == rpc[t]
<1>1. PICK d \in Data :
         /\ pc[t] \in {"handler", "plain"} /\ calls' = [calls EXCEPT ![r] = Append(@, d)]
         /\ \E l \in {"idle", "plain"} : pc' = [pc EXCEPT ![t] = l]
         /\ UNCHANGED <<pending, rpc, verdict>>
  <2>1. stream[t] \in Data /\ Sent(r) \in Data BY SentFacts DEF IInv, TypeOK
  <2> QED BY <2>1 DEF Handle, HandlerThrows, HandlePlain, Calls, Goto, judgement
<1>2. Busy(t) /\ InHand(t) BY <1>1 DEF IInv, Busy
<1>3. /\ r \in Rpcs /\ r \notin pending
      /\ Out[r] = IF calls[r] # <<>> THEN "delivered" ELSE "pending"
  BY <1>2, InHandIsPending
<1>4. calls'[r] # <<>> /\ \A q \in Rpcs \ {r} : calls'[q] = calls[q]
  <2>1. calls \in [Rpcs -> Seq(Data)] BY DEF IInv, TypeOK
  <2>2. Append(calls[r], d) # <<>> BY <1>3, <2>1, AppendFacts
  <2> QED BY <1>1, <1>3, <2>1, <2>2
<1>5. Outcome(r)' = "delivered" BY <1>1, <1>4 DEF Outcome
<1>6. Out' = [Out EXCEPT ![r] = "delivered"]
  <2>1. \A u \in Threads \ {t} : pc'[u] = pc[u] BY <1>1 DEF IInv, TypeOK
  <2> QED BY <1>1, <1>3, <1>4, <1>5, <2>1, OthersStay
<1>7. CASE calls[r] # <<>>
  <2>1. Out' = Out BY <1>3, <1>6, <1>7 DEF Out
  <2> QED BY <1>1, <2>1 DEF Filter!vars, Out
<1>8. CASE calls[r] = <<>>
  <2>1. verdict[r] \in {"none", "allow", "throw"}
    BY <1>1, <1>2, <1>3 DEF InHand, Untouched, IInv, TypeOK
  <2>2. "allow" \in Filter!Words(r) BY <1>3, <2>1 DEF Filter!Words, Consent
  <2> QED BY <1>1, <1>3, <1>6, <1>8, <2>2
          DEF Filter!Resolve, Filter!Resolved, Filter!Fate, Out
<1> QED BY <1>7, <1>8

LEMMA NextRefines == IInv /\ [Next]_vars => [Filter!Next]_(Filter!vars)
<1> SUFFICES ASSUME IInv, [Next]_vars PROVE [Filter!Next]_(Filter!vars) OBVIOUS
<1>1. ASSUME NEW t \in Threads, NEW r \in Rpcs, Enter(t, r) PROVE Filter!Next
  BY <1>1, EnterRefines DEF Filter!Next
<1>2. ASSUME NEW t \in Threads,
             CachePeer(t) \/ CachePlayer(t) \/ PassUnreadable(t) \/ MakeStream(t)
                \/ ParserThrows(t) \/ Edit(t)
      PROVE  UNCHANGED Filter!vars
  <2>1. /\ Busy(t) /\ UNCHANGED <<rpc, pending, calls, verdict>>
        /\ \/ pc' = pc
           \/ \E l \in {"cachePlayer", "parse", "handler", "dispatch", "plain"} :
                 pc' = [pc EXCEPT ![t] = l]
    BY <1>2 DEF Busy, CachePeer, CachePlayer, PassUnreadable, MakeStream, ParserThrows, Edit,
                Goto, PassOn, judgement, handler
  <2>2. Busy(t)' /\ \A u \in Threads \ {t} : pc'[u] = pc[u]
    BY <2>1 DEF Busy, IInv, TypeOK
  <2>3. Out' = Out BY <2>1, <2>2, QuietRefines
  <2> QED BY <2>1, <2>3 DEF Filter!vars, Out
<1>3. ASSUME NEW t \in Threads, Allow(t) \/ Refuse(t) PROVE Filter!Next
  <2>1. rpc[t] \in Rpcs BY DEF IInv, TypeOK
  <2> QED BY <1>3, <2>1, JudgeRefines DEF Filter!Next
<1>4. ASSUME NEW t \in Threads, DropShort(t) PROVE Filter!Next
  <2>1. rpc[t] \in Rpcs BY DEF IInv, TypeOK
  <2> QED BY <1>4, <2>1, DropRefines DEF Filter!Next
<1>5. ASSUME NEW t \in Threads, Handle(t) \/ HandlerThrows(t) \/ HandlePlain(t)
      PROVE  [Filter!Next]_(Filter!vars)
  <2>1. rpc[t] \in Rpcs BY DEF IInv, TypeOK
  <2> QED BY <1>5, <2>1, CallRefines DEF Filter!Next
<1>6. ASSUME UNCHANGED <<pending, pc, rpc, verdict, calls>> PROVE UNCHANGED Filter!vars
  BY <1>6 DEF Filter!vars, Outcome, Busy
<1>7. CASE UNCHANGED vars BY <1>6, <1>7 DEF vars, thread, judgement, handler
<1>8. ASSUME NEW r \in Rpcs, Replay(r) PROVE UNCHANGED Filter!vars
  BY <1>6, <1>8 DEF Replay, thread, judgement, handler
<1>9. CASE Done BY <1>7, <1>9 DEF Done
<1> QED BY <1>1, <1>2, <1>3, <1>4, <1>5, <1>7, <1>8, <1>9 DEF Next

\* hkHandleRpcPacket implements PacketFilter: each RPC that can be read is judged
\* once and ends as that says, whatever is thrown, on any number of threads.
THEOREM Implements == Spec => IsAFilter
<1> QED BY Invariance, InitRefines, NextRefines, PTL DEF Spec, IsAFilter, Filter!Spec
=============================================================================
