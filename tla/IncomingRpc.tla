----------------------------- MODULE IncomingRpc -----------------------------
(***************************************************************************)
(* hkHandleRpcPacket and ReplayIncomingRPC of te-sdk.cpp: each incoming    *)
(* RPC is parsed, shown to the callbacks as a stream of its data, encoded  *)
(* again and given to the original handler of SA-MP, all inside a try      *)
(* whose handlers call the original handler once more.                     *)
(*                                                                         *)
(* The original handler is external: it runs game code and may throw (a    *)
(* send from there goes through the outgoing hooks and their callbacks).   *)
(* The dispatch (module HookForwarder) is one verdict here.  Of an RPC's   *)
(* data the model keeps its length in bits and whether it was edited.      *)
(***************************************************************************)
EXTENDS Integers, Sequences

CONSTANTS
    Threads,        \* threads the game handles RPCs on
    Rpcs,
    Form,           \* "empty": null or no data; "noHeader": no id or length;
                    \* "short": fewer bits than announced; "fine"
    Bits,           \* the bits of data each RPC announces
    Sender,         \* the PlayerID it comes with
    NoPlayer,       \* the initial g_playerId, and that of an empty RPC
    Lengths         \* bits a callback may leave in the stream

ASSUME RpcAssumption ==
    /\ Rpcs # {}
    /\ Form \in [Rpcs -> {"empty", "noHeader", "short", "fine"}]
    /\ Bits \in [Rpcs -> Nat]
    /\ \A r \in Rpcs : Sender[r] = NoPlayer <=> Form[r] = "empty"
    /\ Lengths \subseteq Nat

VARIABLES
    rakPeerSet, playerId,   \* g_rakPeer is not null; g_playerId
    pending,                \* RPCs that have not arrived yet
    pc, rpc, stream,        \* per thread: callback_bs, then what is passed on
    verdict, left,          \* history: the callbacks' word, and the data then
    calls, thrown,          \* history: what the original got; that it threw
    replays                 \* history: the RPCs replayed, on behalf of whom

cache == <<rakPeerSet, playerId>>
thread == <<pc, rpc, stream>>
judgement == <<verdict, left>>
handler == <<calls, thrown>>
vars == <<cache, pending, thread, judgement, handler, replays>>

Data == [bits : Nat, edited : BOOLEAN]
Players == {Sender[r] : r \in Rpcs} \cup {NoPlayer}

TypeOK ==
    /\ rakPeerSet \in BOOLEAN /\ playerId \in Players
    /\ pending \subseteq Rpcs
    /\ pc \in [Threads -> {"idle", "cachePeer", "cachePlayer", "parse",
                           "dispatch", "handler", "plain"}]
    /\ rpc \in [Threads -> Rpcs]
    /\ stream \in [Threads -> Data]
    /\ verdict \in [Rpcs -> {"none", "allow", "refuse", "throw"}]
    /\ left \in [Rpcs -> Data]
    /\ calls \in [Rpcs -> Seq(Data)]
    /\ thrown \subseteq Rpcs
    /\ replays \subseteq [rpc : Rpcs, player : Players]

BytesOf(bits) == (bits + 7) \div 8
Sent(r) == [bits |-> Bits[r], edited |-> FALSE]

Init ==
    /\ rakPeerSet = FALSE /\ playerId = NoPlayer
    /\ pending = Rpcs
    /\ pc = [t \in Threads |-> "idle"]
    /\ rpc \in [Threads -> {CHOOSE r \in Rpcs : TRUE}]
    /\ stream = [t \in Threads |-> [bits |-> 0, edited |-> FALSE]]
    /\ verdict = [r \in Rpcs |-> "none"]
    /\ left = [r \in Rpcs |-> Sent(r)]
    /\ calls = [r \in Rpcs |-> <<>>] /\ thrown = {}
    /\ replays = {}

Goto(t, label) == pc' = [pc EXCEPT ![t] = label]
PassOn(t, data) == Goto(t, "handler") /\ stream' = [stream EXCEPT ![t] = data]

-----------------------------------------------------------------------------
\* Mutant: the parameters are cached before they are validated.
CacheUnvalidated(t, r) ==
    /\ pc[t] = "idle"
    /\ r \in pending
    /\ pending' = pending \ {r}
    /\ rpc' = [rpc EXCEPT ![t] = r]
    /\ Goto(t, "cachePeer")
    /\ UNCHANGED <<cache, stream, judgement, handler, replays>>

\* An RPC arrives.  Without data it is the original handler's business, and
\* nothing catches what that throws.
Enter(t, r) ==
    /\ pc[t] = "idle"
    /\ r \in pending
    /\ pending' = pending \ {r}
    /\ rpc' = [rpc EXCEPT ![t] = r]
    /\ Goto(t, IF Form[r] = "empty" THEN "plain" ELSE "cachePeer")
    /\ UNCHANGED <<cache, stream, judgement, handler, replays>>

CachePeer(t) ==
    /\ pc[t] = "cachePeer"
    /\ rakPeerSet' = TRUE
    /\ Goto(t, "cachePlayer")
    /\ UNCHANGED <<playerId, pending, rpc, stream, judgement, handler, replays>>

CachePlayer(t) ==
    /\ pc[t] = "cachePlayer"
    /\ playerId' = Sender[rpc[t]]
    /\ Goto(t, "parse")
    /\ UNCHANGED <<rakPeerSet, pending, rpc, stream, judgement, handler, replays>>

\* No id or no length: the packet goes on as it came.
PassUnreadable(t) ==
    /\ pc[t] = "parse"
    /\ Form[rpc[t]] = "noHeader"
    /\ PassOn(t, Sent(rpc[t]))
    /\ UNCHANGED <<cache, pending, rpc, judgement, handler, replays>>

\* Mutant: what could not be read is shown to the callbacks.
DispatchShort(t) ==
    /\ pc[t] = "parse"
    /\ Form[rpc[t]] = "short"
    /\ Goto(t, "dispatch")
    /\ UNCHANGED <<cache, pending, rpc, stream, judgement, handler, replays>>

\* Fewer bits than announced: the hook returns false.
DropShort(t) ==
    /\ pc[t] = "parse"
    /\ Form[rpc[t]] = "short"
    /\ Goto(t, "idle")
    /\ UNCHANGED <<cache, pending, rpc, stream, judgement, handler, replays>>

\* callback_bs is made of whole bytes.
MakeStream(t) ==
    /\ pc[t] = "parse"
    /\ Form[rpc[t]] = "fine"
    /\ stream' = [stream EXCEPT
                     ![t] = [Sent(rpc[t]) EXCEPT !.bits = 8 * BytesOf(@)]]
    /\ Goto(t, "dispatch")
    /\ UNCHANGED <<cache, pending, rpc, judgement, handler, replays>>

\* An allocation of the parser throws, the first one before anything is read:
\* the outer catch passes the packet on, a short one, too.
ParserThrows(t) ==
    /\ pc[t] = "parse"
    /\ Goto(t, "plain")
    /\ UNCHANGED <<cache, pending, rpc, stream, judgement, handler, replays>>

Edit(t) ==
    /\ pc[t] = "dispatch"
    /\ \E n \in Lengths :
          stream' = [stream EXCEPT ![t] = [bits |-> n, edited |-> TRUE]]
    /\ UNCHANGED <<cache, pending, pc, rpc, judgement, handler, replays>>

Judge(t, v) ==
    /\ verdict' = [verdict EXCEPT ![rpc[t]] = v]
    /\ left' = [left EXCEPT ![rpc[t]] = stream[t]]

\* Mutant: the length that was read is written back.
AsAnnounced(t) == [stream[t] EXCEPT !.bits = Bits[rpc[t]]]

\* What goes out again is the bytes in use, not the bits.
Encoded(t) == [stream[t] EXCEPT !.bits = 8 * BytesOf(@)]

\* All callbacks agree, or one throws: an exception counts as consent.
Allow(t) ==
    /\ pc[t] = "dispatch"
    /\ \E v \in {"allow", "throw"} : Judge(t, v)
    /\ PassOn(t, Encoded(t))
    /\ UNCHANGED <<cache, pending, rpc, handler, replays>>

\* Mutant: a refusal leaves by the way exceptions take.
RefuseByThrowing(t) ==
    /\ pc[t] = "dispatch"
    /\ Judge(t, "refuse")
    /\ Goto(t, "plain")
    /\ UNCHANGED <<cache, pending, rpc, stream, handler, replays>>

Refuse(t) ==
    /\ pc[t] = "dispatch"
    /\ Judge(t, "refuse")
    /\ Goto(t, "idle")
    /\ UNCHANGED <<cache, pending, rpc, stream, handler, replays>>

-----------------------------------------------------------------------------
Calls(t, data) == calls' = [calls EXCEPT ![rpc[t]] = Append(@, data)]

Handle(t) ==
    /\ pc[t] = "handler"
    /\ Calls(t, stream[t])
    /\ Goto(t, "idle")
    /\ UNCHANGED <<cache, pending, rpc, stream, judgement, thrown, replays>>

\* The original throws: the outer catch calls it again, with what came in.
HandlerThrows(t) ==
    /\ pc[t] = "handler"
    /\ Calls(t, stream[t])
    /\ thrown' = thrown \cup {rpc[t]}
    /\ Goto(t, "plain")
    /\ UNCHANGED <<cache, pending, rpc, stream, judgement, replays>>

\* Mutant: the call of the catch handler is guarded, too.
HandlePlainGuarded(t) ==
    /\ pc[t] = "plain"
    /\ Len(calls[rpc[t]]) < 4
    /\ Calls(t, Sent(rpc[t]))
    /\ \/ thrown' = thrown \cup {rpc[t]} /\ UNCHANGED pc
       \/ UNCHANGED thrown /\ Goto(t, "idle")
    /\ UNCHANGED <<cache, pending, rpc, stream, judgement, replays>>

\* The call outside the try: the hook is left, however it ends.
HandlePlain(t) ==
    /\ pc[t] = "plain"
    /\ Calls(t, Sent(rpc[t]))
    /\ Goto(t, "idle")
    /\ UNCHANGED <<cache, pending, rpc, stream, judgement, thrown, replays>>

\* ReplayIncomingRPC, on any thread, a callback's included, of an RPC that was
\* refused.  (g_rakPeer is read twice, and never null the second time only.)
Replay(r) ==
    /\ verdict[r] = "refuse"
    /\ rakPeerSet
    /\ replays' = replays \cup {[rpc |-> r, player |-> playerId]}
    /\ UNCHANGED <<cache, pending, thread, judgement, handler>>

\* The game idles once no RPC arrives.
Done == pending = {} /\ (\A t \in Threads : pc[t] = "idle") /\ UNCHANGED vars

Next ==
    \/ \E t \in Threads :
          \/ \E r \in Rpcs : Enter(t, r)
          \/ CachePeer(t) \/ CachePlayer(t)
          \/ PassUnreadable(t) \/ DropShort(t) \/ MakeStream(t) \/ ParserThrows(t)
          \/ Edit(t) \/ Allow(t) \/ Refuse(t)
          \/ Handle(t) \/ HandlerThrows(t) \/ HandlePlain(t)
    \/ \E r \in Rpcs : Replay(r)
    \/ Done

Spec == Init /\ [][Next]_vars

-----------------------------------------------------------------------------
Busy(t) == pc[t] # "idle"

Outcome(r) == IF calls[r] # <<>> THEN "delivered"
              ELSE IF r \in pending THEN "absent"
              ELSE IF \E t \in Threads : Busy(t) /\ rpc[t] = r THEN "pending"
              ELSE "dropped"

\* An exception of a callback counts as consent.
Consent(v) == IF v = "throw" THEN "allow" ELSE v

Filter == INSTANCE PacketFilter
              WITH Packets <- Rpcs,
                   Malformed <- {r \in Rpcs : Form[r] # "fine"},
                   Default <- [r \in Rpcs |->
                                  IF Form[r] = "short" THEN {"refuse", "allow"}
                                  ELSE {"allow"}],
                   outcome <- [r \in Rpcs |-> Outcome(r)],
                   verdict <- [r \in Rpcs |-> Consent(verdict[r])]

(* The RPC hook is a packet filter, with any number of threads: each RPC that *)
(* can be read is judged at most once, and ends once, at the original handler *)
(* or nowhere, as that judgement says; neither a callback's exception nor the *)
(* handler's own changes that.  Unread ones pass, but those that are too      *)
(* short are dropped, except where the parser threw.                          *)
IsAFilter == Filter!Spec

(* README.md:470, "Returning `false` from a callback blocks the RPC/packet":  *)
(* a refused RPC never gets to the original handler, by none of the calls     *)
(* of it in the hook, only when somebody replays it.                          *)
RefusedStaysOut == \A r \in Rpcs : verdict[r] = "refuse" => calls[r] = <<>>

(* The original handles an RPC once; twice when it threw the first time, as   *)
(* the catch handlers cannot tell its exception from the hook's own; and      *)
(* never a third time.                                                        *)
HandledOnceUnlessItThrew ==
    \A r \in Rpcs : Len(calls[r]) <= (IF r \in thrown THEN 2 ELSE 1)

(* What the callbacks let through is what the original gets first: the bytes  *)
(* they left, with their edits, also after one of them threw.                 *)
EditsReachTheHandler ==
    \A r \in Rpcs :
        (verdict[r] \in {"allow", "throw"} /\ calls[r] # <<>>) =>
            /\ calls[r][1].edited = left[r].edited
            /\ calls[r][1].bits \div 8 = BytesOf(left[r].bits)

(* te-sdk.cpp:321, "avoid storing invalid state": a refused RPC is replayed   *)
(* on behalf of a player that sent one, whatever arrives, empty RPCs among    *)
(* them, between the refusal and the replay.                                  *)
ReplayHasASender == \A p \in replays : p.player # NoPlayer
=============================================================================
