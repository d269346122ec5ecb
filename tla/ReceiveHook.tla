----------------------------- MODULE ReceiveHook -----------------------------
(***************************************************************************)
(* hkReceive of te-sdk.cpp: threads of the game poll RakClient::Receive,   *)
(* the hook takes packets from the original, lets the callbacks judge a    *)
(* copy of each and returns the first one they let through.  Receive of    *)
(* HookedRakClientInterface polls the hook in turn and lets the callbacks  *)
(* judge what it returns once more.  (A facade without LocalClient returns *)
(* null at once, whatever is queued: it gets to no packet, and no action   *)
(* here stands for it.)                                                    *)
(*                                                                         *)
(* The packet queue of the original Receive and DeallocatePacket are       *)
(* external.  The dispatch (module HookForwarder) is one judgement: allow, *)
(* refuse, or an exception that leaves the hook.                           *)
(***************************************************************************)
EXTENDS Naturals, Sequences, FiniteSets

CONSTANTS
    Threads,
    Packets,
    Malformed,      \* packets with null data or length 0
    NoPacket        \* the null Packet*

ASSUME ReceiveAssumption == NoPacket \notin Packets /\ Malformed \subseteq Packets

VARIABLES
    arrived,        \* history: the packets RakNet got
    queue,          \* what the original Receive has still to return
    pc, layer, held,    \* where each thread is, in whose code; its packet p
    forwarder,      \* the facade has one
    delivered,      \* history: the packets returned to a caller
    freed, leaked,  \* packets deallocated by the hook, and referenced by none
    judged          \* history: what the callbacks said of each packet last

packets == <<queue, freed, leaked>>
thread == <<pc, layer, held>>
vars == <<arrived, packets, thread, forwarder, delivered, judged>>

\* The hook's code, that of a hook the facade called, or the facade's.
Layers == {"hook", "nested", "facade"}

Verdicts == {"allow", "refuse", "throw"}

TypeOK ==
    /\ arrived \subseteq Packets /\ queue \in Seq(Packets)
    /\ pc \in [Threads -> {"idle", "take", "check", "dispatch", "dealloc"}]
    /\ layer \in [Threads -> Layers]
    /\ held \in [Threads -> Packets \cup {NoPacket}]
    /\ forwarder \in BOOLEAN
    /\ delivered \subseteq Packets
    /\ freed \subseteq Packets /\ leaked \subseteq Packets
    /\ judged \in [Packets -> Verdicts \cup {"none"}]

Init ==
    /\ arrived = {} /\ queue = <<>>
    /\ pc = [t \in Threads |-> "idle"]
    /\ layer = [t \in Threads |-> "hook"]
    /\ held = [t \in Threads |-> NoPacket]
    /\ forwarder = FALSE
    /\ delivered = {}
    /\ freed = {} /\ leaked = {}
    /\ judged = [p \in Packets |-> "none"]

-----------------------------------------------------------------------------
Arrive(p) ==
    /\ p \notin arrived
    /\ arrived' = arrived \cup {p}
    /\ queue' = Append(queue, p)
    /\ UNCHANGED <<freed, leaked, thread, forwarder, delivered, judged>>

SetForwarder ==
    /\ ~forwarder
    /\ forwarder' = TRUE
    /\ UNCHANGED <<arrived, packets, thread, delivered, judged>>

Goto(t, label) == pc' = [pc EXCEPT ![t] = label]
In(t, l) == layer' = [layer EXCEPT ![t] = l]
Hold(t, p) == held' = [held EXCEPT ![t] = p]

\* The game's thread enters the hook, a mod's the facade, and so the hook.
Call(t, l) ==
    /\ pc[t] = "idle"
    /\ Goto(t, "take") /\ In(t, l)
    /\ UNCHANGED <<arrived, packets, held, forwarder, delivered, judged>>

\* p = oReceive(thisPtr)
Take(t) ==
    /\ pc[t] = "take"
    /\ queue # <<>>
    /\ Hold(t, Head(queue))
    /\ queue' = Tail(queue)
    /\ Goto(t, "check")
    /\ UNCHANGED <<arrived, freed, leaked, layer, forwarder, delivered, judged>>

\* ... and there is none: the hook returns null, and so does the facade.
ReturnNull(t) ==
    /\ pc[t] = "take"
    /\ queue = <<>>
    /\ Goto(t, "idle")
    /\ UNCHANGED <<arrived, packets, layer, held, forwarder, delivered, judged>>

\* The packet goes to the caller.
Return(t) ==
    /\ delivered' = delivered \cup {held[t]}
    /\ Hold(t, NoPacket)
    /\ Goto(t, "idle")
    /\ UNCHANGED layer

\* The hook's caller is the facade: that looks at the packet too.
ReturnToFacade(t) ==
    /\ In(t, "facade")
    /\ Goto(t, "check")
    /\ UNCHANGED <<held, delivered>>

\* A packet without data is returned as it is, no callback sees it.
ReturnMalformed(t) ==
    /\ pc[t] = "check"
    /\ held[t] \in Malformed
    /\ IF layer[t] = "nested" THEN ReturnToFacade(t) ELSE Return(t)
    /\ UNCHANGED <<arrived, packets, forwarder, judged>>

\* RakNet::BitStream bs(p->data, p->length, true): a copy in the hook, the
\* packet's own bytes in the facade.  Contents are left out.
MakeStream(t) ==
    /\ pc[t] = "check"
    /\ held[t] \notin Malformed
    /\ Goto(t, "dispatch")
    /\ UNCHANGED <<arrived, packets, layer, held, forwarder, delivered, judged>>

Judging(t) == pc[t] = "dispatch" /\ (layer[t] = "facade" => forwarder)
JudgedAs(t, v) == judged' = [judged EXCEPT ![held[t]] = v]

ReturnAllowed(t) ==
    /\ Judging(t)
    /\ layer[t] # "nested"
    /\ JudgedAs(t, "allow")
    /\ Return(t)
    /\ UNCHANGED <<arrived, packets, forwarder>>

\* The hook's callbacks agree; the last word is the facade's.
PassToFacade(t) ==
    /\ Judging(t)
    /\ layer[t] = "nested"
    /\ ReturnToFacade(t)
    /\ UNCHANGED <<arrived, packets, forwarder, judged>>

Refuse(t) ==
    /\ Judging(t)
    /\ JudgedAs(t, "refuse")
    /\ Goto(t, "dealloc")
    /\ UNCHANGED <<arrived, packets, layer, held, forwarder, delivered>>

\* if (forwarder && forwarder->IncomingPacket(...)) break: a facade without a
\* forwarder refuses every packet.
RefuseUnjudged(t) ==
    /\ pc[t] = "dispatch"
    /\ layer[t] = "facade" /\ ~forwarder
    /\ JudgedAs(t, "refuse")
    /\ Goto(t, "dealloc")
    /\ UNCHANGED <<arrived, packets, layer, held, forwarder, delivered>>

\* Mutant: the refused packet is freed and null is returned at once.
DeallocateAndReturn(t) ==
    /\ pc[t] = "dealloc"
    /\ freed' = freed \cup {held[t]}
    /\ Hold(t, NoPacket)
    /\ Goto(t, "idle")
    /\ UNCHANGED <<arrived, queue, leaked, layer, forwarder, delivered, judged>>

\* Mutant: the refused packet goes back to the caller after it was freed.
DeallocateAndReturnPacket(t) ==
    /\ pc[t] = "dealloc"
    /\ freed' = freed \cup {held[t]}
    /\ Return(t)
    /\ UNCHANGED <<arrived, queue, leaked, forwarder, judged>>

\* Mutant: the loop does not fetch the next packet.
DeallocateAndStay(t) ==
    /\ pc[t] = "dealloc"
    /\ freed' = freed \cup {held[t]}
    /\ Goto(t, "check")
    /\ UNCHANGED <<arrived, queue, layer, held, leaked, forwarder, delivered, judged>>

\* LocalClient->GetInterface()->DeallocatePacket(p), then the next packet: the
\* facade calls the hook again.
Deallocate(t) ==
    /\ pc[t] = "dealloc"
    /\ freed' = freed \cup {held[t]}
    /\ Hold(t, NoPacket)
    /\ Goto(t, "take")
    /\ In(t, IF layer[t] = "hook" THEN "hook" ELSE "nested")
    /\ UNCHANGED <<arrived, queue, leaked, forwarder, delivered, judged>>

\* A callback throws: the exception leaves hkReceive, and the facade, and
\* nobody has p any more.
Throw(t) ==
    /\ Judging(t)
    /\ JudgedAs(t, "throw")
    /\ leaked' = leaked \cup {held[t]}
    /\ Hold(t, NoPacket)
    /\ Goto(t, "idle")
    /\ UNCHANGED <<arrived, queue, freed, layer, forwarder, delivered>>

Inside(t) ==
    \/ Take(t) \/ ReturnNull(t) \/ ReturnMalformed(t) \/ MakeStream(t)
    \/ ReturnAllowed(t) \/ PassToFacade(t) \/ Refuse(t) \/ RefuseUnjudged(t)
    \/ Deallocate(t) \/ Throw(t)

Next ==
    \/ \E p \in Packets : Arrive(p)
    \/ SetForwarder
    \/ \E t \in Threads :
          \/ Call(t, "hook") \/ Call(t, "nested")
          \/ Take(t) \/ ReturnNull(t) \/ ReturnMalformed(t) \/ MakeStream(t)
          \/ ReturnAllowed(t) \/ PassToFacade(t) \/ Refuse(t)
          \/ RefuseUnjudged(t) \/ Deallocate(t) \/ Throw(t)

Spec == Init /\ [][Next]_vars

\* A thread inside the hook keeps running and the callbacks terminate.
FairSpec == Spec /\ \A t \in Threads : WF_vars(Inside(t))

-----------------------------------------------------------------------------
Outcome(p) == CASE p \in delivered -> "delivered"
                [] p \in freed \ delivered -> "dropped"
                [] p \in leaked \ (freed \cup delivered) -> "lost"
                [] p \in arrived \ (leaked \cup freed \cup delivered) -> "pending"
                [] OTHER -> "absent"

Filter == INSTANCE PacketFilter
              WITH Default <- [p \in Packets |->
                                  IF p \in Malformed THEN {"allow"} ELSE {}],
                   outcome <- [p \in Packets |-> Outcome(p)], verdict <- judged

(* hkReceive, and the facade over it, is a packet filter: with several threads*)
(* polling either, each packet gets one final verdict and ends once, as that  *)
(* says.  Only a callback that throws loses one, and only a facade without a  *)
(* forwarder drops one nobody refused.                                        *)
IsAFilter == Filter!Spec

(* Every packet RakNet handed out has one owner, whatever layers it went      *)
(* through: the queue, one thread, the caller it was returned to, or nobody,  *)
(* freed or lost; none is freed under a thread or a caller that still has it. *)
OneOwner ==
    /\ TypeOK
    /\ \A p \in arrived :
          Cardinality({i \in DOMAIN queue : queue[i] = p})
        + Cardinality({t \in Threads : held[t] = p})
        + Cardinality({s \in {"delivered", "freed", "leaked"} :
                          p \in CASE s = "delivered" -> delivered
                                  [] s = "freed" -> freed
                                  [] s = "leaked" -> leaked}) = 1

(* The hook, and a facade that calls it, return null only when RakNet has     *)
(* nothing left: refused packets never hide the ones behind them from the     *)
(* game's polling loop.                                                       *)
NullMeansDrained ==
    [][\A t \in Threads :
          (pc[t] # "idle" /\ pc'[t] = "idle" /\ delivered' = delivered
             /\ leaked' = leaked) => queue = <<>>]_vars

(* Every call of Receive comes back to the game, however many packets the     *)
(* callbacks refuse.                                                          *)
EveryCallReturns == \A t \in Threads : (pc[t] # "idle") ~> (pc[t] = "idle")
=============================================================================
