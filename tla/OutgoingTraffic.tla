--------------------------- MODULE OutgoingTraffic ---------------------------
(***************************************************************************)
(* The five send hooks of te-sdk.cpp, TERakClient::SendRPC and SendPacket, *)
(* and the five send functions of HookedRakClientInterface, on one thread: *)
(* the game or a mod sends, the hook shows the message to the callbacks    *)
(* and hands it to the original.  A callback may send as well: LocalClient *)
(* calls the functions MinHook patched, so the hooks nest.  The facade     *)
(* shows the callbacks the message first and then calls LocalClient, so    *)
(* the hook shows it to them again.                                        *)
(*                                                                         *)
(* The original functions of RakNet are external: they take the message,   *)
(* a BitStream from its read pointer on, and return whether they accept it *)
(* (they do not without a connection, or for want of data).  The dispatch  *)
(* is one verdict, and waits of several threads for g_mutex are in module  *)
(* HookForwarder.                                                          *)
(***************************************************************************)
EXTENDS Naturals, Sequences, SequencesExt

CONSTANTS
    Messages,
    Overload,       \* the function each message is sent by
    ViaFacade,      \* the messages mods send through the facade
    Empty           \* messages without id, data or stream

ASSUME OutgoingAssumption ==
    /\ Overload \in [Messages -> {"Send_CharPtr", "Send_BitStream",
                                  "RPC_CharPtr", "RPC_BitStream", "RPC_Extended"}]
    /\ ViaFacade \subseteq Messages
    /\ Empty \subseteq Messages

VARIABLES
    client, forwarder,      \* LocalClient is set and the hooks are on; the
                            \* facade has its forwarder
    frames,         \* the nested calls, outermost first
    sent,           \* what the originals got, in that order, and accepted or not
    returned,       \* how the call for each message ended
    judged, left    \* history: the callbacks' last word on a message, and what
                    \* they left in the caller's own bytes or stream

setup == <<client, forwarder>>
vars == <<setup, frames, sent, returned, judged, left>>

\* A callback overwrites the content, or leaves a longer or shorter stream.
\* "mixed" is new content cut or padded to the old length.
Contents == {"original", "rewritten", "resized", "mixed"}

Frame == [msg : Messages, layer : {"facade", "hook"}, at : {"judge", "pass"},
          content : Contents, rewound : BOOLEAN]

Sending == [msg : Messages, content : Contents, rewound : BOOLEAN, accepted : BOOLEAN]

TypeOK ==
    /\ client \in BOOLEAN /\ forwarder \in BOOLEAN
    /\ frames \in Seq(Frame)
    /\ sent \in Seq(Sending)
    /\ returned \in [Messages -> {"none", "true", "false", "exception"}]
    /\ judged \in [Messages -> {"none", "allow", "refuse", "throw"}]
    /\ left \in [Messages -> Contents]
    /\ \A i \in 1..Len(frames) : returned[frames[i].msg] = "none"

Init ==
    /\ client = FALSE /\ forwarder = FALSE
    /\ frames = <<>>
    /\ sent = <<>>
    /\ returned = [m \in Messages |-> "none"]
    /\ judged = [m \in Messages |-> "none"]
    /\ left = [m \in Messages |-> "original"]

-----------------------------------------------------------------------------
SetClient ==
    /\ ~client /\ client' = TRUE
    /\ UNCHANGED <<forwarder, frames, sent, returned, judged, left>>

SetForwarder ==
    /\ ~forwarder /\ forwarder' = TRUE
    /\ UNCHANGED <<client, frames, sent, returned, judged, left>>

Inside == {frames[i].msg : i \in 1..Len(frames)}
Top == frames[Len(frames)]
Judging == frames # <<>> /\ Top.at = "judge"
MaySend(m) ==
    /\ frames = <<>> \/ Judging
    /\ returned[m] = "none" /\ m \notin Inside

\* What is empty is not judged, and nothing is by a facade without a forwarder.
FirstStep(m) ==
    IF m \in Empty \/ (m \in ViaFacade /\ ~forwarder) THEN "pass" ELSE "judge"

\* The game sends, or a callback or another part of a mod does.
Send(m) ==
    /\ MaySend(m)
    /\ client
    /\ frames' = Append(frames,
                        [msg |-> m, at |-> FirstStep(m), rewound |-> TRUE,
                         layer |-> IF m \in ViaFacade THEN "facade" ELSE "hook",
                         content |-> "original"])
    /\ UNCHANGED <<setup, sent, returned, judged, left>>

\* SendRPC or SendPacket of LocalClient without a stream: nothing is called.
SendNothing(m) ==
    /\ MaySend(m)
    /\ client /\ m \in Empty /\ m \notin ViaFacade
    /\ returned' = [returned EXCEPT ![m] = "false"]
    /\ UNCHANGED <<setup, frames, sent, judged, left>>

\* if (!LocalClient || ...) return false
SendTooEarly(m) ==
    /\ MaySend(m)
    /\ ~client /\ m \in ViaFacade
    /\ returned' = [returned EXCEPT ![m] = "false"]
    /\ UNCHANGED <<setup, frames, sent, judged, left>>

\* A callback reads the stream or writes to it.
UseStream ==
    /\ Judging
    /\ \E content \in {Top.content, "rewritten", "resized"} :
          frames' = Append(Front(frames),
                           [Top EXCEPT !.content = content, !.rewound = FALSE])
    /\ UNCHANGED <<setup, sent, returned, judged, left>>

\* RPC(char*) of the hook shows the callbacks a copy, the facade's does not.
Copied(f) == f.layer = "hook" /\ Overload[f.msg] = "RPC_CharPtr"

\* Bytes are passed on with their old length, whatever the stream's is.
ByLength(f) == Overload[f.msg] \in {"Send_CharPtr", "RPC_CharPtr"}

Judge(v) ==
    /\ judged' = [judged EXCEPT ![Top.msg] = v]
    /\ left' = [left EXCEPT ![Top.msg] = IF Copied(Top) THEN @ ELSE Top.content]

Leave(value) ==
    /\ frames' = Front(frames)
    /\ returned' = [returned EXCEPT ![Top.msg] = value]

\* What the next function gets of the message.
\* Mutant: whatever the overload, the old length is passed on.
WithOldLength(f) ==
    IF Copied(f) THEN left[f.msg]
    ELSE IF f.content = "resized" THEN "mixed" ELSE f.content
OnTheWire(f) ==
    IF Copied(f) THEN left[f.msg]
    ELSE IF ByLength(f) /\ f.content = "resized" THEN "mixed" ELSE f.content

\* All callbacks agree: bitStream->ResetReadPointer().
Allow ==
    /\ Judging
    /\ IF Top.layer = "hook" THEN Judge("allow")
       ELSE /\ left' = [left EXCEPT ![Top.msg] = OnTheWire(Top)]
            /\ UNCHANGED judged
    /\ frames' = Append(Front(frames),
                        [Top EXCEPT !.at = "pass", !.rewound = TRUE])
    /\ UNCHANGED <<setup, sent, returned>>

\* Mutants: what the callbacks return is not looked at; the caller is told
\* that a blocked message was sent.
RefuseIgnored ==
    /\ Judging
    /\ Judge("refuse")
    /\ frames' = Append(Front(frames), [Top EXCEPT !.at = "pass"])
    /\ UNCHANGED <<setup, sent, returned>>
RefuseSilently ==
    /\ Judging
    /\ Judge("refuse")
    /\ Leave("true")
    /\ UNCHANGED <<setup, sent>>

Refuse ==
    /\ Judging
    /\ Judge("refuse")
    /\ Leave("false")
    /\ UNCHANGED <<setup, sent>>

\* The exception leaves the hook and the facade, for the callback that sent, if
\* one did: that catches it and goes on, or throws in turn.
Throw ==
    /\ Judging
    /\ Judge("throw")
    /\ Leave("exception")
    /\ UNCHANGED <<setup, sent>>

\* The facade returns what LocalClient returns: the hook's call takes its place.
PassToHook ==
    /\ frames # <<>> /\ Top.at = "pass" /\ Top.layer = "facade"
    /\ frames' = Append(Front(frames),
                        [Top EXCEPT !.layer = "hook", !.content = OnTheWire(Top),
                                    !.at = IF Top.msg \in Empty THEN "pass"
                                           ELSE "judge"])
    /\ UNCHANGED <<setup, sent, returned, judged, left>>

\* The caller is told what the original returns.
Pass ==
    /\ frames # <<>> /\ Top.at = "pass" /\ Top.layer = "hook"
    /\ \E accepted \in BOOLEAN :
          /\ sent' = Append(sent, [msg |-> Top.msg, content |-> OnTheWire(Top),
                                   rewound |-> Top.rewound, accepted |-> accepted])
          /\ Leave(IF accepted THEN "true" ELSE "false")
    /\ UNCHANGED <<setup, judged, left>>

\* All messages of the instance are dealt with.
Done == frames = <<>> /\ (\A m \in Messages : returned[m] # "none") /\ UNCHANGED vars

Next ==
    \/ SetClient \/ SetForwarder
    \/ \E m \in Messages : Send(m) \/ SendNothing(m) \/ SendTooEarly(m)
    \/ UseStream \/ Allow \/ Refuse \/ Throw \/ PassToHook \/ Pass
    \/ Done

Spec == Init /\ [][Next]_vars

-----------------------------------------------------------------------------
SentMessages == {sent[i].msg : i \in 1..Len(sent)}

Outcome(m) == CASE m \in SentMessages -> "delivered"
                [] m \in Inside -> "pending"
                [] /\ m \notin SentMessages
                   /\ returned[m] = "false" /\ judged[m] # "none" -> "dropped"
                [] returned[m] = "exception" -> "lost"
                [] OTHER -> "absent"

Filter == INSTANCE PacketFilter
              WITH Packets <- Messages, Malformed <- Empty,
                   Default <- [m \in Messages |->
                                  IF m \in Empty THEN {"allow"} ELSE {}],
                   outcome <- [m \in Messages |-> Outcome(m)], verdict <- judged

(* The send hooks are a packet filter: whatever callbacks send from within    *)
(* callbacks, and however exceptions cross the nested calls, each message is  *)
(* judged before it goes out, once, and ends as its own verdict says.         *)
IsAFilter == Filter!Spec

(* What the caller is told is the truth, through the facade and the hook and  *)
(* whatever is sent or thrown in between: true only of a message the original *)
(* got and accepted, and false, never an exception, of one it got and did     *)
(* not; so of what callbacks blocked, and of what a nested send that threw    *)
(* went through, nobody is told that it was sent.  And the original gets a    *)
(* message at most once.                                                      *)
CallerIsTold ==
    /\ \A i \in 1..Len(sent) :
          returned[sent[i].msg] = IF sent[i].accepted THEN "true" ELSE "false"
    /\ \A m \in Messages : returned[m] = "true" => m \in SentMessages
    /\ Len(sent) = Cardinality(SentMessages)

(* What callbacks leave in a caller's stream is what goes out, edits of any   *)
(* length, made under the facade or under the hook; of bytes, only edits in   *)
(* the caller's own memory go out, cut to the old length, and those in a copy *)
(* that the hook makes never do.  And the original reads a stream from its    *)
(* start, wherever the callbacks, those of nested sends too, stopped.         *)
StreamsCarryEdits ==
    \A i \in 1..Len(sent) :
        LET m == sent[i].msg IN
        /\ sent[i].rewound
        /\ Overload[m] \in {"Send_BitStream", "RPC_BitStream", "RPC_Extended"} =>
               sent[i].content = left[m]
        /\ Overload[m] = "RPC_CharPtr" =>
               sent[i].content = left[m] /\ (m \in ViaFacade \/ left[m] = "original")
=============================================================================
