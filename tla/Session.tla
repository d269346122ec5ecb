------------------------------- MODULE Session --------------------------------
(***************************************************************************)
(* SessionInfo, as hkConnect and hkDisconnect of te-sdk.cpp keep it, and   *)
(* Connect and Disconnect of HookedRakClientInterface, which keep the same *)
(* record and then call the game's client, and with it the hooks.          *)
(*                                                                         *)
(* The record has no lock: threads that connect or disconnect at once      *)
(* write it field by field, and its readers see every state of it.  (A     *)
(* host of 64 characters or more ends the process in strcpy_s; hosts are   *)
(* shorter here.)  RakNet is external: Connect gives up the connection     *)
(* there was and, if it can, asks for a new one; a server may refuse or    *)
(* drop it at any time.                                                    *)
(***************************************************************************)
EXTENDS Naturals

CONSTANTS
    Threads,
    Servers,        \* a host and its ports
    NoServer,       \* what the record starts with; RakNet has no connection
    Torn,           \* a host name half copied over another
    MaxCalls        \* bound: calls of Connect and Disconnect

ASSUME SessionAssumption ==
    /\ NoServer \notin Servers /\ Torn \notin Servers /\ Torn # NoServer
    /\ MaxCalls \in Nat

VARIABLES
    serverIP, ports, isConnected,   \* sessionInfo; ports: the fields in between
    client, hooks,      \* LocalClient is not null; which functions are hooked
    pc, layer, host,    \* per thread: where, in whose code, its argument
    asked, lost,        \* RakNet: the server it has or wants; that it lost it
    calls,
    muddled     \* history: since the last Connect that ran alone, calls have
                \* overlapped, or RakNet and the record did not get the same

record == <<serverIP, ports, isConnected>>
setup == <<client, hooks>>
thread == <<pc, layer, host>>
network == <<asked, lost>>
vars == <<record, setup, thread, network, calls, muddled>>

\* The facade's code, a hook's, or a hook's that the facade called.
Layers == {"facade", "hook", "nested"}
Detailing == {"copy", "copied", "ports", "flag"}

TypeOK ==
    /\ serverIP \in Servers \cup {NoServer, Torn}
    /\ ports \in Servers \cup {NoServer}
    /\ isConnected \in BOOLEAN
    /\ client \in BOOLEAN /\ hooks \subseteq {"Connect", "Disconnect"}
    /\ pc \in [Threads -> Detailing \cup {"idle", "connect", "setFlag",
                                          "clear", "disconnect"}]
    /\ layer \in [Threads -> Layers]
    /\ host \in [Threads -> Servers \cup {NoServer}]
    /\ asked \in Servers \cup {NoServer} /\ lost \in BOOLEAN
    /\ calls \in 0..MaxCalls /\ muddled \in BOOLEAN

Init ==
    /\ serverIP = NoServer /\ ports = NoServer /\ isConnected = FALSE
    /\ client = FALSE /\ hooks = {}
    /\ pc = [t \in Threads |-> "idle"]
    /\ layer = [t \in Threads |-> "hook"]
    /\ host = [t \in Threads |-> NoServer]
    /\ asked = NoServer /\ lost = FALSE
    /\ calls = 0 /\ muddled = FALSE

Goto(t, label) == pc' = [pc EXCEPT ![t] = label]
In(t, l) == layer' = [layer EXCEPT ![t] = l]
Alone(t) == \A u \in Threads \ {t} : pc[u] = "idle"

-----------------------------------------------------------------------------
\* InitRakNetHooks: the client, then Connect's hook, then Disconnect's.  Nobody
\* looks whether MH_EnableHook failed.  (When a later hook cannot be made, the
\* client is deleted again and Connect and Disconnect stay hooked: HookInstall.)
SetClient ==
    /\ ~client
    /\ client' = TRUE
    /\ UNCHANGED <<record, hooks, thread, network, calls, muddled>>

EnableHook(f) ==
    /\ client
    /\ f \notin hooks
    /\ f = "Connect" => "Disconnect" \notin hooks
    /\ hooks' = hooks \cup {f}
    /\ UNCHANGED <<record, client, thread, network, calls, muddled>>

-----------------------------------------------------------------------------
\* RakNet.
Asks(s) == asked' = s /\ lost' = FALSE
ConnectFails == asked' = NoServer /\ UNCHANGED lost
Disconnects == asked' = NoServer /\ lost' = FALSE

\* The server refuses, or the connection breaks: the game gets a packet.
Lose ==
    /\ asked # NoServer
    /\ asked' = NoServer /\ lost' = TRUE
    /\ UNCHANGED <<record, setup, thread, calls, muddled>>

\* What the game calls before a function is hooked, the record does not see.
CallUnseen(f) ==
    /\ f \notin hooks
    /\ calls < MaxCalls /\ calls' = calls + 1
    /\ IF f = "Connect" THEN (\E s \in Servers : Asks(s)) \/ ConnectFails
       ELSE Disconnects
    /\ muddled' = TRUE
    /\ UNCHANGED <<record, setup, thread>>

-----------------------------------------------------------------------------
\* Connect of the hook or of the facade.
CallConnect(t, s, l) ==
    /\ pc[t] = "idle"
    /\ l = "hook" => "Connect" \in hooks
    /\ calls < MaxCalls /\ calls' = calls + 1
    /\ Goto(t, "copy") /\ In(t, l)
    /\ host' = [host EXCEPT ![t] = s]
    /\ muddled' = ~Alone(t)
    /\ UNCHANGED <<record, setup, network>>

\* strcpy_s, character by character.
CopyHost(t) ==
    /\ pc[t] = "copy"
    /\ serverIP' = Torn
    /\ Goto(t, "copied")
    /\ UNCHANGED <<ports, isConnected, setup, layer, host, network, calls, muddled>>

EndCopy(t) ==
    /\ pc[t] = "copied"
    /\ serverIP' = host[t]
    /\ Goto(t, "ports")
    /\ UNCHANGED <<ports, isConnected, setup, layer, host, network, calls, muddled>>

\* serverPort to threadSleepTimer.
StorePorts(t) ==
    /\ pc[t] = "ports"
    /\ ports' = host[t]
    /\ Goto(t, "flag")
    /\ UNCHANGED <<serverIP, isConnected, setup, layer, host, network, calls, muddled>>

\* Mutant: isConnected is left as it was.
ResetNothing(t) ==
    /\ pc[t] = "flag"
    /\ Goto(t, "connect")
    /\ UNCHANGED <<record, setup, layer, host, network, calls, muddled>>

ResetFlag(t) ==
    /\ pc[t] = "flag"
    /\ isConnected' = FALSE
    /\ Goto(t, "connect")
    /\ UNCHANGED <<serverIP, ports, setup, layer, host, network, calls, muddled>>

\* The facade calls LocalClient, through the hook if Connect is hooked; from
\* the hook, or if it is not, the call gets to RakNet.
EnterHook(t) ==
    /\ pc[t] = "connect"
    /\ layer[t] = "facade" /\ client /\ "Connect" \in hooks
    /\ Goto(t, "copy") /\ In(t, "nested")
    /\ UNCHANGED <<record, setup, host, network, calls, muddled>>

Original(t, f) ==
    \/ layer[t] \in {"hook", "nested"}
    \/ layer[t] = "facade" /\ client /\ f \notin hooks

ConnectOriginal(t) ==
    /\ pc[t] = "connect"
    /\ Original(t, "Connect")
    /\ \/ Asks(host[t]) /\ Goto(t, "setFlag")
       \/ ConnectFails /\ Goto(t, "idle")
    /\ UNCHANGED <<record, setup, layer, host, calls, muddled>>

\* No LocalClient: RakNet keeps the connection it may have.
WithoutClient(t) ==
    /\ pc[t] \in {"connect", "disconnect"}
    /\ layer[t] = "facade" /\ ~client
    /\ Goto(t, "idle")
    /\ muddled' = TRUE
    /\ UNCHANGED <<record, setup, layer, host, network, calls>>

\* Mutant: the flag is set by the facade only.
SetFlagInFacade(t) ==
    /\ pc[t] = "setFlag"
    /\ isConnected' = (isConnected \/ layer[t] = "facade")
    /\ IF layer[t] = "nested" THEN In(t, "facade") /\ UNCHANGED pc
       ELSE Goto(t, "idle") /\ UNCHANGED layer
    /\ UNCHANGED <<serverIP, ports, setup, host, network, calls, muddled>>

\* if (result) session.isConnected = true, in the hook and then in the facade.
SetFlag(t) ==
    /\ pc[t] = "setFlag"
    /\ isConnected' = TRUE
    /\ IF layer[t] = "nested" THEN In(t, "facade") /\ UNCHANGED pc
       ELSE Goto(t, "idle") /\ UNCHANGED layer
    /\ UNCHANGED <<serverIP, ports, setup, host, network, calls, muddled>>

-----------------------------------------------------------------------------
\* Disconnect of the hook or of the facade.
CallDisconnect(t, l) ==
    /\ pc[t] = "idle"
    /\ l = "hook" => "Disconnect" \in hooks
    /\ calls < MaxCalls /\ calls' = calls + 1
    /\ Goto(t, "clear") /\ In(t, l)
    /\ muddled' = (muddled \/ ~Alone(t))
    /\ UNCHANGED <<record, setup, host, network>>

ClearFlag(t) ==
    /\ pc[t] = "clear"
    /\ isConnected' = FALSE
    /\ Goto(t, "disconnect")
    /\ UNCHANGED <<serverIP, ports, setup, layer, host, network, calls, muddled>>

EnterDisconnectHook(t) ==
    /\ pc[t] = "disconnect"
    /\ layer[t] = "facade" /\ client /\ "Disconnect" \in hooks
    /\ Goto(t, "clear") /\ In(t, "nested")
    /\ UNCHANGED <<record, setup, host, network, calls, muddled>>

DisconnectOriginal(t) ==
    /\ pc[t] = "disconnect"
    /\ Original(t, "Disconnect")
    /\ Disconnects
    /\ Goto(t, "idle")
    /\ UNCHANGED <<record, setup, layer, host, calls, muddled>>

Next ==
    \/ SetClient \/ Lose
    \/ \E f \in {"Connect", "Disconnect"} : EnableHook(f) \/ CallUnseen(f)
    \/ \E t \in Threads, l \in {"facade", "hook"} :
          (\E s \in Servers : CallConnect(t, s, l)) \/ CallDisconnect(t, l)
    \/ \E t \in Threads :
          \/ CopyHost(t) \/ EndCopy(t) \/ StorePorts(t) \/ ResetFlag(t)
          \/ EnterHook(t) \/ ConnectOriginal(t) \/ WithoutClient(t) \/ SetFlag(t)
          \/ ClearFlag(t) \/ EnterDisconnectHook(t) \/ DisconnectOriginal(t)

Spec == Init /\ [][Next]_vars

-----------------------------------------------------------------------------
(* te-sdk.h:33-41: the record names a server, and isConnected says that there *)
(* is a connection to it.  Whatever the nesting of facade and hooks, it never *)
(* says so without RakNet having been asked for just that server, until the   *)
(* server refuses or the connection breaks (isConnected stays), other than    *)
(* while the next Connect replaces the details: those come first, the flag of *)
(* the old connection is reset after them.                                    *)
ConnectedNamesItsServer ==
    (isConnected /\ ~muddled /\ \A t \in Threads : pc[t] \notin Detailing) =>
        /\ serverIP = ports
        /\ asked = serverIP \/ lost

(* The other way round: between calls, a connection the hooks have seen being *)
(* made is in the record.  A Connect that runs alone puts right what          *)
(* overlapping ones left.                                                     *)
ConnectionIsRecorded ==
    (asked # NoServer /\ ~muddled /\ \A t \in Threads : pc[t] = "idle") =>
        isConnected /\ serverIP = asked
=============================================================================
