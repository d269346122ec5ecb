---------------------------- MODULE ClientVtable ----------------------------
(***************************************************************************)
(* The numbers by which the SDK finds the functions of the game's client:  *)
(* the hooks of te-sdk.cpp take fixed entries of its virtual table, and so *)
(* does every method of TERakClient::Wrapper, which the code of the game   *)
(* and of mods calls through GetInterface().  A number that is wrong calls *)
(* another function, with arguments that are not its own.  The facade,     *)
(* HookedRakClientInterface, passes each of its methods on to the wrapper's*)
(* method of the same name, if there is a client, or answers by itself.    *)
(*                                                                         *)
(* The table is the game's.  Its order is known from the declaration of    *)
(* the interface, up to the order of overloads: a compiler lays all groups *)
(* of them out as declared, or all in reverse.                             *)
(***************************************************************************)
EXTENDS Integers, Sequences, FiniteSets, TLC

VARIABLES
    table,          \* originalVtable: entry -> function; 0 is the destructor
    hooked,         \* how many of the hooks are attached
    client,         \* LocalClient is set
    call            \* the last call through the wrapper or the facade

vars == <<table, hooked, client, call>>

-----------------------------------------------------------------------------
\* The virtual functions of local_RakClientInterface, as declared.
Declared == <<
    "Connect", "Disconnect", "InitializeSecurity", "SetPassword", "HasPassword",
    "Send(char*)", "Send(BitStream*)", "Receive", "DeallocatePacket",
    "PingServer()", "PingServer(host)", "GetAveragePing", "GetLastPing",
    "GetLowestPing", "GetPlayerPing", "StartOccasionalPing",
    "StopOccasionalPing", "IsConnected", "GetSynchronizedRandomInteger",
    "GenerateCompressionLayer", "DeleteCompressionLayer",
    "RegisterAsRemoteProcedureCall", "RegisterClassMemberRPC",
    "UnregisterAsRemoteProcedureCall", "RPC(char*)", "RPC(BitStream*)", "RPC_",
    "SetTrackFrequencyTable", "GetSendFrequencyTable", "GetCompressionRatio",
    "GetDecompressionRatio", "AttachPlugin", "DetachPlugin",
    "GetStaticServerData", "SetStaticServerData", "GetStaticClientData",
    "SetStaticClientData", "SendStaticClientDataToServer", "GetServerID",
    "GetPlayerID", "GetInternalID", "PlayerIDToDottedIP", "PushBackPacket",
    "SetRouterInterface", "RemoveRouterInterface", "SetTimeoutTime",
    "SetMTUSize", "GetMTUSize", "AllowConnectionResponseIPMigration",
    "AdvertiseSystem", "GetStatistics", "ApplyNetworkSimulator",
    "IsNetworkSimulatorActive", "GetPlayerIndex" >>

\* Where a compiler that reverses overloads puts the entry declared as i-th.
Overloads == {<<6, 7>>, <<10, 11>>, <<25, 26>>}
Mirrored(i) ==
    IF \E g \in Overloads : i \in {g[1], g[2]}
    THEN LET g == CHOOSE h \in Overloads : i \in {h[1], h[2]} IN g[1] + g[2] - i
    ELSE i

Layouts == {Declared, [i \in DOMAIN Declared |-> Declared[Mirrored(i)]]}

-----------------------------------------------------------------------------
\* The entries the wrapper's methods call.
ConnectionEntries ==
    "Connect" :> 1 @@ "Disconnect" :> 2 @@ "InitializeSecurity" :> 3 @@
    "SetPassword" :> 4 @@ "HasPassword" :> 5 @@ "Send(char*)" :> 7 @@
    "Send(BitStream*)" :> 6 @@ "Receive" :> 8 @@ "DeallocatePacket" :> 9

PingEntries ==
    "PingServer()" :> 10 @@ "PingServer(host)" :> 11 @@ "GetAveragePing" :> 12 @@
    "GetLastPing" :> 13 @@ "GetLowestPing" :> 14 @@ "GetPlayerPing" :> 15 @@
    "StartOccasionalPing" :> 16 @@ "StopOccasionalPing" :> 17 @@
    "IsConnected" :> 18 @@ "GetSynchronizedRandomInteger" :> 19 @@
    "GenerateCompressionLayer" :> 20 @@ "DeleteCompressionLayer" :> 21

RpcEntries ==
    "RegisterAsRemoteProcedureCall" :> 22 @@ "RegisterClassMemberRPC" :> 23 @@
    "UnregisterAsRemoteProcedureCall" :> 24 @@ "RPC(char*)" :> 26 @@
    "RPC(BitStream*)" :> 25 @@ "RPC_" :> 27

\* From SetTrackFrequencyTable on each method calls the entry it is declared at.
OtherEntries == [f \in {Declared[i] : i \in 28..54} |->
                    CHOOSE i \in 28..54 : Declared[i] = f]

Entries == ConnectionEntries @@ PingEntries @@ RpcEntries @@ OtherEntries

\* The facade's methods, and what they answer without a client.
Answering(answer, methods) == [f \in methods |-> answer]

FacadeConnection ==
    Answering("void", {"Disconnect", "InitializeSecurity", "SetPassword"}) @@
    Answering("false", {"Connect", "HasPassword"})

FacadeTraffic ==
    Answering("false", {"Send(char*)", "Send(BitStream*)", "RPC(char*)",
                        "RPC(BitStream*)", "RPC_"}) @@
    "Receive" :> "null"

FacadePings ==
    Answering("void", {"DeallocatePacket", "PingServer()", "PingServer(host)",
                       "StartOccasionalPing", "StopOccasionalPing"}) @@
    Answering("0", {"GetAveragePing", "GetLastPing", "GetLowestPing",
                    "GetPlayerPing", "GetSynchronizedRandomInteger"}) @@
    Answering("false", {"IsConnected", "GenerateCompressionLayer",
                        "DeleteCompressionLayer"})

FacadeRegistrations ==
    Answering("void", {"RegisterAsRemoteProcedureCall", "RegisterClassMemberRPC",
                       "UnregisterAsRemoteProcedureCall"})

FacadeData ==
    Answering("void", {"SetTrackFrequencyTable", "AttachPlugin", "DetachPlugin",
                       "SetStaticServerData", "SetStaticClientData",
                       "SendStaticClientDataToServer"}) @@
    Answering("0", {"GetCompressionRatio", "GetDecompressionRatio"}) @@
    Answering("null", {"GetStaticServerData", "GetStaticClientData"}) @@
    Answering("PlayerID()", {"GetServerID", "GetPlayerID", "GetInternalID"}) @@
    "GetSendFrequencyTable" :> "false" @@ "PlayerIDToDottedIP" :> ""

FacadeSettings ==
    Answering("void", {"PushBackPacket", "SetRouterInterface",
                       "RemoveRouterInterface", "SetTimeoutTime",
                       "AllowConnectionResponseIPMigration", "AdvertiseSystem",
                       "ApplyNetworkSimulator"}) @@
    Answering("0", {"GetMTUSize", "GetPlayerIndex"}) @@
    Answering("false", {"SetMTUSize", "IsNetworkSimulatorActive"}) @@
    "GetStatistics" :> "null"

Facade == FacadeConnection @@ FacadeTraffic @@ FacadePings @@
          FacadeRegistrations @@ FacadeData @@ FacadeSettings

\* The entries AttachRakNetHooks hooks, in its order, and what for.
HookEntries == <<
    <<1, "Connect">>, <<2, "Disconnect">>, <<7, "Send(char*)">>,
    <<6, "Send(BitStream*)">>, <<8, "Receive">>, <<26, "RPC(char*)">>,
    <<25, "RPC(BitStream*)">>, <<27, "RPC_">> >>

-----------------------------------------------------------------------------
NoCall == [wanted |-> "none", reached |-> "none", through |-> {}, answer |-> "none"]

\* The game's table agrees with what AttachRakNetHooks says of its entries:
\* "Hook Send (BitStream* version) - vtable[6]" and the seven like it.
Init ==
    /\ table \in {l \in Layouts : \A i \in DOMAIN HookEntries :
                     l[HookEntries[i][1]] = HookEntries[i][2]}
    /\ hooked = 0 /\ client = FALSE
    /\ call = NoCall

SetClient ==
    /\ ~client
    /\ client' = TRUE
    /\ UNCHANGED <<table, hooked, call>>

\* The next MH_CreateHook and MH_EnableHook succeed.  (They may fail: module
\* HookInstall.)
AttachHook ==
    /\ client
    /\ hooked < Len(HookEntries)
    /\ hooked' = hooked + 1
    /\ UNCHANGED <<table, client, call>>

GetOriginalRaw(i) == table[i]

HooksOn(i) == {HookEntries[k][2] : k \in {n \in 1..hooked : HookEntries[n][1] = i}}

\* A method of the wrapper casts the entry to its own type and calls it; a hook
\* on the function is entered first and passes the call on to it.
Through(f) == [wanted |-> f, reached |-> GetOriginalRaw(Entries[f]),
               through |-> HooksOn(Entries[f]), answer |-> "the game's"]

Call(f) ==
    /\ client
    /\ call' = Through(f)
    /\ UNCHANGED <<table, hooked, client>>

CallFacade(f) ==
    /\ call' = IF client THEN Through(f)
               ELSE [wanted |-> f, reached |-> "nothing", through |-> {},
                     answer |-> Facade[f]]
    /\ UNCHANGED <<table, hooked, client>>

Next ==
    \/ SetClient \/ AttachHook
    \/ \E f \in DOMAIN Entries : Call(f)
    \/ \E f \in DOMAIN Facade : CallFacade(f)

Spec == Init /\ [][Next]_vars

-----------------------------------------------------------------------------
(* A call through the wrapper or the facade arrives at the function it names, *)
(* and passes only the hook that is written for that function.  (The          *)
(* overloads of Send and RPC are called and hooked in the reverse of their    *)
(* declaration, as the comments of te-sdk.cpp:525 and 533 say the game has    *)
(* them; those of PingServer are called as declared.)                         *)
CallsReachTheirFunction ==
    call.reached \notin {"none", "nothing"} =>
        /\ call.reached = call.wanted
        /\ call.through \subseteq {call.wanted}
=============================================================================
