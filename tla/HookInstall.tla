----------------------------- MODULE HookInstall -----------------------------
(***************************************************************************)
(* InitRakNetHooks of te-sdk.cpp, called in a loop until it returns true,  *)
(* by one thread or by several, while the game loads and its network       *)
(* thread already runs through the hooks that are live.                    *)
(*                                                                         *)
(* MinHook is external: MH_CreateHook stores the original function and     *)
(* refuses a target it knows, MH_EnableHook patches the target; each call  *)
(* may fail.  A hook is live, for every thread, as soon as it is enabled.  *)
(***************************************************************************)
EXTENDS Naturals, Sequences

CONSTANTS
    Callers,        \* the threads that call InitRakNetHooks
    Clients,        \* addresses a TERakClient can be allocated at
    Null,           \* the null pointer
    MaxFaults,      \* bound: MinHook calls that fail for no fault of the SDK
    MaxOverlaps     \* bound: calls that begin during another (each may leak a
                    \* client, and every Allocate needs an address)

ASSUME InstallAssumption ==
    Null \notin Clients /\ MaxFaults \in Nat /\ MaxOverlaps \in Nat

\* The vtable functions in the order AttachRakNetHooks hooks them.
HookOrder == <<"Connect", "Disconnect", "Send_CharPtr", "Send_BitStream",
               "Receive", "RPC_CharPtr", "RPC_BitStream", "RPC_Extended">>

VtableHooks == {HookOrder[i] : i \in 1..Len(HookOrder)}
Hooks == VtableHooks \cup {"HandleRpcPacket"}

VARIABLES
    loaded,             \* samp.dll and its RakClient are there to be found
    supported,          \* IsSupportedSAMPVersion: incoming RPCs can be hooked
    LocalClient, live,  \* the global pointer, the clients not yet deleted
    pc, next,           \* per caller: where it stands; the hook it is at
    result,             \* per caller: what its last call returned
    mhInitialized, created, enabled, faults,    \* MinHook
    receiver, held,     \* the network thread in hkReceive; the client it read
    crashed,            \* a null or deleted pointer was used
    succeeded, aborted, \* history: a call returned true; a call gave up after
                        \* hooks had been made;
    overlaps            \* calls that passed the check of LocalClient during
                        \* another call

initThread == <<pc, next, result>>
minHook == <<mhInitialized, created, enabled, faults>>
network == <<receiver, held, crashed>>
client == <<LocalClient, live>>
game == <<loaded, supported>>
history == <<succeeded, aborted, overlaps>>
vars == <<game, client, initThread, minHook, network, history>>

TypeOK ==
    /\ loaded \in BOOLEAN /\ supported \in BOOLEAN
    /\ LocalClient \in Clients \cup {Null} /\ live \subseteq Clients
    /\ pc \in [Callers -> {"idle", "probe", "initialize", "create", "enable",
                           "delete", "reset", "createRpc", "enableRpc", "return"}]
    /\ next \in [Callers -> 1..Len(HookOrder)]
    /\ result \in [Callers -> {"none", "true", "false"}]
    /\ mhInitialized \in BOOLEAN
    /\ created \subseteq Hooks /\ enabled \subseteq created
    /\ faults \in 0..MaxFaults
    /\ receiver \in {"idle", "dispatch", "dealloc"}
    /\ held \in Clients \cup {Null}
    /\ crashed \in BOOLEAN /\ succeeded \in BOOLEAN /\ aborted \in BOOLEAN
    /\ overlaps \in 0..MaxOverlaps

Init ==
    /\ loaded = FALSE /\ supported \in BOOLEAN
    /\ LocalClient = Null /\ live = {}
    /\ pc = [t \in Callers |-> "idle"]
    /\ next = [t \in Callers |-> 1]
    /\ result = [t \in Callers |-> "none"]
    /\ mhInitialized = FALSE
    /\ created = {} /\ enabled = {} /\ faults = 0
    /\ receiver = "idle" /\ held = Null /\ crashed = FALSE
    /\ succeeded = FALSE /\ aborted = FALSE /\ overlaps = 0

-----------------------------------------------------------------------------
\* MinHook.
Fault == faults < MaxFaults /\ faults' = faults + 1
NoFault == UNCHANGED faults

\* Mutant: only MH_OK passes.
OnlyMhOk(ok) ==
    /\ ok = ~mhInitialized
    /\ mhInitialized' = TRUE /\ NoFault

\* if (MH_Initialize() != OK && MH_Initialize() != ALREADY_INITIALIZED): when
\* the first call fails and the second succeeds, that counts as a failure too.
MH_Initialize(ok) ==
    \/ ok = TRUE /\ mhInitialized' = TRUE /\ NoFault
    \/ ok = FALSE /\ ~mhInitialized /\ Fault /\ mhInitialized' \in BOOLEAN

CreateSucceeds(h) ==
    /\ h \notin created
    /\ created' = created \cup {h}
    /\ NoFault

CreateFails(h) ==
    /\ IF h \in created THEN NoFault ELSE Fault
    /\ UNCHANGED created

\* (MH_EnableHook refuses a target that was not created.)
Enable(h) == \/ enabled' = enabled \cup ({h} \cap created) /\ NoFault
             \/ UNCHANGED enabled /\ Fault

-----------------------------------------------------------------------------
\* The game finishes loading: all of the pointers the probe looks for exist.
GameLoads ==
    /\ ~loaded
    /\ loaded' = TRUE
    /\ UNCHANGED <<supported, client, initThread, minHook, network, history>>

At(t, label) == pc[t] = label /\ ~crashed
Move(t, label) == pc' = [pc EXCEPT ![t] = label]
Goto(t, label) == Move(t, label) /\ UNCHANGED <<next, result>>
Return(t, value) ==
    /\ Move(t, "idle")
    /\ result' = [result EXCEPT ![t] = value]
    /\ UNCHANGED next

\* Mutant: LocalClient is not looked at.
CallUnchecked(t) ==
    /\ At(t, "idle")
    /\ Goto(t, "probe")
    /\ IF \A u \in Callers : pc[u] = "idle" THEN UNCHANGED overlaps
       ELSE overlaps < MaxOverlaps /\ overlaps' = overlaps + 1
    /\ UNCHANGED <<game, client, minHook, network, succeeded, aborted>>

\* InitRakNetHooks is called, again and again until it has returned true and,
\* now and then, once more.
Call(t) ==
    /\ At(t, "idle")
    /\ IF LocalClient # Null THEN Return(t, "false") /\ UNCHANGED overlaps
       ELSE /\ Goto(t, "probe")
            /\ IF \A u \in Callers : pc[u] = "idle" THEN UNCHANGED overlaps
               ELSE overlaps < MaxOverlaps /\ overlaps' = overlaps + 1
    /\ UNCHANGED <<game, client, minHook, network, succeeded, aborted>>

\* Mutant: the hooks are attached before LocalClient is set.
AllocateLate(t) ==
    /\ At(t, "probe")
    /\ loaded
    /\ UNCHANGED client
    /\ Goto(t, "initialize")
    /\ UNCHANGED <<game, minHook, network, history>>

ProbeFails(t) ==
    /\ At(t, "probe")
    /\ ~loaded
    /\ Return(t, "false")
    /\ UNCHANGED <<game, client, minHook, network, history>>

\* Version, info, slot, client and vtable are found: LocalClient = new.
Allocate(t) ==
    /\ At(t, "probe")
    /\ loaded
    /\ \E c \in Clients \ live : LocalClient' = c /\ live' = live \cup {c}
    /\ Goto(t, "initialize")
    /\ UNCHANGED <<game, minHook, network, history>>

InitializeMinHook(t) ==
    /\ At(t, "initialize")
    /\ \/ /\ MH_Initialize(TRUE)
          /\ Move(t, "create") /\ next' = [next EXCEPT ![t] = 1]
       \/ MH_Initialize(FALSE) /\ Move(t, "delete") /\ UNCHANGED next
    /\ UNCHANGED <<result, game, client, created, enabled, network, history>>

\* Mutant: a failed MH_CreateHook is as little looked at as MH_EnableHook.
CreateHookUnchecked(t) ==
    /\ At(t, "create")
    /\ CreateSucceeds(HookOrder[next[t]]) \/ CreateFails(HookOrder[next[t]])
    /\ Goto(t, "enable")
    /\ UNCHANGED <<game, client, mhInitialized, enabled, network, history>>

\* A target that cannot be hooked ends the attempt; the hooks made so far stay.
CreateHook(t) ==
    /\ At(t, "create")
    /\ \/ CreateSucceeds(HookOrder[next[t]]) /\ Goto(t, "enable")
       \/ CreateFails(HookOrder[next[t]]) /\ Goto(t, "delete")
    /\ UNCHANGED <<game, client, mhInitialized, enabled, network, history>>

HooksLeft(t) == next[t] < Len(HookOrder)

\* The status of MH_EnableHook is not looked at.
EnableHook(t) ==
    /\ At(t, "enable")
    /\ Enable(HookOrder[next[t]])
    /\ IF HooksLeft(t)
       THEN /\ Move(t, "create") /\ next' = [next EXCEPT ![t] = @ + 1]
            /\ UNCHANGED result
       ELSE Goto(t, IF supported THEN "createRpc" ELSE "return")
    /\ UNCHANGED <<game, client, mhInitialized, created, network, history>>

\* Mutant: the cleanup only resets the pointer.
DeleteNothing(t) ==
    /\ At(t, "delete")
    /\ aborted' = (aborted \/ created # {})
    /\ Goto(t, "reset")
    /\ UNCHANGED <<game, client, minHook, network, succeeded, overlaps>>

\* delete LocalClient: null is not deleted, a deleted one must not be.
DeleteClient(t) ==
    /\ At(t, "delete")
    /\ aborted' = (aborted \/ created # {})
    /\ live' = live \ {LocalClient}
    /\ crashed' = (LocalClient \notin live \cup {Null})
    /\ Goto(t, "reset")
    /\ UNCHANGED <<game, LocalClient, minHook, receiver, held, succeeded, overlaps>>

ResetClient(t) ==
    /\ At(t, "reset")
    /\ LocalClient' = Null
    /\ Return(t, "false")
    /\ UNCHANGED <<game, live, minHook, network, history>>

\* AttachHandleRpcPacketHook: MinHook is initialized by now, both calls of
\* MH_Initialize say so; what fails here is only logged.
CreateRpcHook(t) ==
    /\ At(t, "createRpc")
    /\ \/ CreateSucceeds("HandleRpcPacket") /\ Goto(t, "enableRpc")
       \/ CreateFails("HandleRpcPacket") /\ Goto(t, "return")
    /\ UNCHANGED <<game, client, mhInitialized, enabled, network, history>>

EnableRpcHook(t) ==
    /\ At(t, "enableRpc")
    /\ Enable("HandleRpcPacket")
    /\ Goto(t, "return")
    /\ UNCHANGED <<game, client, mhInitialized, created, network, history>>

ReturnTrue(t) ==
    /\ At(t, "return")
    /\ Return(t, "true")
    /\ succeeded' = TRUE
    /\ UNCHANGED <<game, client, minHook, network, aborted, overlaps>>

-----------------------------------------------------------------------------
\* The network thread.
\* hkReceive gets a packet from the original Receive and dispatches it.
EnterReceive ==
    /\ ~crashed
    /\ "Receive" \in enabled
    /\ receiver = "idle"
    /\ receiver' = "dispatch"
    /\ UNCHANGED <<game, client, initThread, minHook, held, crashed, history>>

Deliver ==
    /\ ~crashed
    /\ receiver = "dispatch"
    /\ receiver' = "idle"
    /\ UNCHANGED <<game, client, initThread, minHook, held, crashed, history>>

\* The packet was refused: LocalClient is read ...
ReadClient ==
    /\ ~crashed
    /\ receiver = "dispatch"
    /\ held' = LocalClient
    /\ receiver' = "dealloc"
    /\ UNCHANGED <<game, client, initThread, minHook, crashed, history>>

\* ... and used, null, deleted or alive: DeallocatePacket reads its vtable.
UseClient ==
    /\ ~crashed
    /\ receiver = "dealloc"
    /\ held' = Null
    /\ IF held \in live
       THEN receiver' = "dispatch" /\ UNCHANGED crashed
       ELSE crashed' = TRUE /\ UNCHANGED receiver
    /\ UNCHANGED <<game, client, initThread, minHook, history>>

Dead == crashed /\ UNCHANGED vars

InitThreadStep(t) ==
    \/ ProbeFails(t) \/ Allocate(t) \/ InitializeMinHook(t)
    \/ CreateHook(t) \/ EnableHook(t) \/ DeleteClient(t) \/ ResetClient(t)
    \/ CreateRpcHook(t) \/ EnableRpcHook(t) \/ ReturnTrue(t)

Next ==
    \/ GameLoads
    \/ \E t \in Callers :
          \/ Call(t) \/ ProbeFails(t) \/ Allocate(t) \/ InitializeMinHook(t)
          \/ CreateHook(t) \/ EnableHook(t) \/ DeleteClient(t) \/ ResetClient(t)
          \/ CreateRpcHook(t) \/ EnableRpcHook(t) \/ ReturnTrue(t)
    \/ EnterReceive \/ Deliver \/ ReadClient \/ UseClient
    \/ Dead

Spec == Init /\ [][Next]_vars

\* The game loads in the end; threads inside InitRakNetHooks keep running, and
\* somebody calls it again for as long as it has not returned true.
FairSpec ==
    /\ Spec
    /\ WF_vars(GameLoads)
    /\ \A t \in Callers : WF_vars(InitThreadStep(t))
    /\ WF_vars(~succeeded /\ \E t \in Callers : Call(t))

-----------------------------------------------------------------------------
overlapped == overlaps > 0

(* hkReceive frees a refused packet through LocalClient while another thread  *)
(* installs the hooks.  The pointer it uses is a live client at every moment  *)
(* of the installation, unless an attempt was given up half way: then Receive *)
(* stays hooked with LocalClient null or deleted.  Or two threads have passed *)
(* te-sdk.cpp:583 together: one deletes the other's client, or both the same. *)
CrashNeedsAbortedAttach == crashed => aborted \/ overlapped

(* InitRakNetHooks owns one TERakClient or none: between calls LocalClient is  *)
(* the only client alive, however many attempts failed before and whoever      *)
(* made them, if no two of them were at it together.                           *)
NoClientLeaked ==
    (~overlapped /\ \A t \in Callers : pc[t] = "idle") =>
        live = IF LocalClient = Null THEN {} ELSE {LocalClient}

(* A call that returned true left all eight functions known to MinHook,        *)
(* whatever was tried before or at the same time, and enabled if MinHook never *)
(* failed (te-sdk.cpp:515 does not look); and a live client, unless a call at  *)
(* the same time has taken that away.                                          *)
SuccessIsComplete ==
    succeeded => /\ VtableHooks \subseteq created
                 /\ faults = 0 => VtableHooks \subseteq enabled
                 /\ LocalClient \in live \/ overlapped

(* Of all calls, retries and calls at the same time too, one returns true:     *)
(* each function is hooked once, so nobody else gets to the end.               *)
SucceedsOnce == [][\A t \in Callers : ReturnTrue(t) => ~succeeded]_vars

(* The retry loop of the README ends with success, or an attempt failed after *)
(* it had made hooks, or attempts at the same time brought the process down:  *)
(* all other failures are retried.                                            *)
LoopEndsUnlessAborted == <>(succeeded \/ aborted \/ (overlapped /\ crashed))
=============================================================================
