--------------------------- MODULE HookInstallProofs ---------------------------
(***************************************************************************)
(* The installation of the hooks, for any set of callers, any addresses    *)
(* and any number of faults and overlaps.  The invariant has two halves:   *)
(* what the hooks are, whoever calls, and what the client is, as long as   *)
(* no two calls have overlapped.                                           *)
(***************************************************************************)
EXTENDS HookInstall, TLAPS

Order == 1..Len(HookOrder)

\* Hooked, and live unless MinHook failed at some time.
Made(h) == h \in created /\ (faults = 0 => h \in enabled)

\* Each caller has made the hooks before the one it is at.
PrefixIsMade ==
    /\ \A t \in Callers :
          /\ pc[t] \in {"create", "enable"} =>
                 \A i \in Order : i < next[t] => Made(HookOrder[i])
          /\ pc[t] = "enable" => HookOrder[next[t]] \in created
          /\ pc[t] \in {"createRpc", "enableRpc", "return"} =>
                 \A i \in Order : Made(HookOrder[i])
    /\ succeeded => \A i \in Order : Made(HookOrder[i])

\* Past the creation of the first hook.
Attaching(t) ==
    \/ pc[t] = "create" /\ next[t] > 1
    \/ pc[t] \in {"enable", "createRpc", "enableRpc", "return"}

\* MinHook knows a target once: one caller ever gets past the first hook.
OneAttaches ==
    /\ \A t \in Callers : Attaching(t) => ~succeeded /\ HookOrder[1] \in created
    /\ \A t, u \in Callers : Attaching(t) /\ Attaching(u) => t = u
    /\ succeeded => HookOrder[1] \in created

HooksInv == TypeOK /\ PrefixIsMade /\ OneAttaches

-----------------------------------------------------------------------------
\* The tuple of the hooks, as a function.
LEMMA HookOrderType ==
    /\ Len(HookOrder) = 8
    /\ \A i \in Order : HookOrder[i] \in Hooks
    /\ VtableHooks = {HookOrder[i] : i \in Order}
    /\ "HandleRpcPacket" \in Hooks
<1>1. Len(HookOrder) = 8 BY DEF HookOrder
<1> QED BY <1>1 DEF Order, VtableHooks, Hooks

LEMMA TypeStep == TypeOK /\ [Next]_vars => TypeOK'
<1> SUFFICES ASSUME TypeOK, [Next]_vars PROVE TypeOK' OBVIOUS
<1> USE InstallAssumption, HookOrderType
        DEF TypeOK, At, Goto, Move, Return, initThread, minHook, network, client,
            game, history, NoFault, Order
<1>1. CASE UNCHANGED vars BY <1>1 DEF vars
<1>2. CASE Dead BY <1>2 DEF Dead, vars
<1>3. CASE GameLoads BY <1>3 DEF GameLoads
<1>4. ASSUME NEW t \in Callers, Call(t) PROVE TypeOK'
  <2>1. overlaps' \in 0..MaxOverlaps BY <1>4 DEF Call
  <2>2. CASE LocalClient # Null BY <1>4, <2>1, <2>2 DEF Call
  <2>3. CASE LocalClient = Null BY <1>4, <2>1, <2>3 DEF Call
  <2> QED BY <2>2, <2>3
<1>5. ASSUME NEW t \in Callers, ProbeFails(t) PROVE TypeOK' BY <1>5 DEF ProbeFails
<1>6. ASSUME NEW t \in Callers, Allocate(t) PROVE TypeOK' BY <1>6 DEF Allocate
<1>7. ASSUME NEW t \in Callers, InitializeMinHook(t) PROVE TypeOK'
  <2>1. faults' \in 0..MaxFaults
    BY <1>7 DEF InitializeMinHook, MH_Initialize, Fault
  <2>2. mhInitialized' \in BOOLEAN BY <1>7 DEF InitializeMinHook, MH_Initialize
  <2>3. next' \in [Callers -> 1..Len(HookOrder)]
    <3>1. next' \in {next, [next EXCEPT ![t] = 1]} BY <1>7 DEF InitializeMinHook
    <3> QED BY <3>1
  <2>4. pc' \in {[pc EXCEPT ![t] = "create"], [pc EXCEPT ![t] = "delete"]}
    BY <1>7 DEF InitializeMinHook
  <2> QED BY <1>7, <2>1, <2>2, <2>3, <2>4 DEF InitializeMinHook
<1>8. ASSUME NEW t \in Callers, CreateHook(t) PROVE TypeOK'
  <2>1. faults' \in 0..MaxFaults
    BY <1>8 DEF CreateHook, CreateSucceeds, CreateFails, Fault
  <2>2. HookOrder[next[t]] \in Hooks OBVIOUS
  <2>3. created' \subseteq Hooks /\ created \subseteq created'
    BY <1>8, <2>2 DEF CreateHook, CreateSucceeds, CreateFails
  <2> QED BY <1>8, <2>1, <2>3 DEF CreateHook
<1>9. ASSUME NEW t \in Callers, EnableHook(t) PROVE TypeOK'
  <2>1. faults' \in 0..MaxFaults BY <1>9 DEF EnableHook, Enable, Fault
  <2>2. enabled' \subseteq created BY <1>9 DEF EnableHook, Enable
  <2>3. next' \in [Callers -> 1..Len(HookOrder)]
    BY <1>9 DEF EnableHook, HooksLeft
  <2> QED BY <1>9, <2>1, <2>2, <2>3 DEF EnableHook
<1>10. ASSUME NEW t \in Callers, DeleteClient(t) PROVE TypeOK'
  BY <1>10 DEF DeleteClient
<1>11. ASSUME NEW t \in Callers, ResetClient(t) PROVE TypeOK'
  BY <1>11 DEF ResetClient
<1>12. ASSUME NEW t \in Callers, CreateRpcHook(t) PROVE TypeOK'
  <2>1. faults' \in 0..MaxFaults
    BY <1>12 DEF CreateRpcHook, CreateSucceeds, CreateFails, Fault
  <2>2. created' \subseteq Hooks /\ created \subseteq created'
    BY <1>12 DEF CreateRpcHook, CreateSucceeds, CreateFails
  <2> QED BY <1>12, <2>1, <2>2 DEF CreateRpcHook
<1>13. ASSUME NEW t \in Callers, EnableRpcHook(t) PROVE TypeOK'
  <2>1. faults' \in 0..MaxFaults BY <1>13 DEF EnableRpcHook, Enable, Fault
  <2>2. enabled' \subseteq created BY <1>13 DEF EnableRpcHook, Enable
  <2> QED BY <1>13, <2>1, <2>2 DEF EnableRpcHook
<1>14. ASSUME NEW t \in Callers, ReturnTrue(t) PROVE TypeOK'
  BY <1>14 DEF ReturnTrue
<1>15. CASE EnterReceive \/ Deliver \/ ReadClient \/ UseClient
  BY <1>15 DEF EnterReceive, Deliver, ReadClient, UseClient
<1> QED BY <1>1, <1>2, <1>3, <1>4, <1>5, <1>6, <1>7, <1>8, <1>9, <1>10, <1>11,
           <1>12, <1>13, <1>14, <1>15
        DEF Next

-----------------------------------------------------------------------------
\* What a step that moves one caller leaves of the others' hooks.
LEMMA HooksStep == HooksInv /\ [Next]_vars => (PrefixIsMade /\ OneAttaches)'
<1> SUFFICES ASSUME HooksInv, [Next]_vars PROVE (PrefixIsMade /\ OneAttaches)'
  OBVIOUS
<1> USE HookOrderType
        DEF HooksInv, PrefixIsMade, OneAttaches, Attaching, Made, TypeOK, At, Goto,
            Move, Return, initThread, minHook, network, client, game, history,
            NoFault, Order
<1>1. CASE UNCHANGED vars \/ Dead BY <1>1 DEF vars, Dead
<1>2. CASE GameLoads BY <1>2 DEF GameLoads
<1>3. ASSUME NEW t \in Callers, Call(t) PROVE (PrefixIsMade /\ OneAttaches)'
  BY <1>3 DEF Call
<1>4. ASSUME NEW t \in Callers, ProbeFails(t) \/ Allocate(t)
      PROVE  (PrefixIsMade /\ OneAttaches)'
  BY <1>4 DEF ProbeFails, Allocate
<1>5. ASSUME NEW t \in Callers, InitializeMinHook(t)
      PROVE  (PrefixIsMade /\ OneAttaches)'
  <2>1. faults' = 0 => faults = 0
    BY <1>5 DEF InitializeMinHook, MH_Initialize, Fault
  <2>2. CASE Move(t, "create") /\ next' = [next EXCEPT ![t] = 1]
    BY <1>5, <2>1, <2>2 DEF InitializeMinHook
  <2>3. CASE Move(t, "delete") /\ UNCHANGED next
    BY <1>5, <2>1, <2>3 DEF InitializeMinHook
  <2> QED BY <1>5, <2>2, <2>3 DEF InitializeMinHook
<1>6. ASSUME NEW t \in Callers, CreateHook(t) PROVE (PrefixIsMade /\ OneAttaches)'
  <2>1. faults' = 0 => faults = 0
    BY <1>6 DEF CreateHook, CreateSucceeds, CreateFails, Fault
  <2>2. CASE CreateSucceeds(HookOrder[next[t]]) /\ Goto(t, "enable")
    <3>1. PrefixIsMade' BY <1>6, <2>1, <2>2 DEF CreateHook, CreateSucceeds
    <3>2. OneAttaches'
      <4>1. CASE next[t] = 1 BY <1>6, <2>2, <4>1 DEF CreateHook, CreateSucceeds
      <4>2. CASE next[t] > 1 BY <1>6, <2>2, <4>2 DEF CreateHook, CreateSucceeds
      <4> QED BY <4>1, <4>2
    <3> QED BY <3>1, <3>2
  <2>3. CASE CreateFails(HookOrder[next[t]]) /\ Goto(t, "delete")
    BY <1>6, <2>1, <2>3 DEF CreateHook, CreateFails
  <2> QED BY <1>6, <2>2, <2>3 DEF CreateHook
<1>7. ASSUME NEW t \in Callers, EnableHook(t) PROVE (PrefixIsMade /\ OneAttaches)'
  <2>1. /\ faults' = 0 => faults = 0 /\ HookOrder[next[t]] \in enabled'
        /\ enabled \subseteq enabled'
    BY <1>7 DEF EnableHook, Enable, Fault
  <2>2. CASE HooksLeft(t) BY <1>7, <2>1, <2>2 DEF EnableHook, HooksLeft
  <2>3. CASE ~HooksLeft(t) BY <1>7, <2>1, <2>3 DEF EnableHook, HooksLeft
  <2> QED BY <2>2, <2>3
<1>8. ASSUME NEW t \in Callers, DeleteClient(t) \/ ResetClient(t)
      PROVE  (PrefixIsMade /\ OneAttaches)'
  BY <1>8 DEF DeleteClient, ResetClient
<1>9. ASSUME NEW t \in Callers, CreateRpcHook(t)
      PROVE  (PrefixIsMade /\ OneAttaches)'
  <2>1. /\ faults' = 0 => faults = 0
        /\ created \subseteq created'
    BY <1>9 DEF CreateRpcHook, CreateSucceeds, CreateFails, Fault
  <2> QED BY <1>9, <2>1 DEF CreateRpcHook
<1>10. ASSUME NEW t \in Callers, EnableRpcHook(t)
       PROVE  (PrefixIsMade /\ OneAttaches)'
  <2>1. /\ faults' = 0 => faults = 0
        /\ enabled \subseteq enabled'
    BY <1>10 DEF EnableRpcHook, Enable, Fault
  <2> QED BY <1>10, <2>1 DEF EnableRpcHook
<1>11. ASSUME NEW t \in Callers, ReturnTrue(t) PROVE (PrefixIsMade /\ OneAttaches)'
  BY <1>11 DEF ReturnTrue
<1>12. CASE EnterReceive \/ Deliver \/ ReadClient \/ UseClient
  BY <1>12 DEF EnterReceive, Deliver, ReadClient, UseClient
<1> QED BY <1>1, <1>2, <1>3, <1>4, <1>5, <1>6, <1>7, <1>8, <1>9, <1>10, <1>11,
           <1>12
        DEF Next

-----------------------------------------------------------------------------
\* Without an overlap one call at most is under way, and the client is what its
\* place says.
ClientMatchesPlace ==
    /\ \A t, u \in Callers : pc[t] # "idle" /\ pc[u] # "idle" => t = u
    /\ (\A t \in Callers : pc[t] = "idle") =>
           live = IF LocalClient = Null THEN {} ELSE {LocalClient}
    /\ \A t \in Callers :
          /\ pc[t] = "probe" => LocalClient = Null /\ live = {}
          /\ pc[t] \in {"initialize", "create", "enable", "createRpc", "enableRpc",
                        "return", "delete"} =>
                 LocalClient # Null /\ live = {LocalClient}
          /\ pc[t] = "reset" => live = {}
    /\ succeeded => LocalClient # Null /\ \A t \in Callers : pc[t] = "idle"

\* Without an aborted attempt either, live hooks have a live client.
LiveHooksHaveAClient ==
    /\ created # {} => LocalClient \in live
    /\ receiver # "idle" => created # {}
    /\ receiver = "dealloc" => held = LocalClient

ClientInv ==
    /\ TypeOK
    /\ ~overlapped => ClientMatchesPlace
    /\ ~overlapped /\ ~aborted => LiveHooksHaveAClient /\ ~crashed

\* The client, one action at a time.
LEMMA ClientStep == ClientInv /\ [Next]_vars => ClientInv'
<1> SUFFICES ASSUME ClientInv, [Next]_vars, ~overlapped'
             PROVE  /\ ClientMatchesPlace'
                    /\ ~aborted' => LiveHooksHaveAClient' /\ ~crashed'
  BY TypeStep DEF ClientInv
<1> DEFINE Goal == /\ ClientMatchesPlace'
                   /\ ~aborted' => LiveHooksHaveAClient' /\ ~crashed'
<1> USE InstallAssumption
        DEF ClientInv, ClientMatchesPlace, LiveHooksHaveAClient, TypeOK, At, Goto,
            Move, Return, initThread, minHook, network, client, game, history,
            overlapped
<1>1. CASE UNCHANGED vars \/ Dead BY <1>1 DEF vars, Dead
<1>2. CASE GameLoads BY <1>2 DEF GameLoads
<1>3. ASSUME NEW t \in Callers, Call(t) PROVE Goal
  <2>1. CASE LocalClient # Null BY <1>3, <2>1 DEF Call
  <2>2. CASE LocalClient = Null
    <3>1. \A u \in Callers : pc[u] = "idle" BY <1>3, <2>2 DEF Call
    <3> QED BY <1>3, <2>2, <3>1 DEF Call
  <2> QED BY <2>1, <2>2
<1>4. ASSUME NEW t \in Callers, ProbeFails(t) PROVE Goal
  BY <1>4 DEF ProbeFails
<1>5. ASSUME NEW t \in Callers, Allocate(t) PROVE Goal
  BY <1>5 DEF Allocate
<1>6. ASSUME NEW t \in Callers, InitializeMinHook(t) PROVE Goal
  <2>1. pc' \in {[pc EXCEPT ![t] = "create"], [pc EXCEPT ![t] = "delete"]}
    BY <1>6 DEF InitializeMinHook
  <2> QED BY <1>6, <2>1 DEF InitializeMinHook
<1>7. ASSUME NEW t \in Callers, CreateHook(t) PROVE Goal
  <2>1. pc' \in {[pc EXCEPT ![t] = "enable"], [pc EXCEPT ![t] = "delete"]}
    BY <1>7 DEF CreateHook
  <2>2. created \subseteq created' BY <1>7 DEF CreateHook, CreateSucceeds, CreateFails
  <2> QED BY <1>7, <2>1, <2>2 DEF CreateHook
<1>8. ASSUME NEW t \in Callers, EnableHook(t) PROVE Goal
  <2>1. pc' \in {[pc EXCEPT ![t] = "create"], [pc EXCEPT ![t] = "createRpc"],
                 [pc EXCEPT ![t] = "return"]}
    BY <1>8 DEF EnableHook
  <2> QED BY <1>8, <2>1 DEF EnableHook
<1>9. ASSUME NEW t \in Callers, DeleteClient(t) PROVE Goal
  BY <1>9 DEF DeleteClient
<1>10. ASSUME NEW t \in Callers, ResetClient(t) PROVE Goal
  BY <1>10 DEF ResetClient
<1>11. ASSUME NEW t \in Callers, CreateRpcHook(t) PROVE Goal
  <2>1. pc' \in {[pc EXCEPT ![t] = "enableRpc"], [pc EXCEPT ![t] = "return"]}
    BY <1>11 DEF CreateRpcHook
  <2>2. created \subseteq created'
    BY <1>11 DEF CreateRpcHook, CreateSucceeds, CreateFails
  <2> QED BY <1>11, <2>1, <2>2 DEF CreateRpcHook
<1>12. ASSUME NEW t \in Callers, EnableRpcHook(t) PROVE Goal
  BY <1>12 DEF EnableRpcHook
<1>13. ASSUME NEW t \in Callers, ReturnTrue(t) PROVE Goal
  BY <1>13 DEF ReturnTrue
<1>14. CASE EnterReceive \/ Deliver \/ ReadClient \/ UseClient
  BY <1>14 DEF EnterReceive, Deliver, ReadClient, UseClient
<1> QED BY <1>1, <1>2, <1>3, <1>4, <1>5, <1>6, <1>7, <1>8, <1>9, <1>10, <1>11,
           <1>12, <1>13, <1>14
        DEF Next

-----------------------------------------------------------------------------
IInv == HooksInv /\ ClientInv

\* Nothing is hooked, and there is no client.
LEMMA InitIInv == Init => IInv
<1> SUFFICES ASSUME Init PROVE IInv OBVIOUS
<1>1. TypeOK
  <2>1. 0 \in 0..MaxFaults /\ 0 \in 0..MaxOverlaps BY InstallAssumption
  <2>2. 1 \in 1..Len(HookOrder) BY HookOrderType
  <2> QED BY <2>1, <2>2 DEF Init, TypeOK
<1>2. PrefixIsMade /\ OneAttaches BY DEF Init, PrefixIsMade, OneAttaches, Attaching
<1>3. ClientMatchesPlace /\ LiveHooksHaveAClient /\ ~crashed
  BY DEF Init, ClientMatchesPlace, LiveHooksHaveAClient
<1> QED BY <1>1, <1>2, <1>3 DEF IInv, HooksInv, ClientInv

(* Both halves hold in every state the installation can reach. *)
THEOREM Invariance == Spec => []IInv
<1>1. IInv /\ [Next]_vars => IInv'
  BY TypeStep, HooksStep, ClientStep DEF IInv, HooksInv
<1> QED BY InitIInv, <1>1, PTL DEF Spec

-----------------------------------------------------------------------------
(* hkReceive uses a null or deleted client only after an attempt was given up *)
(* with hooks made, or after two calls passed te-sdk.cpp:583 together.        *)
THEOREM CrashIsExplained == Spec => []CrashNeedsAbortedAttach
<1>1. IInv => CrashNeedsAbortedAttach
  BY DEF IInv, ClientInv, CrashNeedsAbortedAttach
<1> QED BY <1>1, Invariance, PTL

(* Attempts that fail leave no client behind. *)
THEOREM OneClientOrNone == Spec => []NoClientLeaked
<1>1. IInv => NoClientLeaked
  BY DEF IInv, ClientInv, ClientMatchesPlace, NoClientLeaked
<1> QED BY <1>1, Invariance, PTL

(* A call that returned true has hooked all eight functions. *)
THEOREM SuccessHooksAll == Spec => []SuccessIsComplete
<1>1. IInv => SuccessIsComplete
  <2> SUFFICES ASSUME IInv, succeeded PROVE SuccessIsComplete
    BY DEF SuccessIsComplete
  <2>1. \A i \in Order : Made(HookOrder[i])
    BY DEF IInv, HooksInv, PrefixIsMade
  <2>2. VtableHooks \subseteq created /\ (faults = 0 => VtableHooks \subseteq enabled)
    BY <2>1, HookOrderType DEF Made
  <2>3. LocalClient \in live \/ overlapped
    BY DEF IInv, ClientInv, ClientMatchesPlace
  <2> QED BY <2>2, <2>3 DEF SuccessIsComplete
<1> QED BY <1>1, Invariance, PTL

(* Of any number of callers, however their calls overlap, one is told true,   *)
(* since MinHook lets one of them past the first function.                    *)
THEOREM OneSuccess == Spec => SucceedsOnce
<1> DEFINE Once == \A t \in Callers : ReturnTrue(t) => ~succeeded
<1>1. IInv /\ [Next]_vars => [Once]_vars
  BY DEF IInv, HooksInv, OneAttaches, Attaching, ReturnTrue, At
<1> QED BY <1>1, Invariance, PTL DEF Spec, SucceedsOnce
=============================================================================
