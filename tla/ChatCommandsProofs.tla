-------------------------- MODULE ChatCommandsProofs --------------------------
(***************************************************************************)
(* The two mutexes, the hook and the table of the chat commands, for any   *)
(* set of threads and of commands.                                         *)
(***************************************************************************)
EXTENDS ChatCommands, TLAPS

\* Nothing is in the table, or on its way there, before the hook is in place.
HookBeforeTable ==
    /\ installed => created /\ enabled
    /\ registered # {} => installed
    /\ \A t \in Threads :
          /\ pc[t] \in {"enable", "setFlag"} => created
          /\ pc[t] = "setFlag" => enabled
          /\ pc[t] \in {"insert", "callback", "send", "dispatch"} => installed

\* What was promised is in the table, and what was promised when a command was
\* typed is past the lookup only if it is not that command.
PromisesAreKept ==
    /\ promised = registered
    /\ \A t \in Threads :
          /\ known[t] \subseteq promised
          /\ pc[t] = "sendByAddress" => known[t] = {}
          /\ pc[t] = "forward" => Lower[command[t]] \notin known[t]

IInv == LocksMatchPlaces /\ HookBeforeTable /\ PromisesAreKept

-----------------------------------------------------------------------------
\* No mutex is held, no command is registered.
LEMMA InitIInv == Init => IInv
<1> SUFFICES ASSUME Init PROVE IInv OBVIOUS
<1> USE ChatAssumption DEF Init
<1>1. 0 \in 0..MaxFaults OBVIOUS
<1>2. (CHOOSE c \in Commands : TRUE) \in Commands OBVIOUS
<1>3. command \in [Threads -> Commands] BY <1>2
<1>4. TypeOK BY <1>1, <1>3 DEF TypeOK
<1>5. LocksMatchPlaces BY <1>4 DEF LocksMatchPlaces
<1>6. HookBeforeTable BY DEF HookBeforeTable
<1>7. PromisesAreKept BY DEF PromisesAreKept
<1> QED BY <1>5, <1>6, <1>7 DEF IInv

\* Every step keeps the invariant, one action at a time.
LEMMA NextIInv == IInv /\ [Next]_vars => IInv'
<1> SUFFICES ASSUME IInv, [Next]_vars PROVE IInv' OBVIOUS
<1> USE ChatAssumption
        DEF IInv, LocksMatchPlaces, TypeOK, HookBeforeTable, PromisesAreKept,
            Goto, hook, table, locks
<1>1. CASE UNCHANGED vars BY <1>1 DEF vars
<1>2. CASE Hung BY <1>2 DEF Hung, vars
<1>3. ASSUME NEW t \in Threads, NEW c \in Commands, CallRegister(t, c) PROVE IInv'
  BY <1>3 DEF CallRegister
<1>4. ASSUME NEW t \in Threads, NEW c \in Commands, Type(t, c) PROVE IInv'
  BY <1>4 DEF Type
<1>5. ASSUME NEW t \in Threads, NEW c \in Commands, CallSend(t, c) PROVE IInv'
  BY <1>5 DEF CallSend
<1>6. ASSUME NEW t \in Threads, NEW c \in Commands, CallbackRegisters(t, c)
      PROVE  IInv'
  <2>1. pc[t] \in {"callback", "dispatch"} /\ installed
        /\ UNCHANGED <<hook, command, known>>
    BY <1>6 DEF CallbackRegisters
  <2>2. CASE Goto(t, "hung") /\ UNCHANGED <<locks, table>> BY <2>1, <2>2
  <2>3. CASE /\ Goto(t, "idle")
             /\ owner' = NoThread
             /\ rakOwner' = IF rakOwner = t /\ t \notin inRak THEN NoThread
                            ELSE rakOwner
             /\ UNCHANGED <<inRak, table>>
    BY <2>1, <2>3
  <2>4. CASE /\ registered' = registered \cup {RegisteredAs(c)}
             /\ promised' = promised \cup {Lower[c]}
             /\ UNCHANGED <<locks, pc>>
    <3>1. Lower[c] \in {Lower[d] : d \in Commands} OBVIOUS
    <3>2. TypeOK' BY <2>1, <2>4, <3>1 DEF RegisteredAs
    <3>3. LocksMatchPlaces' BY <2>1, <2>4, <3>2
    <3>4. HookBeforeTable' BY <2>1, <2>4
    <3>5. PromisesAreKept'
      <4>1. registered' = promised' BY <2>4 DEF RegisteredAs
      <4>2. \A u \in Threads : pc[u] = "forward" => Lower[command[u]] \notin known[u]
        OBVIOUS
      <4> QED BY <2>1, <2>4, <4>1, <4>2
    <3> QED BY <3>3, <3>4, <3>5
  <2> QED BY <1>6, <2>2, <2>3, <2>4 DEF CallbackRegisters
<1>7. ASSUME NEW t \in Threads, CheckInstalled(t) PROVE IInv'
  BY <1>7 DEF CheckInstalled
<1>8. ASSUME NEW t \in Threads, CreateHook(t) PROVE IInv'
  <2>1. faults' \in 0..MaxFaults BY <1>8 DEF CreateHook, Fault
  <2> QED BY <1>8, <2>1 DEF CreateHook
<1>9. ASSUME NEW t \in Threads, EnableHook(t) PROVE IInv'
  <2>1. faults' \in 0..MaxFaults BY <1>9 DEF EnableHook, Fault
  <2> QED BY <1>9, <2>1 DEF EnableHook
<1>10. ASSUME NEW t \in Threads, SetInstalled(t) PROVE IInv'
  BY <1>10 DEF SetInstalled
<1>11. ASSUME NEW t \in Threads, Insert(t) PROVE IInv'
  <2>1. Lower[command[t]] \in {Lower[c] : c \in Commands} OBVIOUS
  <2>2. TypeOK' BY <1>11, <2>1 DEF Insert, RegisteredAs
  <2>3. LocksMatchPlaces' BY <1>11, <2>2 DEF Insert
  <2>4. HookBeforeTable' BY <1>11 DEF Insert
  <2>5. PromisesAreKept' BY <1>11 DEF Insert, RegisteredAs
  <2> QED BY <2>3, <2>4, <2>5
<1>12. ASSUME NEW t \in Threads, SendByAddress(t) PROVE IInv'
  BY <1>12 DEF SendByAddress
<1>13. ASSUME NEW t \in Threads, LookupHit(t) PROVE IInv'
  BY <1>13 DEF LookupHit
<1>14. ASSUME NEW t \in Threads, LookupMiss(t) PROVE IInv'
  BY <1>14 DEF LookupMiss
<1>15. ASSUME NEW t \in Threads, Forward(t) PROVE IInv'
  BY <1>15 DEF Forward
<1>16. ASSUME NEW t \in Threads, CallbackEnds(t) PROVE IInv'
  BY <1>16 DEF CallbackEnds
<1>17. ASSUME NEW t \in Threads, Dispatch(t) PROVE IInv'
  BY <1>17 DEF Dispatch
<1>18. ASSUME NEW t \in Threads, DispatchEnds(t) PROVE IInv'
  BY <1>18 DEF DispatchEnds
<1>19. ASSUME NEW t \in Threads, CallbackSends(t) PROVE IInv'
  BY <1>19 DEF CallbackSends
<1>20. ASSUME NEW t \in Threads, EnterDispatch(t) PROVE IInv'
  BY <1>20 DEF EnterDispatch
<1>21. ASSUME NEW t \in Threads, LeaveDispatch(t) PROVE IInv'
  BY <1>21 DEF LeaveDispatch
<1> QED BY <1>1, <1>2, <1>3, <1>4, <1>5, <1>6, <1>7, <1>8, <1>9, <1>10, <1>11, <1>12, <1>13, <1>14, <1>15, <1>16, <1>17, <1>18, <1>19, <1>20, <1>21 DEF Next

(* The invariant holds in every state the commands can reach. *)
THEOREM Invariance == Spec => []IInv
<1> QED BY InitIInv, NextIInv, PTL DEF Spec

-----------------------------------------------------------------------------
(* g_cmdMutex and g_mutex are each held by the thread that is past its        *)
(* lock_guard and by no other, for every nesting of commands' callbacks and   *)
(* dispatches.                                                                *)
THEOREM LocksAreMatched == Spec => []LocksMatchPlaces
<1>1. IInv => LocksMatchPlaces BY DEF IInv
<1> QED BY <1>1, Invariance, PTL

(* Whatever a callback sends goes to the original, not to hkSendCmd.          *)
THEOREM SendsGoToTheOriginal == Spec => []CallbacksSendToTheOriginal
<1>1. IInv => CallbacksSendToTheOriginal
  BY DEF IInv, HookBeforeTable, CallbacksSendToTheOriginal
<1> QED BY <1>1, Invariance, PTL

(* A command is forwarded only if it was not registered when it was typed.    *)
THEOREM NeverForwarded == Spec => RegisteredIsNeverForwarded
<1> DEFINE Kept == \A t \in Threads : Forward(t) => Lower[command[t]] \notin known[t]
<1>1. IInv /\ [Next]_vars => [Kept]_vars
  BY DEF IInv, PromisesAreKept, Forward
<1> QED BY <1>1, Invariance, PTL DEF Spec, RegisteredIsNeverForwarded
=============================================================================
