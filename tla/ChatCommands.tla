---------------------------- MODULE ChatCommands ----------------------------
(***************************************************************************)
(* RegisterChatCommand, hkSendCmd and SendCommand of te-samp.cpp: a map of *)
(* commands behind a std::mutex, and a hook on SA-MP's command sender that *)
(* the first registration installs.  Its callbacks run with that mutex     *)
(* held, and may send through LocalClient, whose dispatch takes g_mutex;   *)
(* RakNet callbacks run with g_mutex held (module HookForwarder), and may  *)
(* register and send commands.                                             *)
(*                                                                         *)
(* MinHook is external, as in HookInstall; MH_Initialize passes.  Commands *)
(* are what is typed; Lower is the name the code compares.                 *)
(***************************************************************************)
EXTENDS Naturals

CONSTANTS
    Threads,
    NoThread,
    Commands,
    Lower,          \* Lower[c]: the name of command c in lower case
    MaxFaults       \* bound: MinHook calls that fail

ASSUME ChatAssumption ==
    /\ NoThread \notin Threads
    /\ Commands # {}
    /\ Lower \in [Commands -> Commands]
    /\ \A c \in Commands : Lower[Lower[c]] = Lower[c]
    /\ MaxFaults \in Nat

VARIABLES
    created, enabled, faults,   \* MinHook: the hook on the command sender
    installed,                  \* g_cmdHookInstalled
    registered,                 \* the keys of g_registeredCommands
    owner, rakOwner,            \* of g_cmdMutex, of g_mutex
    inRak,                      \* the threads in a RakNet callback
    pc, command,                \* per thread
    promised,       \* history: names RegisterChatCommand returned true for
    known           \* history, per thread: promised when its command was typed

hook == <<created, enabled, faults, installed>>
table == <<registered, promised>>
locks == <<owner, rakOwner, inRak>>
vars == <<hook, table, locks, pc, command, known>>

TypeOK ==
    /\ created \in BOOLEAN /\ enabled \in BOOLEAN /\ installed \in BOOLEAN
    /\ faults \in 0..MaxFaults
    /\ registered \subseteq {Lower[c] : c \in Commands}
    /\ promised \subseteq {Lower[c] : c \in Commands}
    /\ owner \in Threads \cup {NoThread}
    /\ rakOwner \in Threads \cup {NoThread} /\ inRak \subseteq Threads
    /\ pc \in [Threads -> {"idle", "check", "create", "enable", "setFlag",
                           "insert", "sendByAddress", "lookup", "forward",
                           "callback", "send", "dispatch", "hung"}]
    /\ command \in [Threads -> Commands]
    /\ known \in [Threads -> SUBSET Commands]

Init ==
    /\ created = FALSE /\ enabled = FALSE /\ faults = 0 /\ installed = FALSE
    /\ registered = {} /\ promised = {}
    /\ owner = NoThread /\ rakOwner = NoThread /\ inRak = {}
    /\ pc = [t \in Threads |-> "idle"]
    /\ command \in [Threads -> {CHOOSE c \in Commands : TRUE}]
    /\ known = [t \in Threads |-> {}]

Goto(t, label) == pc' = [pc EXCEPT ![t] = label]
Fault == faults < MaxFaults /\ faults' = faults + 1

\* Mutant: the name is registered as it was written.
AsWritten(c) == c
RegisteredAs(c) == Lower[c]

-----------------------------------------------------------------------------
\* RegisterChatCommand.
CallRegister(t, c) ==
    /\ pc[t] = "idle"
    /\ command' = [command EXCEPT ![t] = c]
    /\ Goto(t, "check")
    /\ UNCHANGED <<hook, table, locks, known>>

\* g_cmdHookInstalled is read outside the mutex.
CheckInstalled(t) ==
    /\ pc[t] = "check"
    /\ Goto(t, IF installed THEN "insert" ELSE "create")
    /\ UNCHANGED <<hook, table, locks, command, known>>

\* A target MinHook already knows is refused, whoever made the hook.
CreateHook(t) ==
    /\ pc[t] = "create"
    /\ \/ ~created /\ created' = TRUE /\ UNCHANGED faults /\ Goto(t, "enable")
       \/ created /\ UNCHANGED <<created, faults>> /\ Goto(t, "idle")
       \/ ~created /\ Fault /\ UNCHANGED created /\ Goto(t, "idle")
    /\ UNCHANGED <<enabled, installed, table, locks, command, known>>

\* Mutant: the flag is left for later.
EnableAndInsert(t) ==
    /\ pc[t] = "enable"
    /\ \/ enabled' = TRUE /\ UNCHANGED faults /\ Goto(t, "insert")
       \/ UNCHANGED enabled /\ Fault /\ Goto(t, "idle")
    /\ UNCHANGED <<created, installed, table, locks, command, known>>

EnableHook(t) ==
    /\ pc[t] = "enable"
    /\ \/ enabled' = TRUE /\ UNCHANGED faults /\ Goto(t, "setFlag")
       \/ UNCHANGED enabled /\ Fault /\ Goto(t, "idle")
    /\ UNCHANGED <<created, installed, table, locks, command, known>>

SetInstalled(t) ==
    /\ pc[t] = "setFlag"
    /\ installed' = TRUE
    /\ Goto(t, "insert")
    /\ UNCHANGED <<created, enabled, faults, table, locks, command, known>>

\* The whole critical section; RegisterChatCommand returns true.
Insert(t) ==
    /\ pc[t] = "insert"
    /\ owner = NoThread
    /\ registered' = registered \cup {RegisteredAs(command[t])}
    /\ promised' = promised \cup {Lower[command[t]]}
    /\ Goto(t, "idle")
    /\ UNCHANGED <<hook, locks, command, known>>

-----------------------------------------------------------------------------
\* A command is typed: SA-MP calls its sender, hooked or not.
Type(t, c) ==
    /\ pc[t] = "idle"
    /\ command' = [command EXCEPT ![t] = c]
    /\ known' = [known EXCEPT ![t] = promised]
    /\ Goto(t, IF enabled THEN "lookup" ELSE "forward")
    /\ UNCHANGED <<hook, table, locks>>

\* SendCommand: with the flag set it calls the original, and the command is on
\* its way to the server; else it calls the address of the sender ...
CallSend(t, c) ==
    /\ pc[t] = "idle"
    /\ command' = [command EXCEPT ![t] = c]
    /\ known' = [known EXCEPT ![t] = {}]
    /\ Goto(t, IF installed THEN "forward" ELSE "sendByAddress")
    /\ UNCHANGED <<hook, table, locks>>

\* ... which may be hooked by now.
SendByAddress(t) ==
    /\ pc[t] = "sendByAddress"
    /\ Goto(t, IF enabled THEN "lookup" ELSE "forward")
    /\ UNCHANGED <<hook, table, locks, command, known>>

\* hkSendCmd: a registered command's callback runs with the mutex held.
LookupHit(t) ==
    /\ pc[t] = "lookup"
    /\ owner = NoThread
    /\ Lower[command[t]] \in registered
    /\ owner' = t
    /\ Goto(t, "callback")
    /\ UNCHANGED <<hook, table, rakOwner, inRak, command, known>>

LookupMiss(t) ==
    /\ pc[t] = "lookup"
    /\ owner = NoThread
    /\ Lower[command[t]] \notin registered
    /\ Goto(t, "forward")
    /\ UNCHANGED <<hook, table, locks, command, known>>

Forward(t) ==
    /\ pc[t] = "forward"
    /\ Goto(t, "idle")
    /\ UNCHANGED <<hook, table, locks, command, known>>

\* The callback returns, or throws: the command is not forwarded.
\* Mutant: no lock_guard, and the callback throws.
CallbackEndsLocked(t) ==
    /\ pc[t] = "callback"
    /\ owner' \in {NoThread, owner}
    /\ Goto(t, "idle")
    /\ UNCHANGED <<hook, table, rakOwner, inRak, command, known>>
CallbackEnds(t) ==
    /\ pc[t] = "callback"
    /\ owner' = NoThread
    /\ Goto(t, "idle")
    /\ UNCHANGED <<hook, table, rakOwner, inRak, command, known>>

-----------------------------------------------------------------------------
\* A packet or an RPC is dispatched: the callbacks run with g_mutex held, and
\* may use the commands from within.
Dispatch(t) ==
    /\ pc[t] = "idle" /\ rakOwner = NoThread
    /\ rakOwner' = t /\ inRak' = inRak \cup {t}
    /\ UNCHANGED <<hook, table, owner, pc, command, known>>

DispatchEnds(t) ==
    /\ pc[t] = "idle" /\ t \in inRak
    /\ rakOwner' = NoThread /\ inRak' = inRak \ {t}
    /\ UNCHANGED <<hook, table, owner, pc, command, known>>

\* A command's callback sends: the dispatch waits for g_mutex, if its thread
\* does not have it already ...
CallbackSends(t) ==
    /\ pc[t] = "callback"
    /\ Goto(t, "send")
    /\ UNCHANGED <<hook, table, locks, command, known>>

EnterDispatch(t) ==
    /\ pc[t] = "send"
    /\ rakOwner \in {t, NoThread}
    /\ rakOwner' = t
    /\ Goto(t, "dispatch")
    /\ UNCHANGED <<hook, table, owner, inRak, command, known>>

\* ... and gives back what it took.
\* Mutant: also what an outer dispatch took.
LeaveUnlocked(t) ==
    /\ pc[t] = "dispatch"
    /\ rakOwner' = NoThread
    /\ Goto(t, "callback")
    /\ UNCHANGED <<hook, table, owner, inRak, command, known>>
LeaveDispatch(t) ==
    /\ pc[t] = "dispatch"
    /\ rakOwner' = IF t \in inRak THEN t ELSE NoThread
    /\ Goto(t, "callback")
    /\ UNCHANGED <<hook, table, owner, inRak, command, known>>

\* The callback, or one of the dispatch it has caused, registers a command.
\* Undefined behaviour, a std::mutex locked twice by one thread: it hangs,
\* throws through everything, or goes through.
CallbackRegisters(t, c) ==
    /\ pc[t] \in {"callback", "dispatch"}
    /\ installed
    /\ \/ Goto(t, "hung") /\ UNCHANGED <<locks, table>>
       \/ /\ Goto(t, "idle")
          /\ owner' = NoThread
          /\ rakOwner' = IF rakOwner = t /\ t \notin inRak THEN NoThread
                         ELSE rakOwner
          /\ UNCHANGED <<inRak, table>>
       \/ /\ registered' = registered \cup {RegisteredAs(c)}
          /\ promised' = promised \cup {Lower[c]}
          /\ UNCHANGED <<locks, pc>>
    /\ UNCHANGED <<hook, command, known>>

\* A RakNet callback waits for g_cmdMutex, its holder for g_mutex.
Entangled ==
    \E t, u \in Threads :
        /\ pc[t] \in {"insert", "lookup"} /\ rakOwner = t
        /\ pc[u] = "send" /\ owner = u

\* With a thread hung in the mutex, or two in each other's, the others may stop
\* too.
Hung == (Entangled \/ \E t \in Threads : pc[t] = "hung") /\ UNCHANGED vars

Inside(t) ==
    \/ CheckInstalled(t) \/ CreateHook(t) \/ EnableHook(t)
    \/ SetInstalled(t) \/ Insert(t) \/ SendByAddress(t)
    \/ LookupHit(t) \/ LookupMiss(t) \/ Forward(t) \/ LeaveDispatch(t)

Next ==
    \/ \E t \in Threads, c \in Commands :
          CallRegister(t, c) \/ Type(t, c) \/ CallSend(t, c)
             \/ CallbackRegisters(t, c)
    \/ \E t \in Threads :
          \/ CheckInstalled(t) \/ CreateHook(t) \/ EnableHook(t)
          \/ SetInstalled(t) \/ Insert(t) \/ SendByAddress(t)
          \/ LookupHit(t) \/ LookupMiss(t) \/ Forward(t) \/ CallbackEnds(t)
          \/ Dispatch(t) \/ DispatchEnds(t)
          \/ CallbackSends(t) \/ EnterDispatch(t) \/ LeaveDispatch(t)
    \/ Hung

Spec == Init /\ [][Next]_vars

\* Threads go on in the SDK's code, and callbacks end however often they call
\* it; a thread that waits for a mutex gets it in the end, if it becomes free
\* again and again.
Fairness ==
    \A t \in Threads :
        /\ SF_vars(Inside(t)) /\ SF_vars(EnterDispatch(t))
        /\ SF_vars(CallbackEnds(t)) /\ SF_vars(DispatchEnds(t))

FairSpec == Spec /\ Fairness

-----------------------------------------------------------------------------
(* README.md:462: a command RegisterChatCommand has returned true for is      *)
(* never forwarded when it is typed, in upper or lower case, however the      *)
(* installation of the hook, other registrations and the typing interleave.   *)
RegisteredIsNeverForwarded ==
    [][\A t \in Threads : Forward(t) => Lower[command[t]] \notin known[t]]_vars

(* A callback may call SendCommand: g_cmdHookInstalled is set whenever a      *)
(* callback runs, so the call goes to the original and does not come back to  *)
(* hkSendCmd, which would lock g_cmdMutex a second time.                      *)
CallbacksSendToTheOriginal ==
    \A t \in Threads : pc[t] = "callback" => installed /\ created

(* Each mutex is held by the thread whose call is past its lock_guard, and by *)
(* no other: for every nesting of commands' callbacks in dispatches, of the   *)
(* dispatches of their sends in those, and for every way out of them.         *)
LocksMatchPlaces ==
    /\ TypeOK
    /\ \A t \in Threads :
          /\ owner = t <=> pc[t] \in {"callback", "send", "dispatch", "hung"}
          /\ (t \in inRak \/ pc[t] = "dispatch") => rakOwner = t
          /\ rakOwner = t => t \in inRak \/ pc[t] \in {"dispatch", "hung"}

(* Both mutexes are always given back, though they are held over callbacks    *)
(* that take the other one, with two exceptions: a command's callback has     *)
(* registered a command, or one thread sends from a command's callback while  *)
(* another registers or sends a command from a RakNet callback.               *)
LocksAreGivenBack ==
    \A t \in Threads :
        /\ owner = t ~> owner # t \/ Entangled \/ \E u \in Threads : pc[u] = "hung"
        /\ rakOwner = t ~>
               rakOwner # t \/ Entangled \/ \E u \in Threads : pc[u] = "hung"
=============================================================================
