-------------------------------- MODULE Logger --------------------------------
(***************************************************************************)
(* te-logger.cpp: threads that log, name the mod, reset the session and    *)
(* switch logging on and off.  The first Log makes the folder and the path *)
(* under std::call_once, every Log writes under g_logMutex, the switch is  *)
(* an atomic, and the mod name is written under the mutex but read without *)
(* it when the folder is made.  What a line says is left out: the file is  *)
(* a sequence of session headers, each with its mod name, and lines.       *)
(***************************************************************************)
EXTENDS Integers, Sequences, SequencesExt

CONSTANTS
    Callers,
    Names,          \* the mod names set
    MaxLogCalls,       \* bound: calls of all threads together
    MaxFaults,      \* bound: file system calls that fail
    None            \* no thread, no name, no folder

\* A name that was read while it was being copied.
HalfCopied == "torn"

ASSUME LoggerAssumption ==
    /\ None \notin Callers /\ {"no", "yes"} \cap Callers = {}
    /\ HalfCopied \notin Names \cup {None}

VARIABLES
    enabled, modName, sessionReset, logMutex,   \* g_loggingEnabled, ...
    onceFlag,       \* g_logFileInitFlag: "no", "yes" or the thread that runs it
    logFilePath,    \* g_logFilePath: the folder it is in, or None
    folders, file,  \* the disk: folders made, the log file's records
    step, name,       \* each thread's place, and the name it works with
    logCalls, faults,
    resets          \* history: the lengths of the file at which a session began

locked == <<modName, sessionReset>>
once == <<onceFlag, logFilePath, folders>>
loggerVars ==
    <<enabled, locked, logMutex, once, file, step, name, logCalls, faults, resets>>

Folder(n) == [mod |-> n]
Header(n) == [header |-> TRUE, mod |-> n]
Line == [header |-> FALSE, mod |-> None]

LoggerInit ==
    /\ enabled = TRUE /\ modName = None /\ sessionReset = TRUE
    /\ logMutex = None /\ onceFlag = "no" /\ logFilePath = None
    /\ folders = {} /\ file = <<>>
    /\ step = [t \in Callers |-> "idle"] /\ name = [t \in Callers |-> None]
    /\ logCalls = 0 /\ faults = 0 /\ resets = {0}

Move(t, from, to) == step[t] = from /\ step' = [step EXCEPT ![t] = to]
Call == logCalls < MaxLogCalls /\ logCalls' = logCalls + 1
Fault == faults < MaxFaults /\ faults' = faults + 1

Take(t) == logMutex = None /\ logMutex' = t
Release == logMutex' = None

-----------------------------------------------------------------------------
SetLoggingEnabled(t, on) ==
    /\ step[t] = "idle" /\ Call
    /\ enabled' = on
    /\ UNCHANGED <<locked, logMutex, once, file, step, name, faults, resets>>

ResetSession(t) ==
    /\ step[t] = "idle" /\ Call
    /\ logMutex = None
    /\ sessionReset' = TRUE
    /\ resets' = resets \cup {Len(file)}
    /\ UNCHANGED <<enabled, modName, logMutex, once, file, step, name, faults>>

\* SetModName, with no name for nullptr, and its copy under the lock.
SetModName(t, n) ==
    /\ Move(t, "idle", "nameLock") /\ Call
    /\ name' = [name EXCEPT ![t] = n]
    /\ UNCHANGED <<enabled, locked, logMutex, once, file, faults, resets>>

BeginNaming(t) ==
    /\ Move(t, "nameLock", "nameCopy") /\ Take(t)
    /\ modName' = HalfCopied
    /\ UNCHANGED <<enabled, sessionReset, once, file, name, logCalls, faults, resets>>

EndNaming(t) ==
    /\ Move(t, "nameCopy", "idle") /\ Release
    /\ modName' = name[t]
    /\ UNCHANGED <<enabled, sessionReset, once, file, name, logCalls, faults, resets>>

-----------------------------------------------------------------------------
Log(t) ==
    /\ Call
    /\ IF enabled THEN Move(t, "idle", "once") ELSE Move(t, "idle", "idle")
    /\ UNCHANGED <<enabled, locked, logMutex, once, file, name, faults, resets>>

\* call_once: one thread runs the initialisation and reads the name without the
\* lock, the others wait for it, later ones pass.
\* Mutant: only the finished flag is looked at.
RunsOnceUnguarded == onceFlag # "yes"
RunsOnce == onceFlag = "no"

Initialise(t) ==
    /\ RunsOnce
    /\ Move(t, "once", "folder")
    /\ onceFlag' = t
    /\ name' = [name EXCEPT ![t] = modName]
    /\ UNCHANGED <<enabled, locked, logMutex, logFilePath, folders, file, logCalls,
                   faults, resets>>

PassOnce(t) ==
    /\ onceFlag = "yes"
    /\ Move(t, "once", "lock")
    /\ UNCHANGED <<enabled, locked, logMutex, once, file, name, logCalls, faults, resets>>

\* create_directories and CleanupOldLogs, which drops its errors.
CreateFolder(t) ==
    /\ Move(t, "folder", "path")
    /\ folders' = folders \cup {Folder(name[t])}
    /\ UNCHANGED <<enabled, locked, logMutex, onceFlag, logFilePath, file, name,
                   logCalls, faults, resets>>

\* create_directories throws: call_once lets the next one try, Log throws.
\* Mutant: the flag stays with the thread that failed.
FolderFailsForGood(t) ==
    /\ Move(t, "folder", "idle") /\ Fault
    /\ UNCHANGED <<enabled, locked, logMutex, once, file, name, logCalls, resets>>
FolderFails(t) ==
    /\ Move(t, "folder", "idle") /\ Fault
    /\ onceFlag' = "no"
    /\ UNCHANGED <<enabled, locked, logMutex, logFilePath, folders, file, name,
                   logCalls, resets>>

SetPath(t) ==
    /\ Move(t, "path", "lock")
    /\ logFilePath' = Folder(name[t])
    /\ onceFlag' = "yes"
    /\ UNCHANGED <<enabled, locked, logMutex, folders, file, name, logCalls, faults,
                   resets>>

LockLog(t) ==
    /\ Move(t, "lock", "open") /\ Take(t)
    /\ UNCHANGED <<enabled, locked, once, file, name, logCalls, faults, resets>>

\* Mutant: the header counts as written when the file cannot be opened.
OpenFailsHeaderGone(t) ==
    /\ Move(t, "open", "idle") /\ Release /\ Fault
    /\ sessionReset' = FALSE
    /\ UNCHANGED <<enabled, modName, once, file, name, logCalls, resets>>
OpenFails(t) ==
    /\ Move(t, "open", "idle") /\ Release /\ Fault
    /\ UNCHANGED <<enabled, locked, once, file, name, logCalls, resets>>

Open(t) ==
    /\ Move(t, "open", "write")
    /\ UNCHANGED <<enabled, locked, logMutex, once, file, name, logCalls, faults, resets>>

Write(t) ==
    /\ Move(t, "write", "idle") /\ Release
    /\ file' = file \o (IF sessionReset THEN <<Header(modName), Line>> ELSE <<Line>>)
    /\ sessionReset' = FALSE
    /\ UNCHANGED <<enabled, modName, once, name, logCalls, faults, resets>>

-----------------------------------------------------------------------------
Continue(t) ==
    \/ BeginNaming(t) \/ EndNaming(t)
    \/ Initialise(t) \/ PassOnce(t) \/ CreateFolder(t) \/ FolderFails(t) \/ SetPath(t)
    \/ LockLog(t) \/ OpenFails(t) \/ Open(t) \/ Write(t)

LoggerNext == \E t \in Callers :
    \/ \E on \in BOOLEAN : SetLoggingEnabled(t, on)
    \/ ResetSession(t)
    \/ \E n \in Names \cup {None} : SetModName(t, n)
    \/ Log(t)
    \/ Continue(t)

LoggerSpec == LoggerInit /\ [][LoggerNext]_loggerVars

\* A call that has begun goes on; calls are bounded, so others' calls do not
\* keep the lock from it for ever.
FairSpec == LoggerSpec /\ \A t \in Callers : WF_loggerVars(Continue(t))

-----------------------------------------------------------------------------
(* Each session begins with its header, once: a record is a header exactly if *)
(* the file ended there when ResetSession was called, or at the start.        *)
(* Resets and lines of other threads, and files that could not be opened,     *)
(* change nothing of it.  And a header names the mod as it was set: it is     *)
(* never half copied.                                                         *)
SessionsAreSeparated ==
    \A i \in DOMAIN file :
        /\ file[i].header <=> (i - 1) \in resets
        /\ file[i].mod # HalfCopied

(* There is one log folder, whatever the threads that come first and the      *)
(* tries that failed, and it exists before any thread opens a file in it.     *)
LogsIntoItsFolder ==
    /\ \A f, g \in folders : f = g
    /\ \A t \in Callers :
          step[t] \in {"lock", "open", "write"} => logFilePath \in folders

(* Every call ends, though it may wait for another thread's initialisation,   *)
(* that may fail, and for the lock.                                           *)
CallsReturn == \A t \in Callers : step[t] # "idle" ~> step[t] = "idle"
=============================================================================
