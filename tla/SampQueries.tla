----------------------------- MODULE SampQueries ------------------------------
(***************************************************************************)
(* What mods ask the game from threads of their own: GetSAMPVersion of     *)
(* te-helper.cpp with its cache, and the queries of te-samp.cpp that       *)
(* follow pointers from samp.dll through the net game and its pools to the *)
(* local player, checking before each read that the memory is there.       *)
(* Nothing is locked: the game makes, fills and deletes net games          *)
(* meanwhile, and other threads fill the cache.  What is deleted stays     *)
(* readable until its pages are given back, and may get other contents.    *)
(*                                                                         *)
(* The objects of one net game are one piece of memory.  Offsets, and so   *)
(* the versions of one build, are left out: a build is supported or not.   *)
(***************************************************************************)
EXTENDS Integers, Sequences, FiniteSets

CONSTANTS
    Mods,           \* the mods' threads
    MaxQueries,     \* bound: queries of all threads together
    MaxGames        \* bound: net games the game makes

ASSUME QueriesAssumption == MaxQueries \in Nat /\ MaxGames \in Nat

VARIABLES
    \* external: the game
    supported,      \* the build in samp.dll is one the tables know
    sampBase,       \* samp.dll is loaded
    chat,           \* its chat window exists
    netGame,        \* pNetGame: 0, or the game it points to
    live,           \* the net games there are
    mapped,         \* those whose memory is readable, deleted ones among them
    made,           \* net games made
    mem,            \* what is in a net game: its state, and pointers not null
    \* te-helper.cpp
    g_cachedVersion, g_versionCached,
    \* each thread
    query, at, phase, reg,  \* the query, how far it is, the net game in hand
    answer,
    stable, raced,  \* history: the game stayed as it was; the cache was half set
    queries

game == <<supported, sampBase, chat, netGame, live, mapped, made, mem>>
cache == <<g_cachedVersion, g_versionCached>>
place == <<query, at, phase, reg>>
queriesVars == <<game, cache, place, answer, stable, raced, queries>>

\* What each query reads, in this order.  Both GetOffsets and GetSAMPInfo call
\* GetSAMPVersion; GetPlayerPool starts from samp.dll again.
PlayerPool == <<"version", "version", "netGame", "pools", "playerPool">>
AddChatMessage == <<"version", "chat">>
GetServerName == <<"version", "version", "netGame">>
GetPlayerName == <<"version">> \o PlayerPool \o <<"version", "localName">>
GetPlayerId == <<"version">> \o PlayerPool \o <<"localId">>
IsGameLoaded == <<"version", "version", "netGame", "loaded">>
IsPlayerSpawned ==
    <<"version", "version", "netGame", "spawned">> \o PlayerPool \o <<"localPlayer">>

Program ==
    [AddChatMessage |-> AddChatMessage, GetServerName |-> GetServerName,
     GetPlayerName |-> GetPlayerName, GetPlayerId |-> GetPlayerId,
     IsGameLoaded |-> IsGameLoaded, IsPlayerSpawned |-> IsPlayerSpawned]

Pointers == {"pools", "playerPool", "localPlayer"}
EmptyGame == [state |-> 0, pointers |-> {}]
Rubbish == [state : {0, 14}, pointers : {{}, Pointers}]

QueriesInit ==
    /\ supported \in BOOLEAN
    /\ sampBase = FALSE /\ chat = FALSE /\ netGame = 0
    /\ live = {} /\ mapped = {} /\ made = 0 /\ mem = <<>>
    /\ g_cachedVersion = "Unknown" /\ g_versionCached = FALSE
    /\ query = [t \in Mods |-> "none"] /\ at = [t \in Mods |-> 1]
    /\ phase = [t \in Mods |-> "check"] /\ reg = [t \in Mods |-> 0]
    /\ answer = [t \in Mods |-> "none"]
    /\ stable = [t \in Mods |-> TRUE] /\ raced = [t \in Mods |-> FALSE]
    /\ queries = 0

Version == IF supported THEN "known" ELSE "Unknown"

-----------------------------------------------------------------------------
\* The game.
Changes ==
    /\ stable' = [t \in Mods |-> FALSE]
    /\ UNCHANGED <<supported, cache, place, answer, raced, queries>>

LoadSamp ==
    /\ ~sampBase /\ sampBase' = TRUE
    /\ Changes /\ UNCHANGED <<chat, netGame, live, mapped, made, mem>>

OpenChat ==
    /\ sampBase /\ ~chat /\ chat' = TRUE
    /\ Changes /\ UNCHANGED <<sampBase, netGame, live, mapped, made, mem>>

MakeNetGame ==
    /\ sampBase /\ netGame = 0 /\ made < MaxGames
    /\ made' = made + 1 /\ netGame' = made + 1
    /\ live' = live \cup {made + 1} /\ mapped' = mapped \cup {made + 1}
    /\ mem' = Append(mem, EmptyGame)
    /\ Changes /\ UNCHANGED <<sampBase, chat>>

\* Pools first, then the player pool in them, then the local player in that.
FillNetGame ==
    /\ netGame \in live
    /\ LET g == mem[netGame]
       IN  \E p \in Pointers \ g.pointers :
              /\ p = "playerPool" => "pools" \in g.pointers
              /\ p = "localPlayer" => "playerPool" \in g.pointers
              /\ mem' = [mem EXCEPT ![netGame].pointers = @ \cup {p}]
    /\ Changes /\ UNCHANGED <<sampBase, chat, netGame, live, mapped, made>>

SetGameState ==
    /\ netGame \in live
    /\ \E s \in {5, 14} :
          /\ s # mem[netGame].state
          /\ s = 14 => "localPlayer" \in mem[netGame].pointers
          /\ mem' = [mem EXCEPT ![netGame].state = s]
    /\ Changes /\ UNCHANGED <<sampBase, chat, netGame, live, mapped, made>>

\* Deleted first, the pointer to it cleared after; the heap keeps the page.
DeleteNetGame ==
    /\ netGame \in live /\ live' = live \ {netGame}
    /\ Changes /\ UNCHANGED <<sampBase, chat, netGame, mapped, made, mem>>

ClearNetGame ==
    /\ netGame # 0 /\ netGame \notin live /\ netGame' = 0
    /\ Changes /\ UNCHANGED <<sampBase, chat, live, mapped, made, mem>>

\* The heap uses what is free for something else, or gives the page back.
ReuseMemory(g) ==
    /\ g \in mapped \ live
    /\ \E rubbish \in Rubbish : mem' = [mem EXCEPT ![g] = rubbish]
    /\ Changes /\ UNCHANGED <<sampBase, chat, netGame, live, mapped, made>>

GiveBackMemory(g) ==
    /\ g \in mapped \ live /\ mapped' = mapped \ {g}
    /\ mem' = [mem EXCEPT ![g] = EmptyGame]
    /\ Changes /\ UNCHANGED <<sampBase, chat, netGame, live, made>>

-----------------------------------------------------------------------------
\* A query of a thread.
Running(t) == query[t] # "none" /\ answer[t] = "none"
Reads(t, what, ph) ==
    Running(t) /\ Program[query[t]][at[t]] \in what /\ phase[t] = ph

Ask(t, q) ==
    /\ ~Running(t) /\ answer[t] # "crash"
    /\ queries < MaxQueries /\ queries' = queries + 1
    /\ query' = [query EXCEPT ![t] = q] /\ answer' = [answer EXCEPT ![t] = "none"]
    /\ stable' = [stable EXCEPT ![t] = TRUE] /\ raced' = [raced EXCEPT ![t] = FALSE]
    /\ UNCHANGED <<game, cache, at, reg, phase>>

\* What a query leaves alone wherever it is.
Queries == UNCHANGED <<game, query, stable, queries>>

Enter(t, ph) ==
    /\ phase' = [phase EXCEPT ![t] = ph]
    /\ UNCHANGED <<at, reg, answer>>

\* "yes" is a value found, "no" what a query returns without one: false, an empty
\* name, and 0xFFFF of GetPlayerId.
Answer(t, a) ==
    /\ answer' = [answer EXCEPT ![t] = a]
    /\ phase' = [phase EXCEPT ![t] = "check"]
    /\ at' = [at EXCEPT ![t] = 1] /\ reg' = [reg EXCEPT ![t] = 0]

\* On to the next read, with net game g in hand; the last one answers.
Go(t, g) ==
    IF at[t] = Len(Program[query[t]]) THEN Answer(t, "yes")
    ELSE /\ at' = [at EXCEPT ![t] = @ + 1] /\ reg' = [reg EXCEPT ![t] = g]
         /\ phase' = [phase EXCEPT ![t] = "check"]
         /\ UNCHANGED answer

Known(t, version) ==
    IF version = "Unknown" THEN Answer(t, "no") ELSE Go(t, reg[t])

\* GetSAMPVersion: the cache, else the header of samp.dll, if that is there.
\* Mutant: what there is to find is cached even if there is no samp.dll.
SearchAnyway(t) == Enter(t, "detect")
Search(t) == IF sampBase THEN Enter(t, "detect") ELSE Answer(t, "no")

GetSAMPVersion(t) ==
    /\ Reads(t, {"version"}, "check")
    /\ IF g_versionCached THEN Known(t, g_cachedVersion) ELSE Search(t)
    /\ raced' = [raced EXCEPT ![t] = @ \/ \E u \in Mods : phase[u] = "value"]
    /\ Queries /\ UNCHANGED cache

\* The two statics are plain: other threads may see either store first.
Detected == IF sampBase THEN Version ELSE "Unknown"

StoreOne(t) ==
    /\ Reads(t, {"version"}, "detect")
    /\ \/ g_cachedVersion' = Detected /\ Enter(t, "flag") /\ UNCHANGED g_versionCached
       \/ g_versionCached' = TRUE /\ Enter(t, "value") /\ UNCHANGED g_cachedVersion
    /\ Queries /\ UNCHANGED raced

StoreOther(t) ==
    /\ \/ Reads(t, {"version"}, "flag") /\ g_versionCached' = TRUE
          /\ UNCHANGED g_cachedVersion
       \/ Reads(t, {"version"}, "value") /\ g_cachedVersion' = Detected
          /\ UNCHANGED g_versionCached
    /\ Known(t, Detected)
    /\ Queries /\ UNCHANGED raced

\* GetSAMPInfo: what samp.dll points to, unchecked.
GetSAMPInfo(t) ==
    /\ Reads(t, {"netGame"}, "check")
    /\ IF netGame = 0 THEN Answer(t, "no") ELSE Go(t, netGame)
    /\ Queries /\ UNCHANGED <<cache, raced>>

\* IsValidPtr: VirtualQuery knows which memory is readable.
\* Mutant: any pointer that is not null.
NotNull(t) == reg[t] # 0
IsValidPtr(t) == reg[t] \in mapped

Fields == {"pools", "playerPool", "localPlayer", "localId", "localName", "loaded",
           "spawned"}

Check(t) ==
    /\ \/ /\ Reads(t, Fields, "check")
          /\ IF IsValidPtr(t) THEN Enter(t, "read") ELSE Answer(t, "no")
       \/ /\ Reads(t, {"chat"}, "check")
          /\ IF chat THEN Enter(t, "read") ELSE Answer(t, "no")
    /\ Queries /\ UNCHANGED <<cache, raced>>

Holds(g, what) ==
    CASE what \in Pointers -> what \in mem[g].pointers
      [] what = "loaded" -> mem[g].state >= 5
      [] what = "spawned" -> mem[g].state = 14
      [] OTHER -> TRUE

Read(t) ==
    /\ \/ /\ Reads(t, Fields, "read")
          /\ IF reg[t] \notin mapped THEN Answer(t, "crash")
             ELSE IF Holds(reg[t], Program[query[t]][at[t]]) THEN Go(t, reg[t])
             ELSE Answer(t, "no")
       \/ Reads(t, {"chat"}, "read") /\ Go(t, reg[t])
    /\ Queries /\ UNCHANGED <<cache, raced>>

-----------------------------------------------------------------------------
QueriesNext ==
    \/ LoadSamp \/ OpenChat \/ MakeNetGame \/ FillNetGame \/ SetGameState
    \/ DeleteNetGame \/ ClearNetGame
    \/ \E g \in mapped : ReuseMemory(g) \/ GiveBackMemory(g)
    \/ \E t \in Mods :
          \/ \E q \in DOMAIN Program : Ask(t, q)
          \/ GetSAMPVersion(t) \/ StoreOne(t) \/ StoreOther(t)
          \/ GetSAMPInfo(t) \/ Check(t) \/ Read(t)

QueriesSpec == QueriesInit /\ [][QueriesNext]_queriesVars

-----------------------------------------------------------------------------
\* What the game would say: of a net game only while there is one.
Truth(q) ==
    LET g == IF netGame \in live THEN mem[netGame] ELSE EmptyGame
    IN  /\ supported /\ sampBase
        /\ CASE q = "AddChatMessage" -> chat
             [] q = "GetServerName" -> netGame \in live
             [] q = "IsGameLoaded" -> g.state >= 5
             [] q = "IsPlayerSpawned" -> g.state = 14 /\ "localPlayer" \in g.pointers
             [] OTHER -> {"pools", "playerPool"} \subseteq g.pointers

\* The net game is deleted and samp.dll still points to it: its memory may look
\* as it did, and GetServerName does not even look at it.
Dangling(q) == q # "AddChatMessage" /\ netGame # 0 /\ netGame \notin live

(* A query during which the game did not change answers the truth, also while *)
(* other threads detect the version.  The exceptions: between the deletion of *)
(* a net game and the clearing of the pointer to it a query may find what was *)
(* there; and a thread that sees the flag of the cache before its value takes *)
(* the build for unknown.  No null or dangling pointer crashes a query,       *)
(* unless memory it has checked is given back before it reads it.             *)
AnswersAreTrue ==
    \A t \in Mods :
        /\ answer[t] = "yes" /\ stable[t] => Truth(query[t]) \/ Dangling(query[t])
        /\ answer[t] = "crash" => ~stable[t]
        /\ answer[t] = "no" /\ stable[t] /\ ~raced[t] => ~Truth(query[t])

(* Once the cache is set, by however many threads at once, it holds the       *)
(* build's version: a query that comes before samp.dll does not settle it.    *)
CacheIsRight ==
    g_versionCached /\ (\A t \in Mods : phase[t] # "value")
        => g_cachedVersion = Version
=============================================================================
