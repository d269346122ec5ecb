-------------------------- MODULE SharedStateProofs --------------------------
(***************************************************************************)
(* The three components whose state is a few plain statics that any thread *)
(* reads, without a lock or beside it: the record of the session, for any  *)
(* threads and servers; the cache of the version and the queries that go   *)
(* through it, for any threads and net games; the logger, for any threads  *)
(* and mod names.  Each has an invariant of its own.                       *)
(***************************************************************************)
EXTENDS Session, SampQueries, Logger, TLAPS, SequenceTheorems

-----------------------------------------------------------------------------
(* The session.  Without a muddle one call at most is under way, and the      *)
(* invariant says what the record is worth at each of its steps.              *)

OneCall == \A t, u \in Threads : pc[t] # "idle" /\ pc[u] # "idle" => t = u

\* A connection the record claims is one to the server it names.
Truthful == isConnected => serverIP = ports /\ (asked = serverIP \/ lost)

\* Between the calls; and at each step of a call.
Settled ==
    (\A t \in Threads : pc[t] = "idle") =>
        /\ Truthful
        /\ asked # NoServer => isConnected /\ serverIP = asked

UnderWay ==
    \A t \in Threads :
        /\ pc[t] = "ports" => serverIP = host[t]
        /\ pc[t] \in {"flag", "connect", "setFlag"} =>
               serverIP = host[t] /\ ports = host[t]
        /\ pc[t] \in {"connect", "disconnect"} => ~isConnected
        /\ pc[t] = "setFlag" => asked = host[t] \/ (lost /\ asked = NoServer)
        /\ pc[t] \in {"setFlag", "clear"} => Truthful

SessionInv == /\ TypeOK
              /\ ~muddled => OneCall /\ Settled /\ UnderWay

-----------------------------------------------------------------------------
\* The types, one action at a time.
LEMMA SessionTypes == TypeOK /\ [Next]_vars => TypeOK'
<1> SUFFICES ASSUME TypeOK, [Next]_vars PROVE TypeOK' OBVIOUS
<1> USE SessionAssumption
        DEF TypeOK, Goto, In, record, setup, thread, network, Detailing, Layers
<1>1. CASE UNCHANGED vars BY <1>1 DEF vars
<1>2. CASE SetClient BY <1>2 DEF SetClient
<1>3. CASE Lose BY <1>3 DEF Lose
<1>4. ASSUME NEW f \in {"Connect", "Disconnect"}, EnableHook(f) PROVE TypeOK'
  BY <1>4 DEF EnableHook
<1>5. ASSUME NEW f \in {"Connect", "Disconnect"}, CallUnseen(f) PROVE TypeOK'
  <2>1. calls' \in 0..MaxCalls BY <1>5 DEF CallUnseen
  <2> QED BY <1>5, <2>1 DEF CallUnseen, Asks, ConnectFails, Disconnects
<1>6. ASSUME NEW t \in Threads, NEW l \in {"facade", "hook"}, NEW s \in Servers,
             CallConnect(t, s, l)
      PROVE  TypeOK'
  <2>1. calls' \in 0..MaxCalls BY <1>6 DEF CallConnect
  <2> QED BY <1>6, <2>1 DEF CallConnect
<1>7. ASSUME NEW t \in Threads, NEW l \in {"facade", "hook"}, CallDisconnect(t, l)
      PROVE  TypeOK'
  <2>1. calls' \in 0..MaxCalls BY <1>7 DEF CallDisconnect
  <2> QED BY <1>7, <2>1 DEF CallDisconnect
<1>8. ASSUME NEW t \in Threads,
             \/ CopyHost(t) \/ EndCopy(t) \/ StorePorts(t) \/ ResetFlag(t)
      PROVE  TypeOK'
  BY <1>8 DEF CopyHost, EndCopy, StorePorts, ResetFlag
<1>9. ASSUME NEW t \in Threads,
             \/ EnterHook(t) \/ WithoutClient(t) \/ SetFlag(t)
             \/ ClearFlag(t) \/ EnterDisconnectHook(t)
      PROVE  TypeOK'
  BY <1>9 DEF EnterHook, WithoutClient, SetFlag, ClearFlag, EnterDisconnectHook
<1>10. ASSUME NEW t \in Threads, ConnectOriginal(t) \/ DisconnectOriginal(t)
       PROVE  TypeOK'
  BY <1>10 DEF ConnectOriginal, DisconnectOriginal, Asks, ConnectFails, Disconnects
<1> QED BY <1>1, <1>2, <1>3, <1>4, <1>5, <1>6, <1>7, <1>8, <1>9, <1>10 DEF Next

\* The whole invariant, one action at a time.
LEMMA SessionNext == SessionInv /\ [Next]_vars => SessionInv'
<1> SUFFICES ASSUME SessionInv, [Next]_vars, ~muddled'
             PROVE  (OneCall /\ Settled /\ UnderWay)'
  BY SessionTypes DEF SessionInv
<1> USE SessionAssumption
        DEF SessionInv, TypeOK, OneCall, Settled, UnderWay, Truthful,
            Goto, In, record, setup, thread, network, Detailing, Layers
<1>1. CASE UNCHANGED vars BY <1>1 DEF vars
<1>2. CASE SetClient BY <1>2 DEF SetClient
<1>3. CASE Lose BY <1>3 DEF Lose
<1>4. ASSUME NEW f \in {"Connect", "Disconnect"}, EnableHook(f)
      PROVE  (OneCall /\ Settled /\ UnderWay)'
  BY <1>4 DEF EnableHook
<1>5. ASSUME NEW f \in {"Connect", "Disconnect"}, CallUnseen(f)
      PROVE  (OneCall /\ Settled /\ UnderWay)'
  BY <1>5 DEF CallUnseen
<1>6. ASSUME NEW t \in Threads, NEW l \in {"facade", "hook"}, NEW s \in Servers,
             CallConnect(t, s, l)
      PROVE  (OneCall /\ Settled /\ UnderWay)'
  BY <1>6 DEF CallConnect, Alone
<1>7. ASSUME NEW t \in Threads, NEW l \in {"facade", "hook"}, CallDisconnect(t, l)
      PROVE  (OneCall /\ Settled /\ UnderWay)'
  BY <1>7 DEF CallDisconnect, Alone
<1>8. ASSUME NEW t \in Threads, CopyHost(t)
      PROVE  (OneCall /\ Settled /\ UnderWay)'
  BY <1>8 DEF CopyHost
<1>9. ASSUME NEW t \in Threads, EndCopy(t)
      PROVE  (OneCall /\ Settled /\ UnderWay)'
  BY <1>9 DEF EndCopy
<1>10. ASSUME NEW t \in Threads, StorePorts(t)
       PROVE  (OneCall /\ Settled /\ UnderWay)'
  BY <1>10 DEF StorePorts
<1>11. ASSUME NEW t \in Threads, ResetFlag(t)
       PROVE  (OneCall /\ Settled /\ UnderWay)'
  BY <1>11 DEF ResetFlag
<1>12. ASSUME NEW t \in Threads, EnterHook(t)
       PROVE  (OneCall /\ Settled /\ UnderWay)'
  BY <1>12 DEF EnterHook
<1>13. ASSUME NEW t \in Threads, ConnectOriginal(t)
       PROVE  (OneCall /\ Settled /\ UnderWay)'
  BY <1>13 DEF ConnectOriginal, Asks, ConnectFails
<1>14. ASSUME NEW t \in Threads, WithoutClient(t)
       PROVE  (OneCall /\ Settled /\ UnderWay)'
  BY <1>14 DEF WithoutClient
<1>15. ASSUME NEW t \in Threads, SetFlag(t)
       PROVE  (OneCall /\ Settled /\ UnderWay)'
  BY <1>15 DEF SetFlag
<1>16. ASSUME NEW t \in Threads, ClearFlag(t)
       PROVE  (OneCall /\ Settled /\ UnderWay)'
  BY <1>16 DEF ClearFlag
<1>17. ASSUME NEW t \in Threads, EnterDisconnectHook(t)
       PROVE  (OneCall /\ Settled /\ UnderWay)'
  BY <1>17 DEF EnterDisconnectHook
<1>18. ASSUME NEW t \in Threads, DisconnectOriginal(t)
       PROVE  (OneCall /\ Settled /\ UnderWay)'
  BY <1>18 DEF DisconnectOriginal, Disconnects
<1> QED BY <1>1, <1>2, <1>3, <1>4, <1>5, <1>6, <1>7, <1>8, <1>9, <1>10, <1>11,
           <1>12, <1>13, <1>14, <1>15, <1>16, <1>17, <1>18
        DEF Next

\* Nobody is connected, and no call is under way.
LEMMA SessionInit == Init => SessionInv
<1> SUFFICES ASSUME Init PROVE SessionInv OBVIOUS
<1>1. 0 \in 0..MaxCalls BY SessionAssumption
<1>2. TypeOK BY <1>1 DEF Init, TypeOK, Layers, Detailing
<1>3. \A t \in Threads : pc[t] = "idle" BY DEF Init
<1>4. OneCall /\ UnderWay BY <1>3 DEF OneCall, UnderWay
<1>5. Settled BY DEF Init, Settled, Truthful
<1> QED BY <1>2, <1>4, <1>5 DEF SessionInv

(* The invariant holds in every state the session can reach. *)
THEOREM SessionInvariance == Spec => []SessionInv
<1> QED BY SessionInit, SessionNext, PTL DEF Spec

-----------------------------------------------------------------------------
(* The record's state is always well typed. *)
THEOREM RecordIsTyped == Spec => []TypeOK
<1>1. SessionInv => TypeOK BY DEF SessionInv
<1> QED BY <1>1, SessionInvariance, PTL

(* While isConnected is set and no Connect is replacing the details, the      *)
(* record names the server RakNet was asked for, however facade and hooks     *)
(* nest, and until the connection is lost.                                    *)
THEOREM NamesItsServer == Spec => []ConnectedNamesItsServer
<1>1. SessionInv => ConnectedNamesItsServer
  BY DEF SessionInv, TypeOK, ConnectedNamesItsServer, OneCall, Settled, UnderWay,
         Truthful, Detailing
<1> QED BY <1>1, SessionInvariance, PTL

(* Between calls, a connection the hooks have seen being made is recorded.    *)
THEOREM IsRecorded == Spec => []ConnectionIsRecorded
<1>1. SessionInv => ConnectionIsRecorded BY DEF SessionInv, ConnectionIsRecorded, Settled
<1> QED BY <1>1, SessionInvariance, PTL

-----------------------------------------------------------------------------
(* The queries.  The cache is right but for a thread between its two stores;  *)
(* and as long as the game does not change, a query has seen to be true all   *)
(* that it is past.                                                           *)

\* What a query has seen once it is past a read of what.
Seen(what) ==
    /\ what = "version" => supported /\ sampBase
    /\ what = "netGame" => netGame # 0
    /\ what = "chat" => chat
    /\ what \in Fields => netGame \in mapped /\ Holds(netGame, what)

Places == {"check", "detect", "flag", "value", "read"}

QueryTypes ==
    /\ supported \in BOOLEAN /\ sampBase \in BOOLEAN /\ chat \in BOOLEAN
    /\ made \in Nat /\ netGame \in 0..made
    /\ live \subseteq mapped /\ mapped \subseteq 1..made
    /\ mem \in Seq([state : Nat, pointers : SUBSET Pointers]) /\ Len(mem) = made
    /\ g_versionCached \in BOOLEAN
    /\ query \in [Mods -> DOMAIN Program \cup {"none"}]
    /\ at \in [Mods -> Nat \ {0}] /\ phase \in [Mods -> Places] /\ reg \in [Mods -> Nat]
    /\ answer \in [Mods -> {"none", "yes", "no", "crash"}]
    /\ stable \in [Mods -> BOOLEAN] /\ raced \in [Mods -> BOOLEAN]

\* What is stored is the build's version; the flag comes with it, or the thread
\* that has set the flag is about to store it.
CacheMatchesStores ==
    /\ g_cachedVersion \in {"Unknown", Version}
    /\ g_cachedVersion # "Unknown" => sampBase
    /\ \A t \in Mods : /\ phase[t] \in {"detect", "flag", "value"} => sampBase
                       /\ phase[t] = "flag" => g_cachedVersion = Version
    /\ g_versionCached =>
           g_cachedVersion = Version \/ \E t \in Mods : phase[t] = "value"

\* The game makes its objects in one order.
OneInTheOther ==
    \A g \in live :
        /\ "playerPool" \in mem[g].pointers => "pools" \in mem[g].pointers
        /\ "localPlayer" \in mem[g].pointers => "playerPool" \in mem[g].pointers

\* While the game stays as it is, a query has seen all that it is past.
PastIsSeen(t) ==
    LET p == Program[query[t]] IN
    IF Running(t)
    THEN /\ at[t] <= Len(p)
         /\ stable[t] =>
               /\ \A i \in 1..at[t] - 1 : Seen(p[i])
               /\ (\E i \in 1..at[t] - 1 : p[i] = "netGame") => reg[t] = netGame
               /\ phase[t] = "read" /\ p[at[t]] \in Fields => reg[t] \in mapped
               /\ phase[t] = "read" /\ p[at[t]] = "chat" => chat
    ELSE at[t] = 1 /\ phase[t] = "check"

QueryInv == /\ QueryTypes /\ CacheMatchesStores /\ OneInTheOther
            /\ \A t \in Mods : PastIsSeen(t)
            /\ AnswersAreTrue

-----------------------------------------------------------------------------
\* The programs, read by read: what each wants to see, and that it gets a net
\* game before it looks into one.
Wanted(q) ==
    CASE q = "AddChatMessage" -> {"version", "chat"}
      [] q = "GetServerName" -> {"version", "netGame"}
      [] q = "GetPlayerName" ->
            {"version", "netGame", "pools", "playerPool", "localName"}
      [] q = "GetPlayerId" ->
            {"version", "netGame", "pools", "playerPool", "localId"}
      [] q = "IsGameLoaded" -> {"version", "netGame", "loaded"}
      [] q = "IsPlayerSpawned" ->
            {"version", "netGame", "spawned", "pools", "playerPool", "localPlayer"}

\* The queries by their names.
LEMMA QueryNames ==
    DOMAIN Program = {"AddChatMessage", "GetServerName", "GetPlayerName",
                        "GetPlayerId", "IsGameLoaded", "IsPlayerSpawned"}
BY DEF Program

\* ... and these are what it reads, one by one.
LEMMA ProgramFacts ==
    ASSUME NEW q \in DOMAIN Program
    PROVE  LET p == Program[q] IN
           /\ Len(p) \in Nat \ {0}
           /\ \A i \in 1..Len(p) :
                 /\ p[i] \in Wanted(q)
                 /\ p[i] \in Fields => \E j \in 1..i - 1 : p[j] = "netGame"
           /\ \A s \in Wanted(q) : \E i \in 1..Len(p) : p[i] = s
<1> DEFINE p == Program[q]
<1> USE DEF Fields, Wanted
<1>1. CASE q = "AddChatMessage"
  <2>1. p = AddChatMessage BY <1>1 DEF Program
  <2>2. Len(p) = 2 /\ p[1] = "version" /\ p[2] = "chat"
    BY <2>1 DEF AddChatMessage
  <2> HIDE DEF p
  <2>3. 1..Len(p) = 1..2 BY <2>2
  <2> QED BY <1>1, <2>2, <2>3 DEF p
<1>2. CASE q = "GetServerName"
  <2>1. p = GetServerName BY <1>2 DEF Program
  <2>2. Len(p) = 3 /\ p[1] = "version" /\ p[2] = "version" /\ p[3] = "netGame"
    BY <2>1 DEF GetServerName
  <2> HIDE DEF p
  <2>3. 1..Len(p) = 1..3 BY <2>2
  <2> QED BY <1>2, <2>2, <2>3 DEF p
<1>3. CASE q = "GetPlayerName"
  <2>1. p = GetPlayerName BY <1>3 DEF Program
  <2>2. /\ Len(p) = 8 /\ p[1] = "version" /\ p[2] = "version" /\ p[3] = "version"
        /\ p[4] = "netGame" /\ p[5] = "pools" /\ p[6] = "playerPool"
        /\ p[7] = "version" /\ p[8] = "localName"
    BY <2>1 DEF GetPlayerName, PlayerPool
  <2> HIDE DEF p
  <2>3. 1..Len(p) = 1..8 BY <2>2
  <2> QED BY <1>3, <2>2, <2>3 DEF p
<1>4. CASE q = "GetPlayerId"
  <2>1. p = GetPlayerId BY <1>4 DEF Program
  <2>2. /\ Len(p) = 7 /\ p[1] = "version" /\ p[2] = "version" /\ p[3] = "version"
        /\ p[4] = "netGame" /\ p[5] = "pools" /\ p[6] = "playerPool"
        /\ p[7] = "localId"
    BY <2>1 DEF GetPlayerId, PlayerPool
  <2> HIDE DEF p
  <2>3. 1..Len(p) = 1..7 BY <2>2
  <2> QED BY <1>4, <2>2, <2>3 DEF p
<1>5. CASE q = "IsGameLoaded"
  <2>1. p = IsGameLoaded BY <1>5 DEF Program
  <2>2. /\ Len(p) = 4 /\ p[1] = "version" /\ p[2] = "version" /\ p[3] = "netGame"
        /\ p[4] = "loaded"
    BY <2>1 DEF IsGameLoaded
  <2> HIDE DEF p
  <2>3. 1..Len(p) = 1..4 BY <2>2
  <2> QED BY <1>5, <2>2, <2>3 DEF p
<1>6. CASE q = "IsPlayerSpawned"
  <2>1. p = IsPlayerSpawned BY <1>6 DEF Program
  <2>2. /\ Len(p) = 10 /\ p[1] = "version" /\ p[2] = "version" /\ p[3] = "netGame"
        /\ p[4] = "spawned" /\ p[5] = "version" /\ p[6] = "version"
        /\ p[7] = "netGame" /\ p[8] = "pools" /\ p[9] = "playerPool"
        /\ p[10] = "localPlayer"
    BY <2>1 DEF IsPlayerSpawned, PlayerPool
  <2> HIDE DEF p
  <2>3. 1..Len(p) = 1..10 BY <2>2
  <2> QED BY <1>6, <2>2, <2>3 DEF p
<1> QED BY <1>1, <1>2, <1>3, <1>4, <1>5, <1>6, QueryNames

\* A query that has seen all it wants answers the truth, unless what it has seen
\* is no more; and so does one that misses anything.
LEMMA SeenIsTruth ==
    ASSUME QueryTypes, OneInTheOther, NEW q \in DOMAIN Program
    PROVE  /\ Truth(q) => \A s \in Wanted(q) : Seen(s)
           /\ (\A s \in Wanted(q) : Seen(s)) => Truth(q) \/ Dangling(q)
<1> DEFINE g == IF netGame \in live THEN mem[netGame] ELSE EmptyGame
<1>1. /\ netGame \in live => netGame # 0 /\ netGame \in mapped
      /\ netGame \in live => g = mem[netGame]
      /\ netGame \notin live => g.state = 0 /\ g.pointers = {}
  BY DEF QueryTypes, EmptyGame
<1>2. /\ "playerPool" \in g.pointers => "pools" \in g.pointers
      /\ "localPlayer" \in g.pointers => "playerPool" \in g.pointers
  BY <1>1 DEF OneInTheOther
<1>3. Seen("version") <=> supported /\ sampBase BY DEF Seen, Fields
<1>4. Seen("netGame") <=> netGame # 0 BY DEF Seen, Fields
<1>5. Seen("chat") <=> chat BY DEF Seen, Fields
<1>6. \A s \in Pointers : Seen(s) <=> netGame \in mapped /\ s \in mem[netGame].pointers
  BY DEF Seen, Fields, Pointers, Holds
<1>7. Seen("loaded") <=> netGame \in mapped /\ mem[netGame].state >= 5
  BY DEF Seen, Fields, Pointers, Holds
<1>8. Seen("spawned") <=> netGame \in mapped /\ mem[netGame].state = 14
  BY DEF Seen, Fields, Pointers, Holds
<1>9. \A s \in {"localId", "localName"} : Seen(s) <=> netGame \in mapped
  BY DEF Seen, Fields, Pointers, Holds
<1>10. /\ {"pools", "playerPool", "localPlayer"} = Pointers
       /\ ~(0 >= 5) /\ 0 # 14
  BY DEF Pointers
<1>11. q # "AddChatMessage" => (Dangling(q) <=> netGame # 0 /\ netGame \notin live)
  BY DEF Dangling
<1> HIDE DEF g
<1>12. Truth(q) <=>
          /\ supported /\ sampBase
          /\ CASE q = "AddChatMessage" -> chat
               [] q = "GetServerName" -> netGame \in live
               [] q = "IsGameLoaded" -> g.state >= 5
               [] q = "IsPlayerSpawned" ->
                     g.state = 14 /\ "localPlayer" \in g.pointers
               [] OTHER -> {"pools", "playerPool"} \subseteq g.pointers
  BY DEF Truth, g
<1>13. CASE q = "AddChatMessage" BY <1>3, <1>5, <1>12, <1>13 DEF Wanted
<1>14. CASE q = "GetServerName" BY <1>1, <1>3, <1>4, <1>11, <1>12, <1>14 DEF Wanted
<1>15. CASE q = "GetPlayerName"
  BY <1>1, <1>2, <1>3, <1>4, <1>6, <1>9, <1>10, <1>11, <1>12, <1>15 DEF Wanted
<1>16. CASE q = "GetPlayerId"
  BY <1>1, <1>2, <1>3, <1>4, <1>6, <1>9, <1>10, <1>11, <1>12, <1>16 DEF Wanted
<1>17. CASE q = "IsGameLoaded"
  BY <1>1, <1>3, <1>4, <1>7, <1>10, <1>11, <1>12, <1>17 DEF Wanted
<1>18. CASE q = "IsPlayerSpawned"
  BY <1>1, <1>2, <1>3, <1>4, <1>6, <1>8, <1>10, <1>11, <1>12, <1>18 DEF Wanted
<1> QED BY <1>13, <1>14, <1>15, <1>16, <1>17, <1>18, QueryNames

\* The truth, and what there is to see, change with the game only.
LEMMA Unmoved ==
    ASSUME UNCHANGED game
    PROVE  /\ \A q : Truth(q)' <=> Truth(q)
           /\ \A q : Dangling(q)' <=> Dangling(q)
           /\ \A s : Seen(s)' <=> Seen(s)
BY DEF game, Truth, Dangling, Seen, Holds

\* A query that is being answered is at one of its reads, which it misses only
\* if it misses the truth.
LEMMA AtARead ==
    ASSUME QueryInv, NEW t \in Mods, Running(t)
    PROVE  LET p == Program[query[t]] IN
           /\ query[t] \in DOMAIN Program /\ at[t] \in 1..Len(p)
           /\ Truth(query[t]) => Seen(p[at[t]])
<1> DEFINE q == query[t]
           p == Program[q]
<1>1. q \in DOMAIN Program BY DEF Running, QueryInv, QueryTypes
<1>2. at[t] \in Nat \ {0} /\ at[t] <= Len(p)
  BY DEF QueryInv, QueryTypes, PastIsSeen
<1>3. Len(p) \in Nat /\ \A i \in 1..Len(p) : p[i] \in Wanted(q) BY <1>1, ProgramFacts
<1>4. at[t] \in 1..Len(p) BY <1>2, <1>3
<1>5. Truth(q) => Seen(p[at[t]]) BY <1>1, <1>3, <1>4, SeenIsTruth DEF QueryInv
<1> QED BY <1>1, <1>4, <1>5

-----------------------------------------------------------------------------
\* The three shapes of a query's step: another place in the same read, an answer,
\* and the next read.
Frame(t) ==
    /\ Queries /\ g_versionCached' \in BOOLEAN /\ CacheMatchesStores'
    /\ raced' \in [Mods -> BOOLEAN] /\ \A u \in Mods \ {t} : raced'[u] = raced[u]

\* Whatever the shape, the other queries are where they were.
LEMMA OthersStay ==
    ASSUME QueryInv, NEW t \in Mods, Frame(t),
           at' \in [Mods -> Nat \ {0}], phase' \in [Mods -> Places],
           reg' \in [Mods -> Nat], answer' \in [Mods -> {"none", "yes", "no", "crash"}],
           \A u \in Mods \ {t} : /\ at'[u] = at[u] /\ phase'[u] = phase[u]
                                 /\ reg'[u] = reg[u] /\ answer'[u] = answer[u],
           PastIsSeen(t)',
           answer'[t] = "yes" /\ stable[t] => Truth(query[t]) \/ Dangling(query[t]),
           answer'[t] = "crash" => ~stable[t],
           answer'[t] = "no" /\ stable[t] /\ ~raced'[t] => ~Truth(query[t])
    PROVE  QueryInv'
<1>1. UNCHANGED <<game, query, stable>> BY DEF Frame, Queries
<1>2. /\ \A q : Truth(q)' <=> Truth(q)
      /\ \A q : Dangling(q)' <=> Dangling(q)
      /\ \A s : Seen(s)' <=> Seen(s)
  BY <1>1, Unmoved
<1>3. QueryTypes' BY <1>1 DEF QueryInv, QueryTypes, Frame, game
<1>4. OneInTheOther' BY <1>1 DEF QueryInv, OneInTheOther, game
<1>5. ASSUME NEW u \in Mods PROVE PastIsSeen(u)'
  <2>1. CASE u # t
    <3>1. UNCHANGED <<at[u], phase[u], reg[u], answer[u], query, stable, mapped, chat,
                   netGame>>
      BY <1>1, <2>1 DEF game
    <3>2. PastIsSeen(u) BY DEF QueryInv
    <3>3. Running(u)' <=> Running(u) BY <3>1 DEF Running
    <3>4. CASE Running(u) BY <1>2, <3>1, <3>2, <3>3, <3>4 DEF PastIsSeen
    <3>5. CASE ~Running(u) BY <3>1, <3>2, <3>3, <3>5 DEF PastIsSeen
    <3> QED BY <3>4, <3>5
  <2> QED BY <2>1
<1>6. AnswersAreTrue'
  BY <1>1, <1>2 DEF QueryInv, AnswersAreTrue, Frame
<1> QED BY <1>3, <1>4, <1>5, <1>6 DEF QueryInv, Frame

\* Another place in the same read.
LEMMA EnterStep ==
    ASSUME QueryInv, NEW t \in Mods, Running(t), Frame(t),
           NEW ph \in Places, Enter(t, ph),
           stable[t] /\ ph = "read" =>
               LET what == Program[query[t]][at[t]] IN
               /\ what \in Fields => reg[t] \in mapped
               /\ what = "chat" => chat
    PROVE  QueryInv'
<1>1. UNCHANGED <<game, query, stable, at, reg, answer>> /\ phase'[t] = ph
      /\ phase' \in [Mods -> Places] /\ \A u \in Mods \ {t} : phase'[u] = phase[u]
  BY DEF Frame, Queries, Enter, QueryInv, QueryTypes
<1>2. \A s : Seen(s)' <=> Seen(s) BY <1>1, Unmoved
<1>3. Running(t)' <=> Running(t) BY <1>1 DEF Running
<1>4. PastIsSeen(t)'
  BY <1>1, <1>2, <1>3 DEF PastIsSeen, QueryInv, game
<1>5. answer'[t] = "none" BY <1>1 DEF Running
<1> QED BY <1>1, <1>4, <1>5, OthersStay DEF QueryInv, QueryTypes

\* An answer: a true one, or for a reason that excuses it.
LEMMA AnswerStep ==
    ASSUME QueryInv, NEW t \in Mods, Running(t), Frame(t),
           NEW a \in {"yes", "no", "crash"}, Answer(t, a),
           a = "yes" /\ stable[t] => Truth(query[t]) \/ Dangling(query[t]),
           a = "crash" => ~stable[t],
           a = "no" /\ stable[t] /\ ~raced'[t] => ~Truth(query[t])
    PROVE  QueryInv'
<1>1. /\ answer' \in [Mods -> {"none", "yes", "no", "crash"}] /\ answer'[t] = a
      /\ phase' \in [Mods -> Places] /\ phase'[t] = "check"
      /\ at' \in [Mods -> Nat \ {0}] /\ at'[t] = 1
      /\ reg' \in [Mods -> Nat]
      /\ \A u \in Mods \ {t} : /\ at'[u] = at[u] /\ phase'[u] = phase[u]
                               /\ reg'[u] = reg[u] /\ answer'[u] = answer[u]
  BY DEF Answer, QueryInv, QueryTypes, Places
<1>2. ~Running(t)' BY <1>1 DEF Running
<1>3. PastIsSeen(t)' BY <1>1, <1>2 DEF PastIsSeen
<1> QED BY <1>1, <1>3, OthersStay

\* The next read, after one that has been seen; the last one gives the answer.
LEMMA GoStep ==
    ASSUME QueryInv, NEW t \in Mods, Running(t), Frame(t),
           NEW g \in Nat, Go(t, g),
           stable[t] =>
               LET what == Program[query[t]][at[t]] IN
               /\ Seen(what)
               /\ g = netGame \/ (g = reg[t] /\ what # "netGame")
    PROVE  QueryInv'
<1> DEFINE p == Program[query[t]]
<1>1. /\ query[t] \in DOMAIN Program /\ at[t] \in 1..Len(p) /\ Len(p) \in Nat
  BY AtARead, ProgramFacts
<1>2. stable[t] =>
         /\ \A i \in 1..at[t] - 1 : Seen(p[i])
         /\ (\E i \in 1..at[t] - 1 : p[i] = "netGame") => reg[t] = netGame
  BY DEF QueryInv, PastIsSeen
<1>3. stable[t] =>
         /\ \A i \in 1..at[t] : Seen(p[i])
         /\ (\E i \in 1..at[t] : p[i] = "netGame") => g = netGame
  <2>1. \A i \in 1..at[t] : i \in 1..at[t] - 1 \/ i = at[t] BY <1>1
  <2> QED BY <1>2, <2>1
<1>4. CASE at[t] = Len(p)
  <2>1. Answer(t, "yes") BY <1>4 DEF Go
  <2>2. stable[t] => Truth(query[t]) \/ Dangling(query[t])
    <3>1. \A s \in Wanted(query[t]) : \E i \in 1..Len(p) : p[i] = s BY <1>1, ProgramFacts
    <3> QED BY <1>1, <1>3, <1>4, <3>1, SeenIsTruth DEF QueryInv
  <2> QED BY <2>1, <2>2, AnswerStep
<1>5. CASE at[t] # Len(p)
  <2>1. /\ at' \in [Mods -> Nat \ {0}] /\ at'[t] = at[t] + 1
        /\ reg' \in [Mods -> Nat] /\ reg'[t] = g
        /\ phase' \in [Mods -> Places] /\ phase'[t] = "check"
        /\ answer' = answer
        /\ \A u \in Mods \ {t} : /\ at'[u] = at[u] /\ phase'[u] = phase[u]
                                 /\ reg'[u] = reg[u]
    <3>1. /\ at' = [at EXCEPT ![t] = at[t] + 1] /\ reg' = [reg EXCEPT ![t] = g]
          /\ phase' = [phase EXCEPT ![t] = "check"] /\ answer' = answer
      BY <1>5 DEF Go
    <3>2. at[t] + 1 \in Nat \ {0} BY <1>1
    <3> QED BY <3>1, <3>2 DEF QueryInv, QueryTypes, Places
  <2>2. UNCHANGED <<game, query, stable>> BY DEF Frame, Queries
  <2>3. \A s : Seen(s)' <=> Seen(s) BY <2>2, Unmoved
  <2>4. at'[t] <= Len(p) /\ at'[t] - 1 = at[t] BY <1>1, <1>5, <2>1
  <2>5. PastIsSeen(t)'
    <3>1. Running(t)' BY <2>1, <2>2 DEF Running
    <3> QED BY <1>3, <2>1, <2>2, <2>3, <2>4, <3>1 DEF PastIsSeen, game
  <2>6. answer'[t] = "none" BY <2>1 DEF Running
  <2> QED BY <2>1, <2>5, <2>6, OthersStay DEF QueryInv, QueryTypes
<1> QED BY <1>4, <1>5

\* What is known of the version: nothing, or that there is a build to ask.
LEMMA KnownStep ==
    ASSUME QueryInv, NEW t \in Mods, Running(t), Frame(t),
           Program[query[t]][at[t]] = "version",
           NEW v, Known(t, v),
           v # "Unknown" => supported /\ sampBase,
           v = "Unknown" => raced'[t] \/ ~(supported /\ sampBase)
    PROVE  QueryInv'
<1>1. Seen("version") <=> supported /\ sampBase BY DEF Seen, Fields
<1>2. CASE v = "Unknown"
  <2>1. Answer(t, "no") BY <1>2 DEF Known
  <2>2. raced'[t] \/ ~Truth(query[t]) BY <1>1, <1>2, AtARead
  <2> QED BY <2>1, <2>2, AnswerStep
<1>3. CASE v # "Unknown"
  <2>1. Go(t, reg[t]) /\ reg[t] \in Nat BY <1>3 DEF Known, QueryInv, QueryTypes
  <2> QED BY <1>1, <1>3, <2>1, GoStep
<1> QED BY <1>2, <1>3

\* Known goes back to a check, whatever it knows.
LEMMA KnownChecks ==
    ASSUME NEW t \in Mods, NEW v, Known(t, v)
    PROVE  phase' = [phase EXCEPT ![t] = "check"]
BY DEF Known, Answer, Go

-----------------------------------------------------------------------------
\* The cache, step by step.
LEMMA CacheStep ==
    ASSUME QueryInv, NEW t \in Mods, UNCHANGED game,
           \/ GetSAMPVersion(t) \/ StoreOne(t) \/ StoreOther(t)
           \/ UNCHANGED cache /\ phase[t] \in {"check", "read"}
                 /\ \E ph \in {"check", "read"} : phase' = [phase EXCEPT ![t] = ph]
    PROVE  g_versionCached' \in BOOLEAN /\ CacheMatchesStores'
<1> USE DEF QueryInv, QueryTypes, CacheMatchesStores, Places
<1>1. UNCHANGED <<supported, sampBase>> /\ Version' = Version
  BY DEF game, Version
<1>2. phase[t] \in {"detect", "flag", "value"} => Detected = Version
  BY DEF Detected
<1>3. CASE \/ GetSAMPVersion(t)
           \/ UNCHANGED cache /\ phase[t] \in {"check", "read"}
                 /\ \E ph \in {"check", "read"} : phase' = [phase EXCEPT ![t] = ph]
  <2>1. /\ UNCHANGED cache /\ phase[t] \in {"check", "read"}
        /\ \E ph \in {"check", "read", "detect"} :
              phase' = [phase EXCEPT ![t] = ph] /\ (ph = "detect" => sampBase)
    BY <1>3, KnownChecks
       DEF GetSAMPVersion, Reads, Search, Enter, Answer
  <2>2. PICK ph \in {"check", "read", "detect"} :
              phase' = [phase EXCEPT ![t] = ph] /\ (ph = "detect" => sampBase)
    BY <2>1
  <2> QED BY <1>1, <2>1, <2>2 DEF cache
<1>4. CASE StoreOne(t)
  <2>1. phase[t] = "detect" BY <1>4 DEF StoreOne, Reads
  <2>2. \/ /\ g_cachedVersion' = Version /\ g_versionCached' = g_versionCached
           /\ phase' = [phase EXCEPT ![t] = "flag"]
        \/ /\ g_cachedVersion' = g_cachedVersion /\ g_versionCached' = TRUE
           /\ phase' = [phase EXCEPT ![t] = "value"]
    BY <1>2, <1>4, <2>1 DEF StoreOne, Enter
  <2> QED BY <1>1, <2>1, <2>2
<1>5. CASE StoreOther(t)
  <2>1. phase' = [phase EXCEPT ![t] = "check"] BY <1>5, KnownChecks DEF StoreOther
  <2>2. phase[t] \in {"flag", "value"} BY <1>5 DEF StoreOther, Reads
  <2>3. /\ g_cachedVersion' = Version
        /\ g_versionCached' \in {g_versionCached, TRUE}
    BY <1>2, <1>5, <2>2 DEF StoreOther, Reads
  <2> QED BY <1>1, <2>1, <2>2, <2>3
<1> QED BY <1>3, <1>4, <1>5

\* The game: queries that see it change are not held to anything.
LEMMA GameStep ==
    ASSUME QueryInv, Changes, sampBase \in BOOLEAN,
           sampBase' \in BOOLEAN, sampBase => sampBase', chat' \in BOOLEAN,
           made' \in Nat, netGame' \in 0..made', live' \subseteq mapped',
           mapped' \subseteq 1..made',
           mem' \in Seq([state : Nat, pointers : SUBSET Pointers]), Len(mem') = made',
           OneInTheOther'
    PROVE  QueryInv'
<1>1. /\ UNCHANGED <<supported, query, at, phase, reg, answer, raced>>
      /\ UNCHANGED <<g_cachedVersion, g_versionCached>>
      /\ stable' = [t \in Mods |-> FALSE]
  BY DEF Changes, cache, place
<1>2. QueryTypes' BY <1>1 DEF QueryInv, QueryTypes
<1>3. CacheMatchesStores' BY <1>1 DEF QueryInv, CacheMatchesStores, Version
<1>4. \A t \in Mods : PastIsSeen(t)' BY <1>1 DEF QueryInv, PastIsSeen, Running
<1>5. AnswersAreTrue' BY <1>1 DEF AnswersAreTrue
<1> QED BY <1>2, <1>3, <1>4, <1>5 DEF QueryInv

\* A net game made or filled, or deleted and what was there lost: in a game that
\* there is the objects are still one in the other.
LEMMA NetGameStep ==
    ASSUME QueryInv,
           \/ MakeNetGame \/ FillNetGame \/ SetGameState \/ DeleteNetGame
           \/ \E g \in mapped : ReuseMemory(g) \/ GiveBackMemory(g)
    PROVE  QueryInv'
<1> DEFINE Objects == [state : Nat, pointers : SUBSET Pointers]
<1>1. /\ mem \in Seq(Objects) /\ Len(mem) = made /\ made \in Nat
      /\ netGame \in 0..made /\ live \subseteq mapped /\ mapped \subseteq 1..made
      /\ \A g \in 1..made : mem[g] \in Objects
  BY ElementOfSeq DEF QueryInv, QueryTypes
<1>2. ASSUME NEW g \in 1..made, NEW o \in Objects, mem' = [mem EXCEPT ![g] = o],
             made' = made
      PROVE  /\ mem' \in Seq(Objects) /\ Len(mem') = made' /\ mem'[g] = o
             /\ \A i \in 1..made : i # g => mem'[i] = mem[i]
  BY <1>1, <1>2, ExceptSeq
<1>3. CASE MakeNetGame
  <2>1. EmptyGame \in Objects BY DEF EmptyGame
  <2>2. /\ mem' \in Seq(Objects) /\ Len(mem') = made + 1 /\ mem'[made + 1] = EmptyGame
        /\ \A i \in 1..made : mem'[i] = mem[i]
    BY <1>1, <1>3, <2>1, AppendProperties DEF MakeNetGame
  <2>3. /\ made' = made + 1 /\ netGame' = made'
        /\ live' = live \cup {made'} /\ mapped' = mapped \cup {made'}
        /\ Changes /\ UNCHANGED <<sampBase, chat>>
    BY <1>3 DEF MakeNetGame
  <2>4. \A i \in live' : (i \in live /\ i \in 1..made) \/ i = made + 1 BY <1>1, <2>3
  <2>5. OneInTheOther'
    BY <2>2, <2>3, <2>4 DEF QueryInv, OneInTheOther, EmptyGame
  <2> QED BY <1>1, <2>2, <2>3, <2>5, GameStep DEF QueryInv, QueryTypes
<1>4. ASSUME FillNetGame \/ SetGameState
      PROVE  QueryInv'
  <2>1. netGame \in live /\ netGame \in 1..made
    BY <1>1, <1>4 DEF FillNetGame, SetGameState
  <2> DEFINE m == mem[netGame]
  <2>2. PICK o \in Objects :
           /\ mem' = [mem EXCEPT ![netGame] = o]
           /\ "playerPool" \in o.pointers => "pools" \in o.pointers
           /\ "localPlayer" \in o.pointers => "playerPool" \in o.pointers
    <3>1. m \in Objects BY <1>1, <2>1
    <3>2. /\ "playerPool" \in m.pointers => "pools" \in m.pointers
          /\ "localPlayer" \in m.pointers => "playerPool" \in m.pointers
      BY <2>1 DEF QueryInv, OneInTheOther
    <3>3. CASE FillNetGame
      <4>1. PICK p \in Pointers \ m.pointers :
               /\ p = "playerPool" => "pools" \in m.pointers
               /\ p = "localPlayer" => "playerPool" \in m.pointers
               /\ mem' = [mem EXCEPT ![netGame].pointers = m.pointers \cup {p}]
        BY <3>3 DEF FillNetGame
      <4> DEFINE o == [m EXCEPT !.pointers = m.pointers \cup {p}]
      <4>2. o \in Objects /\ o.pointers = m.pointers \cup {p} BY <3>1
      <4>3. mem' = [mem EXCEPT ![netGame] = o] BY <4>1
      <4> QED BY <3>2, <4>1, <4>2, <4>3
    <3>4. CASE SetGameState
      <4>1. PICK s \in {5, 14} : mem' = [mem EXCEPT ![netGame].state = s]
        BY <3>4 DEF SetGameState
      <4> DEFINE o == [m EXCEPT !.state = s]
      <4>2. o \in Objects /\ o.pointers = m.pointers BY <3>1
      <4>3. mem' = [mem EXCEPT ![netGame] = o] BY <4>1
      <4> QED BY <3>2, <4>2, <4>3
    <3> QED BY <1>4, <3>3, <3>4
  <2>3. Changes /\ UNCHANGED <<sampBase, chat, netGame, live, mapped, made>>
    BY <1>4 DEF FillNetGame, SetGameState
  <2>4. /\ mem' \in Seq(Objects) /\ Len(mem') = made' /\ mem'[netGame] = o
        /\ \A i \in 1..made : i # netGame => mem'[i] = mem[i]
    BY <1>2, <2>1, <2>2, <2>3
  <2>5. OneInTheOther' BY <1>1, <2>2, <2>3, <2>4 DEF QueryInv, OneInTheOther
  <2> QED BY <1>1, <2>3, <2>4, <2>5, GameStep DEF QueryInv, QueryTypes
<1>5. CASE DeleteNetGame
  <2>1. /\ live' \subseteq live
        /\ Changes /\ UNCHANGED <<sampBase, chat, netGame, mapped, made, mem>>
    BY <1>5 DEF DeleteNetGame
  <2>2. OneInTheOther' BY <2>1 DEF QueryInv, OneInTheOther
  <2> QED BY <1>1, <2>1, <2>2, GameStep DEF QueryInv, QueryTypes
<1>6. ASSUME NEW g \in mapped, ReuseMemory(g) \/ GiveBackMemory(g)
      PROVE  QueryInv'
  <2>1. /\ g \in 1..made /\ g \notin live /\ live' = live
        /\ mapped' \in {mapped, mapped \ {g}}
        /\ Changes /\ UNCHANGED <<sampBase, chat, netGame, made>>
    BY <1>1, <1>6 DEF ReuseMemory, GiveBackMemory
  <2>2. PICK o \in Objects : mem' = [mem EXCEPT ![g] = o]
    <3>1. EmptyGame \in Objects /\ Rubbish \subseteq Objects BY DEF EmptyGame, Rubbish
    <3> QED BY <1>6, <3>1 DEF ReuseMemory, GiveBackMemory
  <2>3. /\ mem' \in Seq(Objects) /\ Len(mem') = made'
        /\ \A i \in 1..made : i # g => mem'[i] = mem[i]
    BY <1>2, <2>1, <2>2
  <2>4. OneInTheOther' BY <1>1, <2>1, <2>3 DEF QueryInv, OneInTheOther
  <2>5. live' \subseteq mapped' /\ mapped' \subseteq 1..made' BY <1>1, <2>1
  <2> QED BY <1>1, <2>1, <2>3, <2>4, <2>5, GameStep DEF QueryInv, QueryTypes
<1> QED BY <1>3, <1>4, <1>5, <1>6

\* A query asked, with nothing seen yet.
LEMMA AskStep ==
    ASSUME QueryInv, NEW t \in Mods, NEW q \in DOMAIN Program, Ask(t, q)
    PROVE  QueryInv'
<1>1. /\ UNCHANGED <<game, cache, at, reg, phase>>
      /\ query' = [query EXCEPT ![t] = q] /\ answer' = [answer EXCEPT ![t] = "none"]
      /\ stable' = [stable EXCEPT ![t] = TRUE] /\ raced' = [raced EXCEPT ![t] = FALSE]
      /\ ~Running(t)
  BY DEF Ask
<1>2. /\ \A r : Truth(r)' <=> Truth(r)
      /\ \A r : Dangling(r)' <=> Dangling(r)
      /\ \A s : Seen(s)' <=> Seen(s)
  BY <1>1, Unmoved
<1>3. QueryTypes' BY <1>1 DEF QueryInv, QueryTypes, game, cache
<1>4. CacheMatchesStores' /\ OneInTheOther'
  BY <1>1 DEF QueryInv, CacheMatchesStores, OneInTheOther, game, cache, Version
<1>5. ASSUME NEW u \in Mods PROVE PastIsSeen(u)'
  <2>1. CASE u = t
    <3>1. at'[t] = 1 /\ phase'[t] = "check" BY <1>1 DEF QueryInv, PastIsSeen
    <3>2. query'[t] = q /\ q # "none" /\ answer'[t] = "none"
      BY <1>1, QueryNames DEF QueryInv, QueryTypes
    <3>3. 1 <= Len(Program[q]) BY ProgramFacts
    <3> QED BY <2>1, <3>1, <3>2, <3>3 DEF PastIsSeen, Running
  <2>2. CASE u # t
    <3>1. UNCHANGED <<at[u], phase[u], reg[u], answer[u], query[u], stable[u], mapped,
                     chat, netGame>>
      BY <1>1, <2>2 DEF game, QueryInv, QueryTypes
    <3>2. PastIsSeen(u) BY DEF QueryInv
    <3>3. Running(u)' <=> Running(u) BY <3>1 DEF Running
    <3>4. CASE Running(u) BY <1>2, <3>1, <3>2, <3>3, <3>4 DEF PastIsSeen
    <3>5. CASE ~Running(u) BY <3>1, <3>2, <3>3, <3>5 DEF PastIsSeen
    <3> QED BY <3>4, <3>5
  <2> QED BY <2>1, <2>2
<1>6. AnswersAreTrue'
  BY <1>1, <1>2 DEF QueryInv, QueryTypes, AnswersAreTrue
<1> QED BY <1>3, <1>4, <1>5, <1>6 DEF QueryInv

\* The steps that leave the cache alone are at a check or a read.
LEMMA Uncached ==
    ASSUME QueryInv, NEW t \in Mods, Queries, UNCHANGED <<cache, raced>>,
           phase[t] \in {"check", "read"},
           \/ \E ph \in {"check", "read"} : Enter(t, ph)
           \/ \E a \in {"yes", "no", "crash"} : Answer(t, a)
           \/ \E g \in Nat : Go(t, g)
    PROVE  Frame(t)
<1>1. \E ph \in {"check", "read"} : phase' = [phase EXCEPT ![t] = ph]
  BY DEF Enter, Answer, Go
<1>2. UNCHANGED game BY DEF Queries
<1>3. g_versionCached' \in BOOLEAN /\ CacheMatchesStores' BY <1>1, <1>2, CacheStep
<1> QED BY <1>3 DEF Frame, QueryInv, QueryTypes

\* GetSAMPVersion, from the look at the cache to the second store into it.
LEMMA VersionStep ==
    ASSUME QueryInv, NEW t \in Mods,
           GetSAMPVersion(t) \/ StoreOne(t) \/ StoreOther(t)
    PROVE  QueryInv'
<1>1. Queries /\ UNCHANGED <<game, query, stable>>
  BY DEF GetSAMPVersion, StoreOne, StoreOther, Queries
<1>2. Running(t) /\ Program[query[t]][at[t]] = "version"
  BY DEF GetSAMPVersion, StoreOne, StoreOther, Reads
<1>3. raced' \in [Mods -> BOOLEAN] /\ \A u \in Mods \ {t} : raced'[u] = raced[u]
  BY DEF QueryInv, QueryTypes, GetSAMPVersion, StoreOne, StoreOther
<1>4. Frame(t) BY <1>1, <1>3, CacheStep DEF Frame
<1>5. Version = (IF supported THEN "known" ELSE "Unknown") BY DEF Version
<1>6. CASE GetSAMPVersion(t)
  <2>1. CASE g_versionCached
    <3>1. Known(t, g_cachedVersion) BY <1>6, <2>1 DEF GetSAMPVersion
    <3>2. raced'[t] \/ ~\E u \in Mods : phase[u] = "value"
      BY <1>6 DEF GetSAMPVersion, QueryInv, QueryTypes
    <3>3. g_cachedVersion # "Unknown" => supported /\ sampBase
      BY <1>5 DEF QueryInv, CacheMatchesStores
    <3>4. g_cachedVersion = "Unknown" => raced'[t] \/ ~(supported /\ sampBase)
      BY <1>5, <2>1, <3>2 DEF QueryInv, CacheMatchesStores
    <3> QED BY <1>2, <1>4, <3>1, <3>3, <3>4, KnownStep
  <2>2. CASE ~g_versionCached /\ sampBase
    <3>1. Enter(t, "detect") BY <1>6, <2>2 DEF GetSAMPVersion, Search
    <3> QED BY <1>2, <1>4, <3>1, EnterStep DEF Places
  <2>3. CASE ~g_versionCached /\ ~sampBase
    <3>1. Answer(t, "no") BY <1>6, <2>3 DEF GetSAMPVersion, Search
    <3>2. ~Seen("version") BY <2>3 DEF Seen
    <3> QED BY <1>2, <1>4, <3>1, <3>2, AnswerStep, AtARead
  <2> QED BY <2>1, <2>2, <2>3
<1>7. CASE StoreOne(t)
  <2>1. PICK ph \in {"flag", "value"} : Enter(t, ph) BY <1>7 DEF StoreOne
  <2> QED BY <1>2, <1>4, <2>1, EnterStep DEF Places
<1>8. CASE StoreOther(t)
  <2>1. Known(t, Detected) BY <1>8 DEF StoreOther
  <2>2. sampBase /\ Detected = Version
    BY <1>8 DEF StoreOther, Reads, QueryInv, CacheMatchesStores, Detected
  <2> QED BY <1>2, <1>4, <1>5, <2>1, <2>2, KnownStep
<1> QED BY <1>6, <1>7, <1>8

\* GetSAMPInfo.
LEMMA NetGameReadStep ==
    ASSUME QueryInv, NEW t \in Mods, GetSAMPInfo(t)
    PROVE  QueryInv'
<1>1. /\ Running(t) /\ Program[query[t]][at[t]] = "netGame" /\ phase[t] = "check"
      /\ Queries /\ UNCHANGED <<cache, raced>>
  BY DEF GetSAMPInfo, Reads
<1>2. netGame \in Nat BY DEF QueryInv, QueryTypes
<1>3. Seen("netGame") <=> netGame # 0 BY DEF Seen, Fields
<1>4. CASE netGame = 0
  <2>1. Answer(t, "no") BY <1>4 DEF GetSAMPInfo
  <2>2. Frame(t) BY <1>1, <2>1, Uncached
  <2> QED BY <1>1, <1>3, <1>4, <2>1, <2>2, AnswerStep, AtARead
<1>5. CASE netGame # 0
  <2>1. Go(t, netGame) BY <1>5 DEF GetSAMPInfo
  <2>2. Frame(t) BY <1>1, <1>2, <2>1, Uncached
  <2> QED BY <1>1, <1>2, <1>3, <1>5, <2>1, <2>2, GoStep
<1> QED BY <1>4, <1>5

\* A field is looked for in the net game there is, as long as that is the same.
LEMMA FieldIsOfNetGame ==
    ASSUME QueryInv, NEW t \in Mods, Running(t), stable[t],
           Program[query[t]][at[t]] \in Fields
    PROVE  reg[t] = netGame
<1> DEFINE p == Program[query[t]]
<1>1. query[t] \in DOMAIN Program /\ at[t] \in 1..Len(p) BY AtARead
<1>2. \E i \in 1..at[t] - 1 : p[i] = "netGame" BY <1>1, ProgramFacts
<1> QED BY <1>2 DEF QueryInv, PastIsSeen

\* A check of a pointer ...
LEMMA CheckStep ==
    ASSUME QueryInv, NEW t \in Mods, Check(t)
    PROVE  QueryInv'
<1> DEFINE what == Program[query[t]][at[t]]
<1>1. /\ Running(t) /\ what \in Fields \cup {"chat"} /\ phase[t] = "check"
      /\ Queries /\ UNCHANGED <<cache, raced>>
      /\ "chat" \notin Fields
  BY DEF Check, Reads, Fields
<1>2. \/ Enter(t, "read") /\ what \in Fields /\ reg[t] \in mapped
      \/ Answer(t, "no") /\ what \in Fields /\ reg[t] \notin mapped
      \/ Enter(t, "read") /\ what = "chat" /\ chat
      \/ Answer(t, "no") /\ what = "chat" /\ ~chat
  BY DEF Check, Reads, IsValidPtr
<1>3. Frame(t) BY <1>1, <1>2, Uncached
<1>4. CASE Enter(t, "read") /\ (what \in Fields => reg[t] \in mapped)
           /\ (what = "chat" => chat)
  BY <1>1, <1>3, <1>4, EnterStep DEF Places
<1>5. CASE Answer(t, "no") /\ what \in Fields /\ reg[t] \notin mapped
  <2>1. stable[t] => ~Seen(what) BY <1>1, <1>5, FieldIsOfNetGame DEF Seen
  <2> QED BY <1>1, <1>3, <1>5, <2>1, AnswerStep, AtARead
<1>6. CASE Answer(t, "no") /\ what = "chat" /\ ~chat
  <2>1. ~Seen(what) BY <1>6 DEF Seen
  <2> QED BY <1>1, <1>3, <1>6, <2>1, AnswerStep, AtARead
<1> QED BY <1>1, <1>2, <1>4, <1>5, <1>6

\* ... and the read after it, which finds the memory gone only if the game changed.
LEMMA ReadStep ==
    ASSUME QueryInv, NEW t \in Mods, Read(t)
    PROVE  QueryInv'
<1> DEFINE what == Program[query[t]][at[t]]
<1>1. /\ Running(t) /\ what \in Fields \cup {"chat"} /\ phase[t] = "read"
      /\ Queries /\ UNCHANGED <<cache, raced>>
      /\ "chat" \notin Fields /\ {"version", "netGame"} \cap Fields = {}
      /\ reg[t] \in Nat
  BY DEF Read, Reads, Fields, QueryInv, QueryTypes
<1>2. \/ what \in Fields /\ reg[t] \notin mapped /\ Answer(t, "crash")
      \/ what \in Fields /\ Holds(reg[t], what) /\ Go(t, reg[t])
            /\ reg[t] \in mapped
      \/ what \in Fields /\ ~Holds(reg[t], what) /\ Answer(t, "no")
      \/ what = "chat" /\ Go(t, reg[t])
  BY DEF Read, Reads
<1>3. Frame(t) BY <1>1, <1>2, Uncached
<1>4. stable[t] => /\ what \in Fields => reg[t] \in mapped
                   /\ what = "chat" => chat
  BY <1>1 DEF QueryInv, PastIsSeen
<1>5. stable[t] /\ what \in Fields => reg[t] = netGame BY <1>1, FieldIsOfNetGame
<1>6. CASE what \in Fields /\ reg[t] \notin mapped /\ Answer(t, "crash")
  BY <1>1, <1>3, <1>4, <1>6, AnswerStep
<1>7. CASE what \in Fields /\ Holds(reg[t], what) /\ Go(t, reg[t])
           /\ reg[t] \in mapped
  <2>1. stable[t] => Seen(what) BY <1>1, <1>5, <1>7 DEF Seen
  <2> QED BY <1>1, <1>3, <1>5, <1>7, <2>1, GoStep
<1>8. CASE what \in Fields /\ ~Holds(reg[t], what) /\ Answer(t, "no")
  <2>1. stable[t] => ~Seen(what) BY <1>5, <1>8 DEF Seen
  <2> QED BY <1>1, <1>3, <1>8, <2>1, AnswerStep, AtARead
<1>9. CASE what = "chat" /\ Go(t, reg[t])
  <2>1. stable[t] => Seen(what) BY <1>1, <1>4, <1>9 DEF Seen
  <2> QED BY <1>1, <1>3, <1>9, <2>1, GoStep
<1> QED BY <1>2, <1>6, <1>7, <1>8, <1>9

-----------------------------------------------------------------------------
\* No query is under way, nothing is cached.
LEMMA QueryInit == QueriesInit => QueryInv
<1> SUFFICES ASSUME QueriesInit PROVE QueryInv OBVIOUS
<1>1. QueryTypes
  <2>1. mem \in Seq([state : Nat, pointers : SUBSET Pointers]) /\ Len(mem) = 0
    BY EmptySeq DEF QueriesInit
  <2>2. /\ made = 0 /\ netGame = 0 /\ mapped = {} /\ live = {}
        /\ 0 \in Nat /\ 0 \in 0..0 /\ {} \subseteq 1..0
    BY DEF QueriesInit
  <2>3. /\ made \in Nat /\ netGame \in 0..made
        /\ live \subseteq mapped /\ mapped \subseteq 1..made
        /\ Len(mem) = made
    BY <2>1, <2>2
  <2>4. /\ supported \in BOOLEAN /\ sampBase \in BOOLEAN /\ chat \in BOOLEAN
        /\ g_versionCached \in BOOLEAN
    BY DEF QueriesInit
  <2>5. query \in [Mods -> DOMAIN Program \cup {"none"}] BY DEF QueriesInit
  <2>6. /\ at \in [Mods -> Nat \ {0}] /\ phase \in [Mods -> Places]
        /\ reg \in [Mods -> Nat]
    BY DEF QueriesInit, Places
  <2>7. /\ answer \in [Mods -> {"none", "yes", "no", "crash"}]
        /\ stable \in [Mods -> BOOLEAN] /\ raced \in [Mods -> BOOLEAN]
    BY DEF QueriesInit
  <2> QED BY <2>1, <2>3, <2>4, <2>5, <2>6, <2>7 DEF QueryTypes
<1>2. CacheMatchesStores BY DEF QueriesInit, CacheMatchesStores, Version
<1>3. OneInTheOther BY DEF QueriesInit, OneInTheOther
<1>4. \A t \in Mods : PastIsSeen(t) BY DEF QueriesInit, PastIsSeen, Running
<1>5. AnswersAreTrue BY DEF QueriesInit, AnswersAreTrue
<1> QED BY <1>1, <1>2, <1>3, <1>4, <1>5 DEF QueryInv

\* Every step keeps the invariant.
LEMMA QueryNext == QueryInv /\ [QueriesNext]_queriesVars => QueryInv'
<1> SUFFICES ASSUME QueryInv, [QueriesNext]_queriesVars PROVE QueryInv' OBVIOUS
<1>1. CASE UNCHANGED queriesVars
  BY <1>1 DEF queriesVars, game, cache, place, QueryInv, QueryTypes,
              CacheMatchesStores, OneInTheOther, PastIsSeen, AnswersAreTrue, Truth, Dangling,
              Running, Version, Seen, Holds
<1>2. CASE LoadSamp \/ OpenChat \/ ClearNetGame
  <2>1. OneInTheOther'
    BY <1>2 DEF LoadSamp, OpenChat, ClearNetGame, QueryInv, OneInTheOther
  <2>2. /\ Changes /\ UNCHANGED <<live, mapped, made, mem>>
        /\ sampBase \in BOOLEAN /\ sampBase' \in {sampBase, TRUE}
        /\ chat \in BOOLEAN /\ chat' \in {chat, TRUE}
        /\ netGame' \in {netGame, 0}
    BY <1>2 DEF LoadSamp, OpenChat, ClearNetGame, QueryInv, QueryTypes
  <2>3. /\ made \in Nat /\ netGame \in 0..made
        /\ live \subseteq mapped /\ mapped \subseteq 1..made
        /\ mem \in Seq([state : Nat, pointers : SUBSET Pointers]) /\ Len(mem) = made
        /\ 0 \in 0..made
    BY DEF QueryInv, QueryTypes
  <2> QED BY <2>1, <2>2, <2>3, GameStep
<1>3. CASE \/ MakeNetGame \/ FillNetGame \/ SetGameState \/ DeleteNetGame
           \/ \E g \in mapped : ReuseMemory(g) \/ GiveBackMemory(g)
  BY <1>3, NetGameStep
<1>4. ASSUME NEW t \in Mods, NEW q \in DOMAIN Program, Ask(t, q) PROVE QueryInv'
  BY <1>4, AskStep
<1>5. ASSUME NEW t \in Mods, GetSAMPVersion(t) \/ StoreOne(t) \/ StoreOther(t)
      PROVE  QueryInv'
  BY <1>5, VersionStep
<1>6. ASSUME NEW t \in Mods, GetSAMPInfo(t) PROVE QueryInv' BY <1>6, NetGameReadStep
<1>7. ASSUME NEW t \in Mods, Check(t) PROVE QueryInv' BY <1>7, CheckStep
<1>8. ASSUME NEW t \in Mods, Read(t) PROVE QueryInv' BY <1>8, ReadStep
<1> QED BY <1>1, <1>2, <1>3, <1>4, <1>5, <1>6, <1>7, <1>8 DEF QueriesNext

(* The invariant holds in every state the queries and the game can reach. *)
THEOREM QueryInvariance == QueriesSpec => []QueryInv
<1> QED BY QueryInit, QueryNext, PTL DEF QueriesSpec

(* GetSAMPVersion: once the cache is set, and no thread is between its two    *)
(* stores, it holds the build's version, however many threads fill it.        *)
THEOREM CacheStaysRight == QueriesSpec => []CacheIsRight
<1>1. QueryInv => CacheIsRight BY DEF QueryInv, CacheMatchesStores, CacheIsRight
<1> QED BY <1>1, QueryInvariance, PTL

(* te-samp.cpp: a query during which the game did not change answers the      *)
(* truth, unless it saw the cache's flag before its value, or samp.dll still  *)
(* points to a net game it has deleted; and no query crashes unless the game  *)
(* changed during it.                                                         *)
THEOREM QueriesTellTheTruth == QueriesSpec => []AnswersAreTrue
<1>1. QueryInv => AnswersAreTrue BY DEF QueryInv
<1> QED BY <1>1, QueryInvariance, PTL

-----------------------------------------------------------------------------
(* The logger.  One thread at a time initialises, one writes, and the file    *)
(* ends where a session began exactly if a header is due.                     *)

\* A thread past the lock has it, and a name is half copied under the lock only.
NameIsLocked ==
    /\ sessionReset \in BOOLEAN
    /\ step \in [Callers -> {"idle", "nameLock", "nameCopy", "once", "folder", "path",
                           "lock", "open", "write"}]
    /\ name \in [Callers -> Names \cup {None, HalfCopied}]
    /\ \A t \in Callers :
          /\ step[t] \in {"nameCopy", "open", "write"} => logMutex = t
          /\ step[t] \in {"nameLock", "nameCopy"} => name[t] # HalfCopied
    /\ modName \in Names \cup {None, HalfCopied}
    /\ modName = HalfCopied => \E t \in Callers : step[t] = "nameCopy"

\* One thread initialises at a time, and the folder is the one it has made.
OneInitialises ==
    /\ \A t \in Callers :
          /\ step[t] \in {"folder", "path"} => onceFlag = t
          /\ step[t] \in {"lock", "open", "write"} => onceFlag = "yes"
          /\ step[t] = "path" => folders = {Folder(name[t])}
    /\ onceFlag = "yes" => folders = {logFilePath}
    /\ onceFlag = "yes" \/ folders = {} \/ \E t \in Callers : step[t] = "path"

\* The file ends where a session began exactly if a header is due.
HeaderIsDue ==
    /\ file \in Seq([header : BOOLEAN, mod : Names \cup {None, HalfCopied}])
    /\ resets \subseteq 0..Len(file)
    /\ sessionReset <=> Len(file) \in resets

LogInv == /\ NameIsLocked /\ OneInitialises /\ HeaderIsDue
          /\ SessionsAreSeparated

\* A header and a line, or a line, at the end of the file.
LEMMA RecordsFacts ==
    ASSUME NEW S, NEW f \in Seq(S), NEW a \in S, NEW b \in S
    PROVE  /\ f \o <<a>> \in Seq(S) /\ Len(f \o <<a>>) = Len(f) + 1
           /\ \A i \in 1..Len(f) : (f \o <<a>>)[i] = f[i]
           /\ (f \o <<a>>)[Len(f) + 1] = a
           /\ f \o <<a, b>> \in Seq(S) /\ Len(f \o <<a, b>>) = Len(f) + 2
           /\ \A i \in 1..Len(f) : (f \o <<a, b>>)[i] = f[i]
           /\ (f \o <<a, b>>)[Len(f) + 1] = a /\ (f \o <<a, b>>)[Len(f) + 2] = b
<1>1. /\ <<a>> \in Seq(S) /\ Len(<<a>>) = 1 /\ <<a>>[1] = a
      /\ <<a, b>> \in Seq(S) /\ Len(<<a, b>>) = 2
      /\ <<a, b>>[1] = a /\ <<a, b>>[2] = b
  OBVIOUS
<1>2. Len(f) \in Nat BY LenProperties
<1>3. \A t \in Seq(S) : /\ f \o t \in Seq(S) /\ Len(f \o t) = Len(f) + Len(t)
                        /\ \A i \in 1..Len(f) + Len(t) :
                              (f \o t)[i] = IF i <= Len(f) THEN f[i] ELSE t[i - Len(f)]
  BY ConcatProperties
<1>4. (Len(f) + 1) - Len(f) = 1 /\ (Len(f) + 2) - Len(f) = 2 BY <1>2
<1> QED BY <1>1, <1>2, <1>3, <1>4

\* Nothing is made, and the first header is due.
LEMMA LogInit == LoggerInit => LogInv
BY LoggerAssumption, EmptySeq
   DEF LoggerInit, LogInv, NameIsLocked, OneInitialises, HeaderIsDue,
       SessionsAreSeparated, HalfCopied

\* Every step keeps the invariant, one action at a time.
LEMMA LogNext ==
    ASSUME LogInv, [LoggerNext]_loggerVars PROVE LogInv'
<1> USE LoggerAssumption DEF Move, Call, Fault, Take, Release,
            Folder, locked, once, LogInv, NameIsLocked, OneInitialises
<1>1. CASE UNCHANGED loggerVars
  BY <1>1 DEF loggerVars, HeaderIsDue, SessionsAreSeparated
<1>2. ASSUME NEW t \in Callers, NEW on \in BOOLEAN, SetLoggingEnabled(t, on)
      PROVE  LogInv'
  BY <1>2 DEF SetLoggingEnabled, HeaderIsDue, SessionsAreSeparated
<1>3. ASSUME NEW t \in Callers, ResetSession(t) PROVE LogInv'
  <2>1. Len(file) \in Nat BY LenProperties DEF HeaderIsDue
  <2>2. \A i \in DOMAIN file : i - 1 # Len(file)
    BY <2>1, LenProperties DEF HeaderIsDue
  <2>3. HeaderIsDue'
    <3>1. file' = file /\ resets' = resets \cup {Len(file)} /\ sessionReset' = TRUE
      BY <1>3 DEF ResetSession
    <3>2. Len(file) \in 0..Len(file) BY <2>1
    <3> QED BY <3>1, <3>2 DEF HeaderIsDue
  <2>4. SessionsAreSeparated'
    BY <1>3, <2>2 DEF ResetSession, SessionsAreSeparated
  <2> QED BY <1>3, <2>3, <2>4 DEF ResetSession
<1>4. ASSUME NEW t \in Callers, NEW n \in Names \cup {None}, SetModName(t, n)
      PROVE  LogInv'
  BY <1>4 DEF SetModName, HeaderIsDue, SessionsAreSeparated
<1>5. ASSUME NEW t \in Callers, Log(t) PROVE LogInv'
  <2>1. step' \in {[step EXCEPT ![t] = "once"], [step EXCEPT ![t] = "idle"]}
    BY <1>5 DEF Log
  <2> QED BY <1>5, <2>1 DEF Log, HeaderIsDue, SessionsAreSeparated
<1>6. ASSUME NEW t \in Callers, BeginNaming(t) PROVE LogInv'
  BY <1>6 DEF BeginNaming, HeaderIsDue, SessionsAreSeparated
<1>7. ASSUME NEW t \in Callers, EndNaming(t) PROVE LogInv'
  BY <1>7 DEF EndNaming, HeaderIsDue, SessionsAreSeparated
<1>8. ASSUME NEW t \in Callers, Initialise(t) PROVE LogInv'
  BY <1>8 DEF Initialise, RunsOnce, HeaderIsDue, SessionsAreSeparated
<1>9. ASSUME NEW t \in Callers, PassOnce(t) PROVE LogInv'
  BY <1>9 DEF PassOnce, HeaderIsDue, SessionsAreSeparated
<1>10. ASSUME NEW t \in Callers, CreateFolder(t) PROVE LogInv'
  BY <1>10 DEF CreateFolder, HeaderIsDue, SessionsAreSeparated
<1>11. ASSUME NEW t \in Callers, FolderFails(t) PROVE LogInv'
  BY <1>11 DEF FolderFails, HeaderIsDue, SessionsAreSeparated
<1>12. ASSUME NEW t \in Callers, SetPath(t) PROVE LogInv'
  BY <1>12 DEF SetPath, HeaderIsDue, SessionsAreSeparated
<1>13. ASSUME NEW t \in Callers, LockLog(t) PROVE LogInv'
  BY <1>13 DEF LockLog, HeaderIsDue, SessionsAreSeparated
<1>14. ASSUME NEW t \in Callers, OpenFails(t) PROVE LogInv'
  BY <1>14 DEF OpenFails, HeaderIsDue, SessionsAreSeparated
<1>15. ASSUME NEW t \in Callers, Open(t) PROVE LogInv'
  BY <1>15 DEF Open, HeaderIsDue, SessionsAreSeparated
<1>16. ASSUME NEW t \in Callers, Write(t) PROVE LogInv'
  <2> DEFINE S == [header : BOOLEAN, mod : Names \cup {None, HalfCopied}]
  <2>1. /\ modName # HalfCopied /\ HalfCopied # None
        /\ Header(modName) \in S /\ Line \in S
        /\ Header(modName).header /\ Header(modName).mod # HalfCopied
        /\ ~Line.header /\ Line.mod # HalfCopied
    BY <1>16 DEF Write, Header, Line
  <2>2. file \in Seq(S) /\ Len(file) \in Nat /\ DOMAIN file = 1..Len(file)
    BY LenProperties DEF HeaderIsDue
  <2>3. CASE sessionReset
    <3>1. file' = file \o <<Header(modName), Line>> BY <1>16, <2>3 DEF Write
    <3>2. /\ file' \in Seq(S) /\ Len(file') = Len(file) + 2
          /\ \A i \in 1..Len(file) : file'[i] = file[i]
          /\ file'[Len(file) + 1] = Header(modName)
          /\ file'[Len(file) + 2] = Line
          /\ DOMAIN file' = 1..Len(file) + 2
      BY <2>1, <2>2, <3>1, RecordsFacts, LenProperties
    <3>3. HeaderIsDue' BY <1>16, <2>2, <3>2 DEF Write, HeaderIsDue
    <3>4. ASSUME NEW i \in 1..Len(file) + 2
          PROVE  /\ file'[i].header <=> (i - 1) \in resets
                 /\ file'[i].mod # HalfCopied
      <4>1. CASE i \in 1..Len(file)
        BY <2>2, <3>2, <4>1 DEF SessionsAreSeparated
      <4>2. CASE i = Len(file) + 1
        <5>1. i - 1 = Len(file) BY <2>2, <4>2
        <5> QED BY <2>1, <2>3, <3>2, <4>2, <5>1 DEF HeaderIsDue
      <4>3. CASE i = Len(file) + 2
        <5>1. i - 1 \notin resets BY <2>2, <4>3 DEF HeaderIsDue
        <5> QED BY <2>1, <3>2, <4>3, <5>1
      <4> QED BY <2>2, <4>1, <4>2, <4>3
    <3>5. SessionsAreSeparated'
      BY <1>16, <3>2, <3>4 DEF Write, SessionsAreSeparated
    <3> QED BY <1>16, <3>3, <3>5 DEF Write
  <2>4. CASE ~sessionReset
    <3>1. file' = file \o <<Line>> BY <1>16, <2>4 DEF Write
    <3>2. /\ file' \in Seq(S) /\ Len(file') = Len(file) + 1
          /\ \A i \in 1..Len(file) : file'[i] = file[i]
          /\ file'[Len(file) + 1] = Line
          /\ DOMAIN file' = 1..Len(file) + 1
      BY <2>1, <2>2, <3>1, RecordsFacts, LenProperties
    <3>3. HeaderIsDue' BY <1>16, <2>2, <3>2 DEF Write, HeaderIsDue
    <3>4. SessionsAreSeparated'
      BY <1>16, <2>1, <2>2, <2>4, <3>2
         DEF Write, HeaderIsDue, SessionsAreSeparated
    <3> QED BY <1>16, <3>3, <3>4 DEF Write
  <2> QED BY <2>3, <2>4
<1> QED BY <1>1, <1>2, <1>3, <1>4, <1>5, <1>6, <1>7, <1>8, <1>9, <1>10, <1>11, <1>12,
           <1>13, <1>14, <1>15, <1>16
        DEF LoggerNext, Continue

\* The invariant holds in every state the logger can reach.
LEMMA LogInvariance == LoggerSpec => []LogInv
<1> QED BY LogInit, LogNext, PTL DEF LoggerSpec

(* te-logger.cpp: there is one log folder, made before any thread opens a file *)
(* in it, whichever thread comes first and however many tries fail.           *)
THEOREM LogHasItsFolder == LoggerSpec => []LogsIntoItsFolder
<1>1. LogInv => LogsIntoItsFolder
  BY DEF LogInv, OneInitialises, LogsIntoItsFolder
<1> QED BY <1>1, LogInvariance, PTL

(* Log: a record of the file is a header exactly if a session began there, and *)
(* names the mod as it was set, whoever resets, logs and names meanwhile.     *)
THEOREM SessionsHaveHeaders == LoggerSpec => []SessionsAreSeparated
<1>1. LogInv => SessionsAreSeparated BY DEF LogInv
<1> QED BY <1>1, LogInvariance, PTL
=============================================================================
