# TE SDK: TLA+ models, checks and proofs

TE SDK is a C++ library for mods of SA-MP, the multiplayer client of GTA San
Andreas. It finds the game's RakNet client in memory, hooks its functions with
MinHook, lets callbacks see and refuse the packets and RPCs that pass, gives mods
a client of their own to send with, and reads the game's state for them. Its code
runs on threads it does not own: the game's network and main threads, which enter
it through hooks at any moment, and the mods' own threads.

This directory models that code in TLA+ (paths below are relative to
`src/#TE SDK/`, but for `README.md`, which is the repository's). TLC checks the
models on small instances; TLAPS proves every safety property of every run that is
expected to pass, for every instance, and with them that three of the models
implement the abstract filter. `PROJECT.json` lists the components, the runs, which lines each
definition models, and the hazards that the properties are for.

- [The system](#the-system)
- [Modules](#modules)
- [Runs](#runs)
- [Fairness](#fairness)
- [What is proved](#what-is-proved)
- [Findings and observations](#findings-and-observations)
- [What is not modelled](#what-is-not-modelled)
- [Plan](#plan)

## The system

### Components

| Component | State | Operations | What makes it correct |
|---|---|---|---|
| Callback registry and dispatch, `te-sdk.cpp:13-134` | four vectors of callbacks, `g_mutex` (recursive) | `RegisterRaknetCallback`, `OnOutgoingRpc`, `OnIncomingRpc`, `OnOutgoingPacket`, `OnIncomingPacket` | the mutex is given back on every way out, at every depth of re-entry; no callback is skipped; no iterator dangles through another thread |
| Hook installation, `te-sdk.cpp:448-658` | `LocalClient`, the `o*` trampolines, MinHook's table | `InitRakNetHooks`, `AttachRakNetHooks`, `AttachHandleRpcPacketHook` | a retry loop that leaks nothing, one call succeeds and has hooked everything, hooks that are live have a client behind them |
| Incoming packets, `te-sdk.cpp:185-207` | none but the packet in hand | `hkReceive` | each packet ends once: returned, freed, or lost to an exception; none held back |
| Incoming RPCs, `te-sdk.cpp:319-446` | `g_rakPeer`, `g_playerId`, the rewritten RPC | `hkHandleRpcPacket`, `ReplayIncomingRPC` | refused RPCs stay out, none is handled twice, edits arrive, replays have a sender |
| Outgoing traffic, `te-sdk.cpp:140-273`, `te-rakclient.cpp` | none | five send hooks, `SendRPC`, `SendPacket` | the caller is told the truth, each message is judged once, edits go out |
| Session information, `te-sdk.cpp:99-110, 279-317` | `sessionInfo`, without a lock | `hkConnect`, `hkDisconnect` | names the server RakNet was asked for, and no connection is missing from it |
| `RakNet::BitStream` memory, `FullRakNet/BitStream.cpp` | data, used and allocated bits, `copyData` | construction, `AddBitsAndReallocate`, `Reset`, `SetWriteOffset`, `SetData`, `SetNumberOfBitsAllocated`, alignment, `AssertCopyData`, destruction | no overrun, everything below the write offset is defined, what is allocated is freed |
| `RakNet::BitStream` encoding, `BitStream.cpp`, `BitStream.h` | the bits, two offsets | `Write*`, `Read*` for bits, bools, bytes, compressed integers, deltas, structs, streams | what is read is what was written, or the read fails |
| RPC extraction, `te-helper.cpp:189-268` | the caller's `ExtractedRPC` | `ExtractRPCData` | accepts whole RPCs and fragments only, extracts what was sent |
| Client wrapper, `te-rakclient.h` | `raw`, `originalVtable` | 54 methods, each a call of a numbered vtable entry | each number is that of the function of the same name |
| Chat commands, `te-samp.cpp:117-183, 283-324, 416-441` | `g_registeredCommands`, `g_cmdMutex`, `g_cmdHookInstalled`, `oSendCmd` | `RegisterChatCommand`, `InstallCmdHook`, `hkSendCmd`, `SendCommand` | registered commands are never forwarded, callbacks can send, each mutex has one holder and is given back |
| Queries, `te-samp.cpp:56-113, 187-281, 326-414` and version probe, `te-helper.cpp:23-120` | `g_cachedVersion`, `g_versionCached` | `GetSAMPVersion`, `GetSAMPInfo`, `AddChatMessage`, `GetServerName`, `GetPlayerName`, `GetPlayerId`, `IsGameLoaded`, `IsPlayerSpawned` | true answers, no crash on missing objects, a right cache |
| Logger, `te-logger.cpp` | `g_logFileInitFlag`, `g_logFilePath`, `g_modName`, `sessionReset`, `g_logMutex`, `g_loggingEnabled` | `Log`, `ResetSession`, `SetModName`, `SetLoggingEnabled` | one folder, one header for each session |
| `HookedRakClientInterface`, `te-hookedrakclient.*` | `forwarder` | a facade over `LocalClient` for mods: `Connect`, `Disconnect`, `Receive`, five send functions that filter by themselves, 46 methods that pass a call on; the project file does not compile it, `te-sdk.h:106` declares it | what passes it and the hooks below it still ends once, and as it was judged |
| RakNet's value types and clock; vendored headers | | | third-party |

### How they interact

    game ──Receive──▶ hkReceive ───────────┐                 mods' threads
    game ──Send/RPC─▶ hkSend_*, hkRPC_* ───┤ On* under         │ register, send,
    RakNet ─────────▶ hkHandleRpcPacket ───┘ g_mutex           │ query, log
                          │                    │               ▼
                          │                callbacks ──▶ LocalClient (TERakClient)
                          ▼                                    │ vtable[i]
                    original functions ◀── trampolines ◀── the same hooks again

    mods ──▶ HookedRakClientInterface ── its forwarder ──▶ LocalClient ──▶ the hooks

- Hooks call the dispatchers, dispatchers call callbacks under `g_mutex`, and a
  callback may send through `LocalClient`, whose wrapper calls the game's vtable
  and so enters the hooks again, on the same thread, under the same mutex.
- A callback may register callbacks (the vector it is called from grows under
  the loop), reset or edit the stream it is shown, and throw.
- `InitRakNetHooks` is polled by a thread of each mod while the hooks it has
  enabled already run on the game's threads.
- Chat commands have a mutex of their own, also held while a callback runs: a
  command's callback that sends takes `g_mutex` under it, and a RakNet callback
  that registers or sends a command takes it under `g_mutex`.
- `HookedRakClientInterface` calls `LocalClient`, and with it the hooks: it shows
  each message to the callbacks once more than they do, and writes the same
  session record.
- Every component logs; the logger may throw, once, while it makes its folder.
- Everything that depends on the build of SA-MP goes through `GetSAMPVersion`.

### What is hard about it

Re-entry under a recursive mutex and into a vector that is being walked; half
done installations that are live; exceptions of foreign code through hooks that
own packets; unsynchronised globals (`g_rakPeer`, `g_playerId`, the version
cache, the mod name, the session record); facade and hooks that do the same work in
two layers; streams that are rewound and rewritten by several parties;
locks held over foreign code. `PROJECT.json` names each such hazard at its line,
with the properties that would catch it, or the reason why none does.

## Modules

Each component's module has its state as variables, one action for each
operation or step between two points where others can interfere, and its
properties at its end. Definitions that begin with the comment *Mutant* are
plausible bugs, put in place of the definition they precede to see that the
property fails.

| Module | Models | Main abstractions |
|---|---|---|
| `HookForwarder` | the registry: `stack[t]` is the thread's nest of dispatches and registrations, `owner`/`holds` the recursive mutex, `size`/`capacity`/`storage` each vector | a callback is its index; what it does is chosen at each step: return, refuse, throw, send, register |
| `HookInstall` | `InitRakNetHooks` call by call, on several threads, with a network thread that runs through what is enabled | MinHook succeeds or fails at each call; an address is a model value that a later allocation may return again |
| `PacketFilter` | the abstract filter: each message is judged, then delivered, dropped or lost, once; `Default` has the words there may be on what nobody judges | |
| `ReceiveHook` | `hkReceive` on several threads, called by the game or by the facade's `Receive`; implements `PacketFilter` | dispatch is one judgement; contents are left out |
| `OutgoingTraffic` | the five send hooks and the facade's five send functions, nested; implements `PacketFilter` | contents are original, rewritten or resized |
| `Session` | `hkConnect`, `hkDisconnect` and the facade's `Connect` and `Disconnect` on several threads, store by store | a server is a model value; the four fields between the host and the flag are one |
| `IncomingRpc` | `hkHandleRpcPacket` on several threads and `ReplayIncomingRPC`; implements `PacketFilter` | an RPC is its form, number of bits, sender, and whether it was edited |
| `BitStreamBuffer` | the storage of a stream: where, how many bytes, how many recorded, how many defined | no contents |
| `BitStreamBits` | the bit-level writers and readers, as operators on a stream, a function from bit numbers to bits and a write offset | the memory has `Room` bytes |
| `BitStreamCodec` | a stream written, rewound, sent, cut and read, with `BitStreamBits` | an item is how a value is written, and its bits |
| `RpcDatagram` | `ExtractRPCData` over composed datagrams, with `BitStreamBits` | the sender is RakNet's reliability layer: external |
| `ChatCommands` | registration, hook, command table, `hkSendCmd`, `SendCommand`, and both mutexes | a command line is its name; a dispatch is what it does to `g_mutex` |
| `SampQueries` | version cache and queries against a game that changes | one net game is one piece of memory; offsets are left out |
| `Logger` | `Log` and its settings on several threads | a file is a sequence of headers and lines |
| `ClientVtable` | the numbers in the wrapper and in `AttachRakNetHooks`, and the facade over the wrapper | a function is its name |
| `HookForwarderProofs`, `ReceiveHookProofs`, `OutgoingTrafficProofs`, `IncomingRpcProofs`, `HookInstallProofs`, `ChatCommandsProofs` | the theorems about the module each is named after, and their proofs | |
| `BitStreamProofs` | the theorems about `BitStreamBuffer`, `BitStreamCodec` and `RpcDatagram`, and the lemmas about the operators of `BitStreamBits` | |
| `SharedStateProofs` | the theorems about `Session`, `SampQueries` and `Logger` | |

The `MC*` modules give the constants their values for TLC. `RpcDatagram` and
`BitStreamCodec` are composed with `BitStreamBits` through `EXTENDS`;
`ReceiveHook`, `OutgoingTraffic` and `IncomingRpc` instantiate `PacketFilter` with a
refinement mapping that computes each packet's outcome from the concrete state.

Correspondences worth knowing:

- In `HookForwarder` a frame with `pc = "enter"` is at its `lock_guard`, one with
  `"loop"` between two callbacks, and one with `"body"` inside one. `last` and
  `storage` are the iterators `end()` and `begin()` the range-for took; a frame
  whose `storage` is not the vector's any more is `Dangling`, and `UseDangling`
  is the undefined behaviour of going on with it.
- In `HookInstall` the history variable `aborted` is true once an attempt has
  failed with hooks made, and `overlaps` counts the calls that passed the check of
  `LocalClient` during another one. The code undoes neither; what is true only
  without them says so.
- `layer` in `ReceiveHook`, `OutgoingTraffic` and `Session` says whose code a call is
  in: a hook's, the facade's, or (`"nested"`) that of a hook the facade called. The
  actions are the same where the two codes are; where they differ (a facade without
  a forwarder, a copy of the bytes, the result that is stored twice) an action of
  its own, or an operator such as `Copied`, has the difference.
- In `ChatCommands` a thread in `inRak` is inside a RakNet callback; its own calls of
  the commands then run under `g_mutex`. `"send"` is a command's callback at the
  `lock_guard` of the dispatch its send causes, `"dispatch"` is past it.
- In `Session` the history variable `muddled` is true from the moment two calls
  overlap, or RakNet and the record are not told the same, until a `Connect` runs
  alone.
- `IncomingRpc` is a filter in which a callback's exception is consent (`Consent`), an
  RPC without an id or a length passes without a judgement, and one that has fewer bits
  than it announces is dropped, unless an allocation of the parser throws
  (`te-sdk.cpp:338`, before anything is read, and 361): then the outer `catch` passes it
  on. That is what `Default` says there. An RPC is delivered from the first call of the
  original on, whether or not that throws and is called again.
- In `IncomingRpc` the two `catch` layers of `hkHandleRpcPacket` are the actions
  `Judge` (a callback threw: the RPC is allowed) and `HandlerThrows` followed by
  `HandlePlain` (the outer one, which cannot tell whose exception it caught).
- In `OutgoingTraffic` the sequence `frames` is the C++ stack: a callback's send
  is entered before the outer message is decided. A hook returns what the original
  returns (`te-sdk.cpp:154, 178, 229, 250, 271`), and RakNet may refuse a message that
  it got: `accepted` in `sent` says which, and the caller is told the same. A message
  counts as delivered when the original has got it, accepted or not.
- In `BitStreamBuffer`, `real` is what was allocated, `recorded` is
  `numberOfBitsAllocated`, and `valid` is the length of the prefix that holds
  written content. Of a buffer of the caller's, `given` is what the stream was told it
  may use, `touched` that it has written to it since. A write for which the record is
  too low ends the model (`WriteForeign`): `"aborted"` is the assertion of
  `BitStream.cpp:604`, which only a Debug build has, and `"corrupted"` the `realloc` at
  line 634, to which a Release build gives the caller's pointer.
- In `BitStreamBits` a bit is 0 or 1, and bit `i` of the memory is in byte `i \div 8`,
  the most significant first, as `WriteBits` fills a byte. `Put` is the loop of `WriteBits`:
  a byte is overwritten when the loop gets to it and ORed into when it is not full.
- In `RpcDatagram` a field is a name, and `ItemOf` says how it is read and written;
  `InOrder` goes over the fields as `ExtractRPCData` does, with a step of the reader or of
  the sender: the sender is taken to write what the reader expects, in its order.
- In `SampQueries` a query is the sequence of what it reads; a pointer field is
  read in two steps, the probe with `VirtualQuery` and the read, and the game may
  act in between. The two stores into the version cache happen in either order.
  `live` are the net games there are, `mapped` those whose memory `VirtualQuery` calls
  readable: a deleted one stays so, with what was in it or with what the heap puts there
  (`ReuseMemory`), until its page is given back (`GiveBackMemory`). The truth a query is
  measured by is that of the games there are (`Truth`). Of what a query returns the
  model keeps whether it found a value, `"yes"`, or returns what stands for none, `"no"`:
  `false`, an empty name, and 0xFFFF of `GetPlayerId`.
- `Logger` splits `SetModName` into two steps, since `Log` reads the name for its
  folder without the lock: it may read it half copied.

Everything that is not in the repository is external in `PROJECT.json`: growth
of `std::vector`, MinHook, RakNet's queues and handlers, `malloc`, the file
system's failures, the game's objects. `Log` is taken not to throw in the modules
of the hooks, which it can as long as it has no folder (`Logger`): at `te-sdk.cpp:392`, inside
the outer `try`, its exception would pass a refused RPC on. The originals of the send
hooks are taken to return, and not to throw.

## Runs

| Run | Configuration | Distinct states | Properties | Shows |
|---|---|---|---|---|
| `forwarder` | `MCHookForwarder`: 2 threads, one vector, depth 2, 6 registrations | 70,922 | `LockMatchesFrames`, `OnlyReentryInvalidates`, `AllowedMeansAllAsked`, `LockEventuallyFree` | the mutex is balanced whatever callbacks do, none is skipped, only a thread's own registrations cost it its iterators, and the mutex is always given up in the end |
| `install` | `MCHookInstall`: 2 threads, 2 addresses, 3 failures, 1 overlap | 1,725,918 | `CrashNeedsAbortedAttach`, `NoClientLeaked`, `SuccessIsComplete`, `SucceedsOnce`, `LoopEndsUnlessAborted` | one call returns true and has hooked everything; no client is leaked, no live hook meets a missing client and the loop ends, unless an attempt failed half way or two were made together |
| `receive` | `MCReceiveHook`: 2 threads, 4 packets, one malformed | 96,948 | `OneOwner`, `IsAFilter`, `NullMeansDrained`, `EveryCallReturns` | `hkReceive`, and the facade over it, implement `PacketFilter`; null is returned only for a queue seen empty (a facade without `LocalClient` returns it without looking) |
| `rpc` | `MCIncomingRpc`: 2 threads, 5 RPCs, one of each malformed kind, two senders | 1,294,445 | `RefusedStaysOut`, `HandledOnceUnlessItThrew`, `EditsReachTheHandler`, `ReplayHasASender`, `IsAFilter` | the hook implements `PacketFilter`; refused RPCs stay out, edits arrive as whole bytes, a replay has a player to come from |
| `outgoing` | `MCOutgoingTraffic`: 4 messages, two of them through the facade, one empty, nested at will | 167,570 | `CallerIsTold`, `StreamsCarryEdits`, `IsAFilter` | hooks and facade implement `PacketFilter` through nested sends and exceptions, and callers are told what the originals answered |
| `buffer` | `MCBitStreamBuffer`: stack of 2 bytes, at most 24 bits | 1,211,016 | `MemoryIsSafe`, `UsedIsDefined`, `LargeBlocksAreFreed` | no overrun and no bit counted without content, unless `malloc` fails; `realloc` gets the caller's buffer only when a write wants more of it than was given, or is not the first one; large blocks are freed, unless a small write follows |
| `bitstream` | `MCBitStream`: 3 writes out of 18 items; 13 datagrams cut after every byte, 2 calls | 332,502 | `ReadsBack`, `NothingIsLost`, `ReadsStayInside`, `AcceptsExactlyWholeRpcs`, `ExtractedAsSent` | reads give what was written, in any state of the memory, and fail at the end of a cut stream; no short datagram is accepted, no whole one refused |
| `chat` | `MCChatCommands`: 2 threads, 2 spellings of a command, 2 failures | 12,264 | `LocksMatchPlaces`, `CallbacksSendToTheOriginal`, `RegisteredIsNeverForwarded`, `LocksAreGivenBack` | a registered command is never forwarded, callbacks do not meet their own hook, and the mutexes are given back but in two cases |
| `logger` | `MCLogger`: 2 threads, 2 names, 6 calls, 2 failures | 139,317 | `SessionsAreSeparated`, `LogsIntoItsFolder`, `CallsReturn` | one folder, one header for each session, no half-copied name, no call that hangs |
| `queries` | `MCSampQueries`: 2 threads, 3 queries, 1 net game | 2,003,299 | `AnswersAreTrue`, `CacheIsRight` | undisturbed queries are true, unless `samp.dll` points to a net game that is deleted; only memory given back between check and read crashes |
| `session` | `Session.cfg`: 2 threads, 2 servers, 4 calls | 275,656 | `ConnectedNamesItsServer`, `ConnectionIsRecorded` | after a `Connect` that ran alone the record and RakNet agree, through the hooks, the facade or both |
| `vtable` | `ClientVtable.cfg`, expected to fail | | `CallsReachTheirFunction` | the numbers of `PingServer`: see [findings](#findings-and-observations) |

Each run takes about a minute or less, and each of its properties has a mutant in
`PROJECT.json`: a definition changed the way a plausible bug would change the code,
under which the property fails.

Deadlock is checked in the runs of the hooks and of the commands. Where such an
instance may stop, the stop is a step of its own: `Done` when every message is
handled (`IncomingRpc`, `OutgoingTraffic`), `Dead` after undefined behaviour
(`HookForwarder`, `HookInstall`), `Hung` where a thread locks `g_cmdMutex` twice
or two threads wait for each other's mutex, `Entangled` (`ChatCommands`). `CHECK_DEADLOCK FALSE` is set where the instance ends because its
budget of calls, writes or queries is used up, and the program would go on.

Why the bounds are enough:

- *Two threads* are enough for every race modelled: each is between one holder
  and one other (a lock, a cache, an installation). The proofs cover any number.
- *Depth 2* in `HookForwarder` has one dispatch inside another; a third level
  meets the same mutex and the same vector. *Six registrations* are what it takes
  for one not to move the elements, since vectors grow by half.
- *Three faults* in `HookInstall` allow a failure, one in the retry, and a third
  in the path that runs after it. *One overlap* lets both threads be past the check of
  `LocalClient` at every pair of steps; each overlap may leak a client, so that many
  addresses and one more are needed.
- *Four packets* for two threads let one thread refuse packets while the other
  takes those behind; one packet is malformed.
- *Four messages* in `OutgoingTraffic`: one in the making in the facade, one in the
  hook below a callback of it, and one within that; a stream, bytes that are edited
  in place, bytes that are copied, and nothing.
- *Four calls, two servers* in `Session`: two that overlap, one alone that puts the
  record right, and one more; two threads, each in the facade or in a hook.
- *A stack buffer of 2 bytes*, lengths 0 to 3 and writes of 1, 8 and 20 bits put
  a stream below, at and above every comparison with
  `BITSTREAM_STACK_ALLOCATION_SIZE`; 24 bits leave room for a rewind and two
  growths.
- *Three items* in the codec: one before a rewind, one over it, one behind it;
  the items have sizes on both sides of a byte and of the 4-bit shortcut of the
  compression, and the memory below is all zeros or all ones.
- *Two calls* in `RpcDatagram`: the first fills the record the second reuses;
  every datagram is cut after every byte.
- *Two spellings of one command* are enough in `ChatCommands`: commands do not
  interact, and the locks and the hook are shared by all.
- *Three queries, one net game* in `SampQueries`: queries while there is none, while it
  lives, and between its deletion and the clearing of the pointer, two of them at once on
  a cache that is not filled yet. A second game would come while a query is under way,
  which any change excuses, or before it, when nothing of the first is left in hand.
- *Six calls and two faults* in `Logger`: both threads initialise, fail and try
  again, with a reset and a name in between.

## Fairness

Five runs check liveness.

- `HookForwarder!FairSpec`: each thread goes on in the SDK's own code (weak
  fairness of `Advance`), since nothing in it blocks but the mutex; and callback
  bodies terminate, at every depth (strong fairness, since a body that sends is
  not continuously able to return). A body that waits for ever keeps the mutex
  for ever, and the code cannot help it.
- `HookInstall!FairSpec`: the game loads, threads inside `InitRakNetHooks` run, and
  somebody calls it again until it has returned true, which is the loop of
  README.md:47-54.
- `ReceiveHook!FairSpec`: a thread inside `hkReceive` goes on; the callbacks'
  judgement is part of that. Packets are finite, so a flood of refused ones is
  not the reason the call ends.
- `ChatCommands!FairSpec`: a thread in the SDK's code goes on, and commands' and
  RakNet callbacks end (strong fairness: a callback may send for as long as it
  likes, but not for ever); a mutex that becomes free again and again is got in the
  end (strong fairness of the steps that take it), as with the locks of Windows,
  which starve nobody for good.
- `Logger!FairSpec`: a call that has begun goes on. Calls are bounded, so weak
  fairness is enough for the lock.

## What is proved

Every theorem below holds for every value of the constants that its module's
`ASSUME` allows: any sets of threads, messages, packets, RPCs, servers or commands
(finite or not), nesting of any depth, streams of any length, and any value of the
bounds. No step of a proof is left open.

| Module | Theorem | States | In words |
|---|---|---|---|
| `HookForwarderProofs` | `TypeCorrect` | `TypeOK` | the state is well typed |
| | `MutualExclusion` | `LockMatchesFrames` | `g_mutex` is held by one thread, exactly as often as it has dispatches past their `lock_guard` |
| | `IteratorSafety` | `OnlyReentryInvalidates` | iterators dangle only by a registration of the thread that holds them |
| | `NothingSlipsThrough` | `AllowedMeansAllAsked` | a message is let through only after every callback registered before the hook was called has agreed |
| `ReceiveHookProofs` | `OneOwnerEach` | `OneOwner` | each packet is in one place: the queue, a thread, or one of the histories |
| | `NullIsTheEnd` | `NullMeansDrained` | null is returned only for a queue seen empty |
| | `Implements` | `IsAFilter` | the hook and the facade over it refine `PacketFilter` |
| `OutgoingTrafficProofs` | `CallersAreTold` | `CallerIsTold` | what the original answers is what the caller of each message is told, and true of nothing the original did not get; it gets each once at most |
| | `EditsGoOut` | `StreamsCarryEdits` | streams go out as callbacks left them, from their start; bytes as far as the code passes edits on |
| | `Implements` | `IsAFilter` | the send hooks and the facade over them refine `PacketFilter` |
| `IncomingRpcProofs` | `RefusedIsNotHandled` | `RefusedStaysOut` | a refused RPC never gets to the original handler |
| | `AtMostOneRetry` | `HandledOnceUnlessItThrew` | it handles an RPC once, or twice if it threw |
| | `HandlerGetsTheEdits` | `EditsReachTheHandler` | it gets what the callbacks left, in whole bytes |
| | `ReplaysAreForAPlayer` | `ReplayHasASender` | a replay has a player to come from |
| | `Implements` | `IsAFilter` | the hook refines `PacketFilter`: each RPC is judged once at most, and ends as judged, whatever callbacks and handlers throw |
| `HookInstallProofs` | `OneSuccess` | `SucceedsOnce` | one call returns true at most |
| | `SuccessHooksAll` | `SuccessIsComplete` | it leaves every hook made, live unless `MH_EnableHook` failed, and a client unless calls overlapped |
| | `OneClientOrNone` | `NoClientLeaked` | between calls the only client alive is `LocalClient`, unless calls overlapped |
| | `CrashIsExplained` | `CrashNeedsAbortedAttach` | no live hook meets a missing client, unless an attempt failed half way or calls overlapped |
| `BitStreamProofs` | `NoOverrun` | `MemoryIsSafe` | without a failing `malloc` no overrun, and nothing but its own memory goes to `realloc` or is freed, unless a write wants more than the record of the caller's buffer shows: more than was given, or not the first one |
| | `WrittenIsThere` | `UsedIsDefined` | what counts as written lies in the storage and has content |
| | `LongBlocksAreFreed` | `LargeBlocksAreFreed` | a long block is freed, unless a small write lowered the record |
| | `CodecInvariance` | `CodecInv` | the items lie in the stream one behind the other, each in the bits at its place, and the reads have gone over them in step |
| | `ItemsComeBack` | `ReadsBack` | what a read returns is what was written there, for any items, memory, rewinding and cut, unless a `PlayerID` was torn before |
| | `ReadsNeverPass` | `ReadsStayInside` | reads that succeed stay within the bits that arrived |
| | `WholeStreamsAreRead` | `NothingIsLost` | a whole stream is read to its end, and no further |
| | `AcceptsJustWholeRpcs` | `AcceptsExactlyWholeRpcs` | `ExtractRPCData` accepts a datagram if and only if all of it arrived, it has data, and it is a fragment or an RPC |
| | `ArrivesAsSent` | `ExtractedAsSent` | what it accepts is in the record as it was sent, but for the payload of an RPC without data |
| `ChatCommandsProofs` | `LocksAreMatched` | `LocksMatchPlaces` | each mutex is held by the thread whose place says so |
| | `SendsGoToTheOriginal` | `CallbacksSendToTheOriginal` | a callback finds the hook in place, and its sends do not come back |
| | `NeverForwarded` | `RegisteredIsNeverForwarded` | a registered command is not forwarded |
| `SharedStateProofs` | `RecordIsTyped` | | the state is well typed |
| | `NamesItsServer` | `ConnectedNamesItsServer` | a record that claims a connection names the server RakNet was asked for, unless calls overlapped |
| | `IsRecorded` | `ConnectionIsRecorded` | no connection is missing from it between calls, unless calls overlapped |
| | `CacheStaysRight` | `CacheIsRight` | the version cache is right once set, but for a thread between its two stores |
| | `QueriesTellTheTruth` | `AnswersAreTrue` | a query answers the truth of a game that stays as it is, but for the race of the cache and for what is left of a deleted net game that `samp.dll` points to; only a change of the game crashes it |
| | `LogHasItsFolder` | `LogsIntoItsFolder` | one folder, made before any file in it is opened |
| | `SessionsHaveHeaders` | `SessionsAreSeparated` | one header for each session, where it began, with a whole name |

### Assumptions

Only the modules' own, which TLC evaluates in the runs. They say that the values
which stand for nothing (`NoThread`, `NoPacket`, `NoServer`, `Null`, `None`) are none of the
things they are told apart from, that bounds and lengths are natural numbers, and
that what describes a message (`Overload`, `Form`, `Bits`) is a function of the right
type. Three say more: `ForwarderAssumption`, that the two sets of hook types are
disjoint; `ChatAssumption`, that `Lower` is idempotent, as `std::tolower` is; and
`RpcAssumption`, that an RPC without data is one without a sender. `Commands` and
`Rpcs` are not empty, since `Init` gives a thread's register some value of them.
`CodecAssumption` says what an item is: a bool is one bit, the other values are whole
bytes of the length their kind has, a write of bits is of one bit at least.
`DatagramAssumption` says that a datagram has a value of the right size for each field
and as many bytes of data as its length says, and that it fits into the memory; it says
nothing of what the values are. Theorems about `SampQueries` need no assumption.

### The arguments

Each proof has the form *Init implies IInv, every step keeps IInv, IInv implies the
property*, with one step for each action (`NextIInv`, or a lemma for each half of
the invariant). Hardly one of the invariants that the runs check is inductive as it
stands; TLC has checked each `IInv` on the run of its module. What `IInv` adds, and why:

- `HookForwarder`: `OnlyTopWaits`, only a thread's innermost frame can be waiting for
  the mutex, since returning from the innermost frame makes the one below
  innermost: if that were a waiting one, `LockMatchesFrames` would count it as
  holding. `SnapshotsAreRecent`, the number of callbacks at the call is at most the
  one the loop ends at, which is at most the vector's size now: the loop ends at
  `last`, so past `floor`. `IteratorSafety` follows from mutual exclusion: to move a
  vector a thread holds the mutex, so no other has a frame past its lock. The actions
  have five shapes, with one lemma each.
- `ReceiveHook`: `OneOwner` counts, and counting is awkward to keep; `OwnersAreApart`
  and `ArrivedAreOwned` say the same with sets (nothing is in two places, nothing is in
  none), and `OneOwnerHolds` derives the count from them. `HeldMatchesPlace` ties a
  thread's place to whether it has a packet and how that was judged. The refinement
  also needs `NoneTooEarly`: a packet that is still in the queue has no verdict.
- `OutgoingTraffic`: the frames are a stack, and a message is in one frame at most,
  which has not returned (`OneCallEach`): so what a nested send does is about another
  message, at any depth, and `FrameMatchesPlace` survives it for the frames below.
  `UntouchedIsOriginal` says that what no callback was shown is as the caller wrote it,
  which is what makes the paths without judgement (nothing to send, no client)
  true to `StreamsCarryEdits`.
- The three refinements: the mapping computes the outcome of a packet, message or RPC
  from where it is, so a step maps to a step of `PacketFilter` if it moves one of them,
  and to a stutter if none. `ArriveRefines`, `JudgeRefines` and `ResolveRefines` are
  the three kinds, and every action is one of them or a stutter. In `IncomingRpc` the
  second call of a handler that threw, and a replay, are stutters: what was delivered
  is not delivered again.
- `IncomingRpc`: `OneHandlesIt`, an RPC is in the hands of one thread, and nobody has
  done anything about one that has not arrived; `InHand`, at each place of the hook,
  what the original has been given so far. The place `"plain"`, where the outer `catch` calls
  the handler again, is the one that matters: it is reached from the checks, with the
  RPC untouched, or from a handler that threw, after one call, and never after a
  refusal. `PlayerIsKnown` orders the store of the player before the first verdict.
- `HookInstall` has two halves. The hooks: MinHook knows a function once, so one caller
  alone gets past the first `MH_CreateHook` (`OneAttaches`), and it has made all those
  before the one it is at (`PrefixIsMade`); this holds whoever calls at the same time.
  The client: without an overlap, `ClientMatchesPlace` says which client is alive at
  each step, and without an aborted attempt `LiveHooksHaveAClient` that a function is
  live only while it is there.
- `BitStreamCodec`: `Encoding` says which bits an item is in the stream, `Place` and `End`
  where. One lemma per kind of item shows that its writer puts just these bits at the
  write offset and changes nothing before it (`WritesEncoding`), and one that its reader,
  over these bits, returns the value, or fails if the stream ends before them
  (`ReadsItem`). The invariant `CodecInv` is then about bits only: the items follow each
  other without a gap (`Placed`), the memory holds the encoding of each (`Stored`), and
  the reader is where the next one begins (`Followed`). `Stored` has one subtle part,
  `Clean`: the padding of the last byte is zero, without which the next write would OR into
  whatever the memory held; `Rewind` goes to byte boundaries only, where there is no
  padding, as the comment of `BitStream.h:360` demands. Compressed integers need the
  last byte that is not zero, and a prefix of 1s as long as the zeros above it: both
  come from the least element of a set of numbers (`LeastOfNats`, from the library's theorem
  on minimal elements), where a loop would call for induction.
- `RpcDatagram`: every field is an item of the codec (`FieldsAreItems`), so the lemmas
  about items carry over. `Follows` relates a reader to the sender after the same fields:
  it has read all of them as they were sent and stands where the sender stood, or the
  stream has ended before. `ReadsField` keeps that for one field, in particular for one
  that is there only if an earlier one says so; `ReadsFields` goes over all of them, and
  `ReadsData` and `Ids` over what follows. A datagram without data is the one case in which
  all that was sent arrives and is refused.
- `BitStreamBuffer`: `RoomIsThere` adds that what is used was also recorded and that what was
  recorded is there, since `AddBitsAndReallocate` compares with the record
  and the move to the heap copies as much as it says. `ForeignIsNotCopied` keeps the
  destructor from the caller's memory; `RecordShowsGiven` says that the record of a
  caller's buffer is what was given until the first write, so the first one that fits is
  never refused; `RecordShowsBlock` says that the record of a
  long block stays above the stack's size, which is the destructor's only sign of it.
- `ChatCommands`: `HookBeforeTable`, nothing is in the table, nor on its way there,
  before the hook is live and the flag set; `PromisesAreKept`, the table has what
  callers were told it has, and a thread is past the lookup only with a command
  that was not promised when it was typed.
- `SampQueries` (`QueryInv`): the stores into the cache come from threads that have found
  `samp.dll`, and while the flag is set and the value is wrong some thread is about
  to store it (`CacheMatchesStores`). `PastIsSeen`: as long as the game has not changed
  since a query was asked, all that it is past can be seen in the game now, and the net
  game it has in hand is the one `pNetGame` points to. `ProgramFacts` reads off the
  programs what each wants to see, and that it gets a net game before it looks into
  one; `SeenIsTruth` says that a query's truth is exactly that it would see all it
  wants, unless what it would see is a deleted net game. The steps have three shapes (another place in the same read, an answer, the
  next read), with a lemma each; game steps excuse every query under way.
- `Logger` (`LogInv`): `OneInitialises`, the flag of `call_once` names the thread at the
  folder, and a folder is made only by one that goes on to set the path; `NameIsLocked`,
  the name is half copied only while its writer has the mutex, so not when a header is
  written; `HeaderIsDue`, a header is due exactly if the file ends where a session
  began, and no session began beyond that.
- `Session` (`SessionInv`): without a muddle one call is under way at most (`OneCall`), and the
  invariant says what the record is worth at each of its stores (`UnderWay`) and
  between the calls (`Settled`).

### What is only model-checked

Liveness (`LockEventuallyFree`, `LoopEndsUnlessAborted`, `EveryCallReturns`,
`LocksAreGivenBack`, `CallsReturn`): it rests on fairness, and so on `ENABLED`, which
the prover does not handle. `CallsReachTheirFunction` of `ClientVtable`, which is false.

## Findings and observations

The run `vtable` ends in a counterexample: `te-rakclient.h:195-207` calls
`PingServer()` at entry 10 and `PingServer(host, ...)` at 11, in the order of
their declaration, while the same class calls, and `te-sdk.cpp:525,533` hooks, the
overloads of `Send` and `RPC` in the reverse of it. Whichever order the game's
compiler used, one group calls the wrong function, with the wrong arguments for
a `__thiscall`; if the hooks work, it is `PingServer`.

Met while modelling, without a run of their own:

- `InitRakNetHooks` returns true though `MH_EnableHook` failed, at any of the calls
  (`te-sdk.cpp:515`; README.md:124 promises the hooks).
- After an attempt that failed half way `MH_CreateHook` refuses the functions it
  already knows, so the retry loop of README.md:49 never ends (`te-sdk.cpp:511`).
  `LoopEndsUnlessAborted` has the exception.
- Incoming packet callbacks get a copy (`te-sdk.cpp:197`): what they write never
  gets to the game, against README.md:9 and 13. Edits of outgoing RPCs that are
  given as bytes are dropped too (`te-sdk.cpp:220`), and for outgoing packets
  given as bytes the old length is passed on (line 145).
- An exception of the original RPC handler is caught by the hook, which calls the
  handler a second time (`te-sdk.cpp:405-416`). `HandledOnceUnlessItThrew` has the
  exception.
- Of two threads that call `InitRakNetHooks` at once one fails in MinHook and deletes
  what `LocalClient` points to by then, which may be the client of the one that
  succeeds: that returns true with hooks that use a null pointer (`te-sdk.cpp:639`).
  `SuccessIsComplete` and `CrashNeedsAbortedAttach` have the exception.
- `SessionInfo.isConnected` is set when the connect request is accepted and
  stays so when the connection is lost or refused (`te-sdk.cpp:295`).
  `ConnectedNamesItsServer` has the exception, and one for the time in which the next
  `Connect` has replaced the host and not yet the flag (`te-sdk.cpp:285-290`).
- The facade's `Receive` frees every packet as long as it has no forwarder, as if all
  were refused (`te-hookedrakclient.cpp:129`), where its send functions let everything
  pass. With one, callbacks judge each message twice, in the facade and in the hook.
- The facade's `RPC(char*)` lets callbacks edit the caller's bytes
  (`te-hookedrakclient.cpp:233`), the hook's gives them a copy (`te-sdk.cpp:220`).
- A host name of 64 characters or more ends the process in `strcpy_s`
  (`te-sdk.cpp:285`, `te-hookedrakclient.cpp:16`).
- A command's callback that sends while another thread registers or sends a command
  in a RakNet callback: each waits for the other's mutex, for ever
  (`te-samp.cpp:136-144`, `te-sdk.cpp:24-30`). A command's callback that registers a
  command locks a `std::mutex` twice. `LocksAreGivenBack` has both exceptions; without
  the first (`Entangled`) TLC finds both mutexes held for ever.
- A heap block of at most the stack buffer's size, or of a stream whose record was
  lowered by a write (the first one of a stream made large is enough), is never freed
  (`BitStream.cpp:103,137,651`). `LargeBlocksAreFreed` has the exceptions.
- A write through a stream over the caller's buffer, after a rewind, lowers the
  record; the next one, though it is within the buffer, fails the assertion of
  `BitStream.cpp:604` in a Debug build, and in a Release build gets to `realloc` (line
  634) with memory that is not the stream's. So does a write beyond the buffer. README.md:316-318
  recommends a rewind and a write to callbacks, which a second write turns into this,
  and an outgoing packet given as bytes is such a stream (`te-sdk.cpp:145`). `MemoryIsSafe` has the exception, `touched`.
- A facade without `LocalClient` returns null from `Receive` whatever is queued
  (`te-hookedrakclient.cpp:116`), as if there were nothing.
- After `SetWriteOffset` back, a write, and forward again, the move to the heap
  copies less than was written (`BitStream.cpp:627`); `BitStreamBuffer` moves the
  offset back only, as all code here does.
- `Read(PlayerID&)` succeeds though the address could not be read
  (`BitStream.h:1030`). `ReadsBack` has the exception.
- `ExtractRPCData` leaves an old payload in a record that is used again when the
  RPC has no data (`te-helper.cpp:258-264`). `ExtractedAsSent` has the exception.
- A thread that sees the version cache's flag before its value takes the build
  for unknown (`te-helper.cpp:93-94`). `AnswersAreTrue` has the exception.
- `GetServerName` returns a pointer into the net game without asking whether the memory
  is there (`te-samp.cpp:331-334`), where the other queries do: after a deletion it
  dangles. And `VirtualQuery` knows pages, not objects: between the deletion of a net
  game and the clearing of `pNetGame` every query may answer from what is left of it
  (`te-samp.cpp:65-72`). `AnswersAreTrue` has the exception, `Dangling`.
- `GetPlayerId` returns an `unsigned short`, and 0xFFFF for a failure
  (`te-samp.cpp:365-371`); README.md:424 documents -1, to which the result is never equal.
- A replay reads the last peer and the last player one after the other
  (`te-sdk.cpp:419-446`), as they are stored (328-329): between two RPCs of different
  players it may combine the peer of one with the player of the other. `ReplayHasASender`
  says only that the player is one that RPCs come from.
- `create_directories` throws out of the first `Log` (`te-logger.cpp:131`), through
  hooks and initialisation, though line 66 says that logging should never throw.
- Logging switched off between the check and the folder's creation makes the folder
  all the same (`te-logger.cpp:106-114`).

## What is not modelled

- `NetworkID`s in streams, whose peer-to-peer mode nothing here switches on, and the
  swap of bytes for other machines, which the build disables.
- Compressed floats, vectors, quaternions and matrices of `BitStream`: no code here
  uses them, and real arithmetic is out of TLC's reach.
- The tables of offsets of `te-helper.cpp` and `te-samp.cpp`: facts about foreign
  builds. `GetHandleRpcPacketAddress` is a condition in `HookInstall`.
- Host names too long for `strcpy_s`: the process ends.
- When a replay is still allowed: the life of the game's `RakPeer` is outside the
  repository.
- RakNet's value types, statistics and clock, `BigTypes.h`, `RakClientInterface.h`
  and Detours: third-party.
- Memory ordering beyond the two stores of the version cache: other data races are
  modelled as interleavings, or as a torn value where that shows (`Logger`).

## Plan

Every safety property, action property and refinement that a run checks has a theorem,
but the one expected to fail. What the project could still take up:

- the parts of `BitStream` listed above, should code here come to use them;
- `BitStreamBuffer` and `BitStreamCodec` as one: the codec has a memory that is large
  enough, the buffer no contents, and the copy on growth is what joins them;
- liveness, once the prover handles `ENABLED`.
