# A verification development for wallyd

wallyd drives a display: it draws through SDL2, is scripted in JavaScript
(duktape over libuv), takes commands from a socket, plays video with an embedded
ffplay, and loads all of its functions from plugins. This directory holds TLA+
models of the parts of it that are concurrent or keep intricate state, the
configurations with which TLC checks them, and proofs for TLAPS. `PROJECT.json`
lists the components, the runs, the line of the source each definition stands
for, the hazards and the theorems.

Paths below are relative to the repository.

## 1. Inventory

### The threads and how they meet

| thread | code | meets the others at |
|---|---|---|
| main, the *UI thread* | `src/wallyd.c` main, then `lib/ui.c` uiLoop | pops calls, runs them, signals the caller, frees the context |
| the *JavaScript thread* | `src/seaduk.c` duvThread, libuv | starts every call of a script; serves the command socket between two callbacks of JavaScript |
| ffplay's threads (read, decode, refresh, audio) | `plugins/ffplay`, `plugins/sdlffvideo.c` | share the queues of packets and pictures; call `ffvideo::...` functions with callWithData, set `playVideo` |

Everything drawn is drawn in the UI thread. A script's call of a *threaded*
function is therefore handed over: `scall` takes `ph->callMutex`, `callWtx` takes
`ph->wtxMutex` and makes a context, `callEx` takes a third, static `callMutex`,
puts the context on a priority queue, pushes an SDL event with the function's
name, and waits, with a timeout, on the condition of that name. The UI loop takes
the event, pops *a* context, runs it, signals the name, and frees the context
under `wtxMutex`. A *sync* function runs in the caller, inside `callEx`.

### Components

| component | state | operations | what is hard | what makes it correct |
|---|---|---|---|---|
| call core (`lib/plugins.c`, `lib/ui.c`) | three call mutexes, an SDL mutex, the two queues, the waits, the contexts | scall, callSync, callWithData, callEx; uiLoop, eventFilter | two queues that must stay in step, waits that time out, signals without the mutex, locks released by another thread | each call runs once, its context lives as long as it is used, its caller comes back |
| transactions (`plugins/transaction.c`, `modules/wally/transaction.js`) | one more context, `taMutex` | new, lock, commit, clear | the UI loop unlocks what the JavaScript thread locked | a commit ends; the loop excludes other transactions |
| priority queue (`lib/pqueue.c`) | an array that grows, its counters, an index in each node | insert, pop | index arithmetic, growth at the limit | nothing lost, order kept |
| hash table (`lib/Hash_Table.c`) | buckets, count, a mutex | put, get, remove, resize | collisions, resize, the exits of remove | it is an associative map |
| texture registry (`lib/ui.c`, `plugins/sdlimage.c`) | the table of textures, the drawing order | create, replace, destroy, activate, set prio | two pieces of state updated in different orders, early returns between | the order lists what the table has |
| start (`src/wallyd.c`, `src/seaduk.c`, `lib/plugins.c`) | the tables of functions and conditions, one condition variable | load plugins, export, signal, wait | a fork after a thread was made, a wait without predicate, the order of readdir | JavaScript starts, after the plugins, with what could be loaded |
| stream wrapper (`modules/wrap-socket.js`) | a two-sided queue, the pause flag, two ends | read, write, the stream's events | callbacks that read again, chunks of any size, errors | values reach reads in order, with back-pressure |
| HTTP codec (`modules/http-codec.js`) | the mode of the decoder, the bytes left of a body | decodeHead, decodeEmpty, decodeRaw, decodeCounted, decodeChunked | a stream cut anywhere, bodies that end in five ways | the bytes of each body once and in order, one end each |
| playlist, ssdp (`etc/wallyd.d`) | two timers, the discovery flag, the connection, the list of commands | search, register, wait, exec, request | lost and repeated datagrams, requests that fail, timers against answers | one registration, one playlist, each command once |
| curl binding (`plugins/dukcurl.c`) | the array of references with its free list, three slots per handle | setopt, the finaliser | a slot given twice, or never back | a handle calls what was set last |
| video (`plugins/ffplay/ffplay.c`) | two packet queues, a ring of pictures with two indexes and a size, the refresh flag | read, decode, queue, refresh, show, close | four threads, indexes moved outside the mutex, calls that may be lost | pictures in order and never written while shown, a film ends and is freed after its threads |
| command socket, configuration (`src/wallyd.c`, `lib/util.c`) | connections; the configuration maps | onNewConnection, onRead, processCommand, getConfig | partial input, lifetime of handles | not modelled, section 6 |
| boot splash (`src/wallystart.c`) | the log text, two textures | commands from a socket, drawing | two threads, no lock | not modelled, section 6 |
| drawing and device plugins, logging, vendored code | | | | not modelled, section 6 |

## 2. Modules

    QueueOps <--- CallBus <--- Transactions      CoreStart      VideoPlayer
       ^            |
       |            +--refines--> CallService
       |
       +--(with equal priorities)-- PriorityQueue
                                                 WrapSocket   HttpCodec
    HashTable --refines--> AssociativeMap        Playlist     CurlRefs
       ^
    TextureRegistry

    MCCallBus, MCTransactions, MCCoreStart, MCVideoPlayer   one module each
    MCContainers = PriorityQueue + TextureRegistry          `part` chooses
    MCLoop = WrapSocket + HttpCodec + Playlist + CurlRefs   `part` chooses

    CallBus_proofs <--- Transactions_proofs
    CoreStart_proofs, VideoPlayer_proofs
    DataLemmas <--- PriorityQueue_proofs <--- Containers_proofs (MCContainers)
    DataLemmas <--- Loop_proofs (MCLoop, with the theorems of its four parts)

MCContainers and MCLoop are sums, not compositions: the variable `part` says which
of the modules takes the steps of a behaviour, the others stay in their initial
state. The parts do not share state in the code; a product would multiply states
and show nothing.

**CallBus.** One step is the code between two points where another thread can be
observed. `pc[t]` is where a caller is: `scallLock` and `wtxLock` and `callLock`
are the three lock calls; `dispatch` the choice between the tables of `callEx`;
`push` SDL_PushEvent; `toWait` and `waiting` the wait; the unlocks follow in the
order of the code. `uiPc` does the same for one iteration of uiLoop. `kind` is the
CALL_TYPE: a WTX call carries a context in `ctx`, a STR call (command socket) and
a PTR call (ffplay) carry none. What the code does at the edges is kept:

- every event pops a node, the event of a PTR call too (`UiPop`: the context is
  then `lost`);
- the type of the event of a STR call stays 0, so that eventFilter drops it
  (`Dropped`), and its caller waits for the timeout;
- the SDL mutex of the wait is locked with TryLock and never unlocked, so the
  first thread that waited owns it and the wait of any other fails at once
  (`PushEvent`, `CondWait`);
- the early return for a name nobody exported keeps `callMutex`
  (`DispatchUnregistered`), and a script that js::eval runs for a command line
  re-enters the call API inside `callEx` (`SyncCallsBack`);
- uiLoop unlocks `taMutex` after every WTX call, whoever has locked it.

`wst` says what has become of each context. `Wtxs` is the set of contexts that can
exist at a time; when the caller of a *sync* function leaves callWtx the code
leaks the context, and the model gives its name back.

**CallService** is what the core promises: a context that is submitted is
executed once, one at a time, and reclaimed, unless the loop is told to quit or
the calls pile up: pop_node serves the youngest of three waiting calls before the
one in front of it (`Crowded`), and may starve a call for ever.
The refinement mapping is at the end of CallBus (`AbstractStatus`: a context is
submitted from the insert on, while it is queued and while it runs, executed until
it is freed, and idle otherwise). `SafeSpec` is the safety part of the service;
`Spec` adds `Progress`: every context gets on, unless it comes to three waiting
calls again and again.

**QueueOps** is the priority queue as CallBus needs it: with one priority, insert
appends and pop moves the last node to the root. **PriorityQueue** is the
algorithm itself, with the sift loops as recursive functions and the growth of
the array; its property `ActsAsCallQueue` says that it does what QueueOps does.

**Transactions** extends CallBus with the phases of transaction.js: new, the loop
under `taMutex`, commit, the unlock of `wtxMutex` that js_commitTransaction does,
clear. A commit is a `callEx` that carries a context without going through
callWtx (kind `commit`). The daemon does not quit in it: after uiLoop has left,
clear waits until the process is gone.

**HashTable** has the chains, the bucket of a key for a given size, the resize and
its re-insertion order, and the mutex with the exit of remove that keeps it.
**AssociativeMap** is the comments of Hash_Table.h. **TextureRegistry** extends
HashTable with the drawing order. Its set operations change a record in place,
which is a put on an existing key. `ph->textureCount` is left out: nothing but a
statistic reads it, and it drifts (section 4). A step after which the thread
cannot go on (a NULL read, a mutex kept, a double free the allocator notices)
sets `state`, and nothing follows. **CoreStart** has the two threads of the start.
The folder or a plugin that cannot be opened goes to `failed`, and the loader and
main go on.

**WrapSocket** has the run-to-completion handlers of wrap-socket.js with the
callbacks they make: `stack` holds the running frames, and application code (the
top level or a callback) may read and write at any point. A value is a number of
units and a chunk any number of units; the decoder gives the next value when it
has all of its units, or throws for the value `bad`. libuv stops a stream at its end
but does not keep it stopped: a read behind an end that is queued starts it again,
and gets the end a second time (`OnEof`).

**HttpCodec** is the decoder as the loop `process` of wrap-socket.js drives it. What
the peer sends is a sequence of units: the start and the end of a head, a byte of
a body, the size line of a chunk up to its line break, the rest of that line, the
line break after the data. `from` and `received` are the two ends of the read
buffer; `form` says whether the rest that a decoder left is a buffer, an empty
string or undefined, because the code tells an empty string, which is falsy, from
an empty buffer, which is not. A chunk that comes while the buffer is not undefined
goes through `concat`, which hands Buffer.concat two arguments where the node.js API
that its comment names takes a list; the duktape it runs on is not in the repository, so
`joins` chooses at the start whether it joins them (`OnUnits`) or throws out of
onRead (`ConcatThrows`). A size of several digits that is cut before its line
break fails its assertion (`CutSizeThrows`). A counted body cuts
what follows it one byte late (`DecodeCounted` sets `torn`), and the tail of a
chunk is looked for where the data begins (`ChunkThrows`). The assumption
`WellWritten` is about the peer: it writes the body its head announces, ends its
chunks with an empty one, and sends nothing after a message that only the end of the
connection ends. What the decoder does with a peer that breaks off is in the model,
since a message may never be received as a whole.

**Playlist** has ssdp.js and playlist.js: the search and its answers, which get lost
and repeated, the registration, the wait for a connection that is configured, the
execution of the list, the request for the next command. A device that is given a
location registers at once and does not search. One that searches reads answers
only after its first M-SEARCH has been sent (`listening`: FirstSent,
FirstSendFails), however many follow. The answer to the registration may bring a
list of commands (`Registered`). A module that throws and a request that fails end
the playlist (`gone`): restartLoop starts a timer that playlistWait has closed. A
request may never come back at all (`CommandUnanswered`): request.js returns
without a callback when the name does not resolve, and sets no timeout.

**CurlRefs** has the array `refs` of the heap stash. Slot 0 is the head of the free
list, a free slot holds the number of the next. `set` is a history variable: what
the script set last for each handle and event. `overwritten` are slots whose
number has been replaced by a second setopt; the code never gives them back.
duphandle is left out (section 6).

**VideoPlayer** has the four threads of a film. `readPc` is read_thread from its loop
through stream_component_close and stream_close, `videoPc` the decoder in
get_video_frame and queue_picture, `refreshPc` the thread that asks for refreshes,
`uiPc` the functions the UI loop runs for it. `calls` are the events pushed by
callWithData; `UiDropsCall` is the other end of what CallBus says of PTR calls: the
event pops no node, and the function is not called. Clocks are choices: a picture
is late or not, its time has come or not. A read may fail at any packet: after an
I/O error read_thread waits for an `abort_request` that only its own stream_close
sets (`ReadFails`). At the end of a film it puts an empty packet into the queue of the
pictures, and into the queue of the sound if that codec has a delay, at every look
(`PutEmptyPacket`). Making a texture reads a member where another build of the
header has put it, which is undefined: `crashed`.

## 3. Runs

| run | instance | what it shows |
|---|---|---|
| calls | 1 caller, 3 contexts, 2 threaded names, 1 sync, no video thread | the two queues stay in step (`QueuesPaired`); every call returns; CallService is implemented, its progress with the exception it has |
| threads | 1 video thread, 3 contexts, scripts, a name nobody exported | the mutexes exclude, nodes are covered by events, contexts are owned once and not freed under a caller; a caller that a signal has woken, be it a late one for an older call, finds the loop at the end of a call of that name and its own context not running (`WokenMeansDone`) |
| transactions | 3 contexts | contexts are still owned once; a commit that has begun ends |
| transaction_lock | as above | violation: the first call from the loop of commit releases `taMutex` |
| containers | heap: 5 nodes, 3 priorities, array of 2 that grows to 8; table: 4 keys, 4 buckets that grow; textures: 4 names, 2 depths | the array is well formed, no node is lost, what remains of the heap order, agreement with QueueOps; refinement of AssociativeMap, chains and count agree; table and drawing order of the textures agree while the thread runs |
| table_remove | as above | violation: remove crashes on an empty bucket or keeps the mutex |
| start | 5 plugins, 5 names | a core started by the signal finds every plugin loaded or given up, the exports of the loaded ones and no others, and every condition; sync functions are not replaced |
| start_lost | in the foreground | violation: the signal may come before the wait |
| loop | stream: 3 values of 2 units, 5 reads, 2 writes; codec: up to 2 messages; playlist: 3 commands, 2 of them active; curl: 2 handles, 5 slots | reads are answered in order and all of them, back-pressure, one close; bodies are decoded once and end once, whatever the chunks; one registration, one playlist, each command once, and all of them unless a request fails or does not come back; the right callback |
| chunk_tail | as above | violation: a chunk that is not empty fails the assertion about its tail |
| video | 4 pictures, with and without sound, ring of 4 | the two indexes never meet in a slot, pictures are shown in order, memory is freed after its threads, a stopped decoder stops, a film that can be read ends |
| video_closed | as above | violation: at the end of a film with sound the decoder of the pictures is not closed |

**Bounds.** Two contexts are enough for a caller that has given up its wait to meet
the UI loop at its previous call; three are the least with which pop reorders, and
with which a commit and two earlier calls are unfinished at a time. `MaxEvents`
bounds what ffplay pushes while the loop is busy: it acts only on the start of a
PTR call, and with two an event of each kind can be waiting in either order.

In the heap five nodes give two inner levels, an inner slot with one child and two
growths. Three of the four keys share one of the four buckets, and the fourth put
resizes the table. The stream's bounds let reads be ahead of the data and behind
it, and one read come after the end. The messages of the codec cover every mode
and both kinds of connection, with bodies of none to three bytes, chunked bodies
that end at once and after a chunk, and a head of 8K (`HeadLimit`, two units here);
all ways to cut two of them are tried. With three commands an inactive one stands
between two active ones. `MaxSlots` lets every callback of one handle be set, two
of the other, or one of them again.

In VideoPlayer `Slots` has its value, 4: the decoder fills two and the ring is gone
round twice by four pictures. `MinFrames` and `MaxQueue` are 0, so that the reader
meets both limits of the packet queues, which are full from their first packet on;
`MaxCalls` lets an allocation and a refresh wait for the UI loop together.

Pop moves the last node to the root. With three nodes the youngest call overtakes
the one in front of it, and if three wait again and again, one may stay for ever.
It takes callers that have given up their waits to come to three: a script makes
one call at a time. `Progress` is therefore stated under `<>[]~Crowded`; without
that TLC shows the starving call.

**CHECK_DEADLOCK FALSE** stands where the system really stops: the start ends; a
stream, a playlist, a film end; the table and the textures stop at a crash or a
kept mutex; in `threads` an unregistered name or a re-entrant script blocks the
callers for good.

**Fairness.** In CallBus weak fairness for each loop: the operating system runs both
threads, an exported function returns, and the wait has a timeout, which is a real
clock (`WaitGivesUp`). Strong fairness for taking a mutex: it is released again and
again but not handed over in order. Nothing obliges a script to call, a user to
quit, or a script to call back. In Transactions the loop over the collected
functions is finite, hence strong fairness for its commit. In CoreStart both
threads run; a spurious return of the wait may never come.

In WrapSocket handlers run to their end, the peer sends what it has, libuv answers
a shutdown. The codec decodes what it can and gets what was sent. In Playlist timers
fire, a datagram is sent or its sending fails, and not every answer to the search is
lost (`FairPlaylist`). A request comes back, with an answer or an error, or turns out
as one that never will; nothing forces it to come back.

In VideoPlayer every thread runs and the device asks for audio. Strong conditions
stand for time: the time of a picture that waits comes at last (`BeginShow`), and the
ten milliseconds that read_thread waits between two looks at the queues are some
day enough for the decoder or the device to take a packet (`GetPacket` or
`AudioCallback`, at each number of packets that wait), where the code adds an empty
packet at every look. A read that fails without an I/O error, which the code tries
again without a limit, does not fail for ever.

**What the properties except** is named by a variable that says the code has gone
wrong before, and each is a hazard of its own: `lost` (an event of a video has
popped nothing), `crashed`, `readPc` at "failed" (the read error nobody ends),
`torn`, the errors of the codec and of Buffer.concat, `gone`, `unanswered`, a device
that never listens, and the failure of a stream; for the service, `Crowded`. The
excuse is never needed for the property's own reason: a mutant of each property
breaks it without one. `AllDecoded` in particular says of the program as it is only
that decoding comes to its end or to one of these errors; that all is decoded it says
for a Buffer.concat that joins.

Each property has a mutant, a variant of one action or operator with a plausible
bug (the definitions marked *faulty variant*), that violates it.

## 4. Findings

- `transaction.js` says all other transactions are blocked while the loop of
  commit runs; uiLoop unlocks `taMutex` after each WTX call, the first call of
  the loop included (`lib/ui.c:138`).
- `Hash_Table.h` says a remove of a missing key does nothing; hashtable_remove
  reads the head of an empty chain, and keeps the mutex when the entry is not the
  head (`lib/Hash_Table.c:189`, `198`-`204`).
- `wallyd.c` signals the core to start; the core may not wait yet, and then never
  starts (`src/seaduk.c:434`). With daemonize the thread does not survive the fork.
- `http-codec.js` asserts "Invalid chunk tail" of the two bytes in front of the
  data of a chunk: only a body without data is decoded (line 267).
- `ffplay.c` means to close each stream at the end of a film; the first close frees
  the whole video, with the decoder of the pictures running (line 2488).

Met while modelling, and not runs of their own:

- `wrap-socket.js` has an error for a write after the end of the output, but the flag
  it tests is never set (line 112), so that a second end closes the socket again;
  `ClosedOnce` counts the closes accordingly. After an end that a waiting read got
  `paused` stays false, so that the read after it waits for ever.
- `http-codec.js:314` calls Buffer.concat with two arguments; the node.js API that the
  comment above it names (302) takes a list, which `qr/png.js` passes. Where two
  arguments are not joined, the second chunk of a body throws out of onRead and no
  message of several chunks is decoded.
- `ssdp.js:64`-`68` starts to read in the callback of the first M-SEARCH only when
  that was sent without an error. `request.js:65`-`67` never calls back when the name
  does not resolve, so a playlist waits for ever.
- `ffplay.c:2744`-`2747` waits, after a read error, for an `abort_request` that only
  the stream_close behind this wait would set: the film stays.
- `ph->textureCount` is 1 before the first texture (tempTexture, `lib/ui.c:731`), is
  increased by a load that then fails (`plugins/sdlimage.c:380`,
  `plugins/sdlgui.c:472`) and decreased by setTexture (`lib/ui.c:558`): it is no
  count of the table.
- A plugin folder that cannot be opened is logged, and main does not look at the
  result (`lib/plugins.c:416`): the core starts with nothing.

## 5. Proofs

Every theorem below is proved by tlapm to the last leaf, for all values of the
constants that satisfy the named assumption of the module.

| module | theorem | property | inductive invariant |
|---|---|---|---|
| CallBus_proofs | TypeCorrect | TypeOK | TypeInv |
| | LocksExclude | LockDiscipline | TypeInv, LockInv |
| | OwnedOnce, KeepsContext | ContextOwnedOnce, CallerKeepsContext | TypeInv, LockInv, ContextInv |
| | NodesCovered, InStep | QueueCovered, QueuesPaired | TypeInv, LockInv, CountInv |
| | ImplementsSafely | Service!SafeSpec | TypeInv, LockInv, ContextInv, AllWtx |
| | WokenIsDone | WokenMeansDone | TypeInv, LockInv, ContextInv, NamesOK, WokenOK, SubmittedOK |
| Transactions_proofs | OwnedOnceInTransactions | ContextOwnedOnce | TxInv |
| PriorityQueue_proofs | HeapShape, HeapLosesNothing, HeapKeepsOrder | ShapeOK, NothingLost, OrderKept | HeapInv |
| | HeapIsCallQueue | ActsAsCallQueue | HeapInv |
| Containers_proofs | ChainsStayOK, TableIsMap | ChainsOK, ImplementsMap | TablesInv |
| | RegistryAgrees | TexturesAgree | TablesInv, RegistryInv |
| | HeapInContainers | the four of the heap | |
| CoreStart_proofs | StartTypes, CoreComesLast, NoConditionMissing, FirstSyncStays | TypeOK, CoreAfterPlugins, ConditionsComplete, SyncNotReplaced | StartInv |
| Loop_proofs | ReadInOrder, BackPressureHolds, ClosedAfterEnds | ReadsInOrder, BackPressure, ClosedOnce | SocketInv |
| | BytesKept, BodiesEndOnce | BytesInOrder, EndsOnce | CodecInv |
| | SingleLoop, ExecutedOnce | OneOfEach, CommandsOnce | SingleInv, PlayInv |
| | RightCallback | CallsWhatIsSet | CurlInv |
| | LoopIsSafe | the invariants of the four parts | |
| VideoPlayer_proofs | VideoTypes, PicturesApart, FreedLast, FilmInOrder | TypeOK, SlotsApart, FreedAfterThreads, ShownInOrder | VideoInv |

**CallBus** (any sets of video threads, names and contexts; the threads are
different, the tables of functions disjoint, the refresh timer is called by ffplay
only).

- *TypeInv* is TypeOK with KindsOK (what the kind of a call tells about its
  function and its place) and ReferencesOK (where a context and an event are
  there). TypeOK alone is not inductive: popping the queue and indexing by `ctx`
  need to know that there is one.
- *LockInv* adds to LockDiscipline that the UI loop frees as the owner of
  `wtxMutex`; without it the loop's unlock could release a caller's lock.
- *ContextInv* adds PlacesOK, which ties the states of a context to where its
  caller and the UI loop are; the queue has no duplicates because what is
  inserted is `held` and what is queued is `queued`.
- *CountInv* is the two length properties. The steps that touch neither queue are
  shown to be quiet in one lemma; for the others the point is that by LockInv at
  most one caller is between the insert and the push, so that the summand for it
  is 1 at most, and that eventFilter drops no event of a WTX call.
- *ImplementsSafely* assumes that there is no video thread, since with one an
  event pops another's context and the service is not implemented (`UiPop`). Each
  step of CallBus is mapped to a step of CallService or to a stutter. There is no
  bound on the contexts in flight; Progress is not part of SafeSpec. *AllWtx* (every
  event is of a WTX call or dropped) is what keeps `lost` away.
- *WokenIsDone* holds with any number of video threads and contexts. *NamesOK*: an
  event without a node, and the call that pushed it, has the name of a function of
  the video, which no WTX call has. *WokenOK*: a caller of a WTX
  call that has been woken holds `wtxMutex` since callWtx, so that the loop, which has
  signalled that name, cannot be past freeWtx. *SubmittedOK*: the caller's own context
  has been queued before it waited. The signal may have been meant for an older
  call of the same name whose caller has given up; the context in the loop's hand is
  then not the caller's, and by ContextInv the caller's is still queued or lost.

**Transactions** (any contexts). js_commitTransaction releases a mutex it does not
hold, so LockDiscipline does not hold and nothing of CallBus_proofs carries over.
*TxInv* does without the mutexes: TxTypes, TxPlaces and UiPlaces say for every
place of the JavaScript thread and of the UI loop what the state of the context in
hand is, and that no two places have the same one.

**PriorityQueue** (any data, priorities and first length of the array). The sift loops
are recursive functions on the round. A lemma on one takes the values of its rounds
as a function on 0..n and goes from each to the next (`SetInduction` in DataLemmas,
which gets induction over the numbers from the well-foundedness of <, as the
induction theorem of the library cannot be instantiated). What holds after each
round is the invariant of the loop: *SwapKeeps*, a swap exchanges two nodes and
keeps every node's own index right; *Rising* and *Falling*, the heap order holds
except at the node that is on its way, and holds across it. *HeapInv* is what the
rounds need to begin with: the length, the array's length, the indexes, and the
first free slot empty, where the loop down stops. NothingLost follows by taking
both operations as a change of the set of nodes. OrderKept says what remains of
the order: a pop that leaves an inner slot with one child may break it, since
pop_node stops at the first free slot (*Ends*). HeapIsCallQueue has one more fact about each
loop: on a *Level* array it swaps nothing, so that an insert appends and a pop moves
the last node to the root, which is QueueOps.

**HashTable and TextureRegistry** (any keys, hash, values and number of buckets). A
table is taken as the set of its *Pairs*, with *Shape*: each node is in the bucket
of its key and no key is there twice. Each walk over a chain is shown to change that
set as the map would (LookupIs, PrependWorks, ReplaceWorks, RemoveWorks), and
the resize, a fold over the nodes of all buckets, to keep it (NodesWork,
PrependAllWorks, ResizedWorks). *TableOK* adds that `count` is the number of the
pairs; *TablesInv* is TableOK while the table is in use. TableSteps maps each
operation of the table, and each of the textures, to a step of AssociativeMap or to
a stutter: this is the refinement for any table, with collisions and resizes. The
drawing order is a fold of insertions: InsertedWorks says that one keeps the list
sorted by depth (*ByDepth*) and free of duplicates (*OneEach*), NamesWork that the
whole list has the names of the table. *RegistryInv* is the agreement of the order
with the table while the thread runs.

**CoreStart** (any plugins and exports). *StartInv*: Position (what is left to
export is the end of the current plugin's list), PassedRegistered (what has been
passed in a list is in one of the two tables), ConditionsFollow (a threaded name has
its condition, except between the two halves of the export that is under way),
LoadedExport (a function in a table is one of a plugin that has been loaded),
SignalLast (all plugins, loaded or given up, then the signal, then the core).

**VideoPlayer** (any number of slots above 2, packets and queue limits). *VideoInv*:
HasRoom (a decoder past its wait for space has it, though the size it has read may
have changed since), HasPicture (a UI thread that shows or passes a picture has one), Apart
(the indexes differ by the pictures counted, corrected for the two half-steps),
Film (the numbers of the pictures in the ring increase, after the one shown and
before the one the decoder holds), Closing (what each stage of the end has waited for).

**WrapSocket** (any values, units and reads). *SocketInv*: FramesInv says what the
running frames tell of the two flags, and that one of them at most decodes or is
about to start the stream; it is the main part, because application code in a
callback may start any handler again. BufferInv and CountsInv relate what has been
received, decoded, given and read, and say what an error leaves (`Stuck`). AnswersInv
ties each answer to its value, and the value in the queue to the next read;
ClosesInv counts the ends.

**HttpCodec** (any messages that are well written, any number of chunks and bytes, any
limit of the head, cut anywhere). *WireWorks* says what the wire is without the
folds that build it, a *Grammar*: the messages come in order, each with its head
behind its start, and behind a head the body that it announces and the start of the
next message. *CodecInv* has the types, *Place* (what the mode says about the unit at
`from`: the start of the next message, the rest of a body of `bytesLeft` bytes, the
first chunk, nothing but bytes), *InOrder* (the bytes in front of `from` are those of
the values, each in one of them) and *EndOK* (a head follows an end, and behind an
end is no byte of its message). Once a body has been cut off too late (`torn`)
nothing is known of where the decoder stands, and only the types are left: the two
properties except that case too. What is decoded of a chunked body is its first chunk
only, as the decoder throws at the tail of any chunk that is not empty.

**Playlist** (any commands). *SingleInv* says that the step that registers closes the
timer, that the list comes with the one answer to it, and that the loop of the
playlist is in exactly one place: its timer, exec, a request, or an error. *ListInv*
says that the list has the last of the commands given, in order, and *OnceInv* that
what is executed are the active ones among those that exec has come past (`Past`).

**CurlRefs** (any handles, functions and size of the array). "The free list" is a
reachability, and `Free` is defined without a recursion, as what is in every set of
slots that contains slot 0 and follows the list. *CurlInv*:
a free slot points to a free slot and no two to the same, a slot that is held has the
function of its callback and one holder, and every slot is free, held or
overwritten. A lemma each says what taking the first of
the list and putting one in front does to `Free`.

**The sums.** In MCContainers and MCLoop each part's variables change only in steps of
that part, so that each behaviour of the sum is one of every part; HeapInContainers
and LoopIsSafe state the properties for the specifications that the runs check.

TLC has checked the properties and the less obvious parts of the invariants before
they were proved. Every safety property that a passing run checks, action properties
and the safety part of the two refinements included, is a theorem.

**TLC's alone** is liveness, which needs fairness and ENABLED and is out of the
prover's reach: EveryCallReturns, TransactionEnds, ReadsAnswered, AllDecoded,
AllExecuted, FilmEnds, DecoderStops, and the progress part of CallService. So are the
five violations: a counterexample needs no proof.

## 6. Not modelled

- **Command socket and configuration.** onNewConnection gives libuv a handle on its
  own stack (`src/wallyd.c:122`), which is used after the return: from the first read
  on every behaviour is allowed, and no property of a connection can hold. A command
  that arrives in two segments is cut (`src/wallyd.c:148`). What reaches the call core
  is modelled: a line becomes a callSync (`CallSync`). The configuration is a table
  that is read once; CoreStart has the one choice that matters, to daemonize.
- **Boot splash.** Two threads share the text and two textures without any lock
  (`src/wallystart.c:140`, `514`): again undefined behaviour everywhere of interest.
- **The elements of a context**, their array and its bound (`lib/plugins.c:133`), the
  bound of the ids (`lib/plugins.c:47`), and the use of the elements by
  clearTransaction after the UI loop has freed the context (`transaction.c:31`). The
  context itself, its owners and its life are modelled.
- The `ph->transaction` mode of callWtx (the startTransaction of `plugins/js.c`), the
  ssp_ functions, callNonBlocking, priqueue_node_popall, hashtable_delete: not
  called, or superseded by transaction.js. A threaded name whose function is NULL
  (`lib/ui.c:117`).
- **Unlocked readers of the hash table** (`lib/Hash_Table.c:298`): its operations are
  single steps; a walk through freed nodes is undefined.
- **The encoder and request.js.** The encoder keeps no more than whether the body is
  chunked; request.js reads a head and one value and ends. What a request may come to
  is in Playlist.
- **duphandle** of the curl binding (`plugins/dukcurl.c:455`-`461`) pushes the bare
  handle of libcurl where the other functions expect the container with the slots. What
  its finaliser reads there is memory of libcurl: any slots of the array may be given
  back, and no property of the array could hold after it. No script in the repository
  calls it.
- **`ph->textureCount`**, which only a statistic reads (section 4).
- **bind and send that throw** in ssdp.js, instead of calling back with an error:
  the module then ends before its timer is made.
- **cloud.js**, the demo timer of a device that is not configured, and the notices
  of success or failure, which nobody waits for.
- **Of the video** seeking, pausing and subtitles, which nothing in the plugin
  starts, and the decoding itself. The other copies of ffplay (`ffplay2`) are not
  built into the plugin.
- Fonts and colours are tables that are only added to; drawing is SDL's. Device
  plugins are I/O. nanosvg, miniz and the qr code are third-party; the programs
  kmscube, modeset, testvideo, drmtest and so on are experiments.

## 7. What is left

1. The elements of a context on top of Transactions: what a clear after a commit
   does to memory that the UI loop has freed, with the reuse of the address.
2. WrapSocket with the decoder of HttpCodec in place of its own, and request.js on
   top of both, once the decoder's two errors are repaired: today the composition
   ends at them.
3. Unlocked readers of the hash table, as a choice over what the walk finds.
4. CallBus with PriorityQueue in place of QueueOps. HeapIsCallQueue says that the
   two agree step by step; the composition would say it of the whole core, and would
   allow calls of more than one priority.
