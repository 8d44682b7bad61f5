# A TLA+ model of wgutils-c

wgutils-c is a set of small C libraries used by the same application on the
desktop and, compiled by Emscripten, in a browser. This directory holds models of
the parts that keep state and can go wrong in ways a test hardly reaches, the TLC
configurations that check them, and TLAPS proofs that all the safety properties the
runs check of small instances hold for every value of the constants. `PROJECT.json`
lists the parts, the runs, the lines every definition models, the hazards and the
theorems.

## Inventory

| part | state | operations | what is hard | what makes it correct |
|---|---|---|---|---|
| `websocket/websocket.c` | socket, flags, requested close, a linked list of events; a worker thread; a mutex | create, poll, send text/binary, close, destroy; the worker's connect, handshake, receive loop | two threads and a peer; blocking `send` with the mutex held; many exits; destroy at any moment | events in order and once, no closed descriptor in use, whole frames, nothing used after free, destroy returns |
| `websocket/websocket.wasm.c` | browser socket, `connected` | the same API, callbacks of the browser | callbacks after destroy, `connected` behind the browser's state | the same contract, no event for a freed object |
| `async/wg_op.c` | pending/done, status, implementation pointer | init, complete, status, reset, deinit | none alone | a status is final, the implementation is freed once |
| `fileio/fileio.wasm.c` | mount flag, `ready`, `syncing`, `last_sync_ok` on `Module` | init, deinit, restore, flush, poll, finish, free | `FS.syncfs` answers later, all operations share three flags, teardown in between | an operation completes, reports its own outcome, a flush has stored |
| `fileio/fileio_common.c`, `fileio.c` | mount point | read, write, exists, mkdir, rmdir, rmfile | path normalisation, one of several system calls failing | paths stay under the mount point, answers are true |
| `lru_cache/lru_cache.c` | doubly linked list, byte and entry counts | create, destroy, clear, get, put | pointer updates, accounting, limits | links, counts, recency |
| `event/event.c` (+ vendored `ee`, `list`) | listeners per name | on, once, off, off_all, emit | listeners that change the list while it is walked | one call per emit, one-shot once |
| `fetch_url/*` | an operation, its context, its result | async, poll, finish, free, sync | answer after free, copies of one data pointer, failures in the middle of a body | one owner per buffer, whole bodies, every operation completes |
| `logger`, `json`, `path`, `uri`, `vec` | none or trivial | formatting, accessors, string functions, arithmetic | — | — |

The parts interact little: `fileio` and `fetch_url` embed a `wg_op_t` and are
polled by the application's frame loop; the WebSocket's worker thread speaks to the
application only through the event list, under the mutex; the event bus and the LRU
cache are called on one thread and call back into the application.

## Modules

* `WsEventQueue` — the event list: nodes, head and tail pointer, append, unlink,
  drain. A node is named by the order of its allocation, so that "delivered once and
  in order" is a statement about numbers.
* `WebSocket` (extends it) — one `websocket_t`. The worker's program counter `wpc`
  names the places between its critical sections; `app` is where the application is
  in a call. A critical section is one step unless it calls `send`, which blocks
  while the peer does not read (`SendRoom` pieces fit in the buffer): then the thread
  keeps `mutex` and the pieces still to send are in `pend`. `WorkerPeek` reads
  `close_requested` and the code without the lock, as the code does, and may see the
  stores of `websocket_close` in any order. The peer, `recv`, `select` and the TCP
  connection are external: the peer sends any frame, ends or resets the connection.
  Frames are a header piece and a payload piece; masking, lengths, SHA-1, base64, URL
  parsing and the close reason are abstracted.
* `WebSocketEvents` — what the four callbacks promise:
  `[open message*] [error] close`.
* `WebSocketProps` — the properties, the refinement (`stream <- events`,
  `consumed <- Len(delivered)`) and the inductive invariant.
* `WebSocketProofs` — the theorems about events, the descriptor and the end;
  `WebSocketWireProofs` (extends it) — the frames sent, the close code, the refinement
  and the messages received. `MCWebSocket` — instances for TLC.
* `WebSocketWasm` — the browser build. The browser is external and follows the WHATWG
  standard: it has the `readyState`, fires events in tasks of their own, error and
  close of a failed connection in one. `ws_cb_on_*` is the step up to the call of the
  application's callback; until `CallbackReturns` the application may call anything,
  also `websocket_destroy` of the object it was called for. `Stream(i)` maps the
  events of each object to `WebSocketEvents`, the contract of the native build.
* `WebSocketWasmProofs`, `FileioSyncProofs`, `FileioPathsProofs`, `FetchUrlProofs`,
  `EventBusProofs`, `LruCacheProofs` — each extends the module it is named after.
* `WgOp` — `wg_op_t` as a record with its operations, for `FileioSync` and `FetchUrl`.
* `FetchUrl` — `fetch_url` in both builds; `build` is chosen in `Init`. Data are
  numbered buffers of the heap with the url and the number of parts received. On the
  desktop `fetch_url_async` runs `fetch_url_sync` before it returns, so the program is
  blocked (`Running`) until curl's callbacks and `Perform...` are done; in the browser
  the operation is pending until `fetch_success` or `fetch_error`, and a JSPI call is
  suspended beside the others. Every allocation and every request may fail, and a
  server may answer with any status of `OkStatus` and `OtherStatus`. A finish into a
  result that holds data overwrites it, as the code does: that buffer is `"lost"`, by
  the application's doing. The one discipline assumed of the application is that it
  does not use a result while a suspended JSPI call is to write to it (`Usable`). A
  callback that finds its context freed sets `stale`, and nothing is said of what follows.
* `FileioSync` — restore and flush in the browser. `sync_to_idbfs` starts an
  `FS.syncfs` or, when one is in flight, nothing; `SyncAnswers` is its callback.
  What IDBFS does with the files is external and reduced to one file whose version
  in memory is `mem` and in IndexedDB `disk`. Without a mount `FS.syncfs` has nothing
  to do and calls back at once. Histories (`base`, `own`, `alone`, `failed`, `saved`,
  `torn`) are only read by properties; `alone` are the operations that were begun with
  nothing in flight and met neither another begin nor a teardown before they were done.
* `FileioPaths` — `fileio_common.c`. A path is the sequence of what stands between its
  separators; `NormalizeSegment` is one turn of the loop, with the output and the marks
  as the code keeps them, and `Meaning` and `Valid` say independently what a path
  means: the level after k segments is the number of names minus the number of `..`
  among them, and at each level the path is in the end below stands the last name that
  came there. The file tree and the POSIX calls on it are external (the system follows
  `..` by itself, so a path that kept one would leave the mount point) and may fail at
  any directory and any file; a write may also be cut by `fwrite` (`whole`) or lost by
  `fclose` (`flushed`), whose result the code ignores. `ret` is the answer of the last
  call, `kept` what was written and not removed since (`UNKNOWN` where `fclose` lost it),
  both under the path's meaning. `MCFileioPaths` — an instance.
  The wrappers of `fileio.c` and `fileio.wasm.c` add nothing.
* `LruCache` — the cache at the level of pointers: `head`, `tail`, `prev`, `next`
  of every node, `live` the allocated ones. The evicting loop is taken turn by turn
  with `pc = "evict"`, when no other call is possible. `out` is the entry that the
  last call has handed out, none after a put, a clear or a call that failed.
* `LruList` — the abstract LRU list: a get hands out an entry of the list and moves it
  to the front, and since `out` shows which, a get that left the order alone would not
  be a step of it. The mapping reads the list from the head and,
  while a put is still evicting, keeps its longest prefix that fits: so the loop is
  shown to drop exactly what does not fit. `MCLruCache` — an instance.
* `EventBus` — the bus: per name a list of numbered listener entries, and how many
  bridges the vendored emitter holds. A listener being called may use the bus, so
  `stack` has a frame for each `event_bridge_dispatch` that has not returned, with the
  loop's `node` and `next`. Reading an entry that has been freed sets `stale`, and
  nothing is said of what follows. With `Polite` a listener neither removes the
  entries a running loop holds (`node` and `next` of any frame), nor emits an event
  whose dispatch would remove one of them as a one-shot listener, nor calls `off_all`
  for an event that is being dispatched. Everything else is allowed. The bus is
  destroyed only when no emit is running. The emitter's own event `new_listener` is
  not among the names of the runs: a listener registered under it would be handed an
  argument of another type.

## Runs

| run | shows |
|---|---|
| `websocket_receive` | three frames of every kind, fragmented messages with control frames between them, ends and resets: `MessagesIntact`, `OrderlyEndLosesNothing`, `EndReported` |
| `websocket_races` | one send, one close, a destroy, one frame, a signal, a send buffer of one piece: the safety properties, the refinement `StreamSpec` |
| `websocket_live` | `DestroyReturns`, `CloseDelivered`, with failing allocations and a peer that ignores the framing rules |
| `websocket_wasm` | two browser sockets, callbacks that send, close, create and destroy: `NoLateCallback`, `SendsHonest`, `StreamSpec` |
| `fetch_url` | two operations and a blocking fetch of each build into two results, with a status of 200 and another one, failures everywhere: `HeapOwned`, `BodyWhole`, `StatusMatches`, `FetchCompletes` |
| `fileio_overlap` | two operations, two writes and a teardown in any order: the flag `syncing` always has a callback coming, failures are fresh, statuses are final, every operation that is polled completes; one that nothing met has its own outcome and has stored what it flushed |
| `fileio_paths` | every path of up to five segments (`NormalizeCorrect`); three writes and any number of other calls under two mount points, one within the other: `FilesFaithful`, `Confined` |
| `fileio_flush_lost` | **violated**: a flush begun during another sync reports 0 and stores nothing |
| `fileio_teardown` | **violated**: a restore that answers after `fileio_deinit` sets `ready` |
| `lru_cache` | every sequence of calls of four keys in three places and five bytes, lengths 0 and too large included: `Linked`, `Accounted`, `ListSpec` |
| `event_polite` | listeners that add, remove and emit while they are called, sparing what a loop holds: `NoStale`, `EmitReachesAll`, `OnceOnce`, `BridgeMatches` |
| `event_once` | **violated**: a one-shot listener that emits its own event is called twice |

Bounds. Sends, closes, frames, signals, operations, writes and teardowns are counted
and bounded by constants named `Max...`. One send and one close beside a destroy give
every pair of application calls a chance to meet every place of the worker; a buffer
of one piece makes every frame block in its middle; three frames are a begin, a control
frame and an end of a message; two operations are one in flight and one begun
meanwhile, after the answer or after a teardown (three, without writes, have been
checked too). Two fetches and a blocking one share two results of the application, so
that a finish meets an empty result, one that holds data and a suspended call, and
two parts make a body that can break off in the middle (a second successful status, 206,
has been checked too). Five segments hold every
combination of two names, two steps up and one segment to skip. In the cache four keys overflow three
places and the lengths 1, 2 and 4 overflow five bytes by one eviction and by more. On the
bus three entries are one before, one at and one after the place a loop has reached,
and three emits nest twice (four entries have been checked too, in 16 million states).
A run that may stop because its bounds are used up says `CHECK_DEADLOCK FALSE`
(`FileioSync`, `FileioPaths`, `FetchUrl`, `WebSocketWasm`, `EventBus`); the runs of
the native WebSocket and of the cache check for deadlock.

Fairness. `websocket_live` assumes weak fairness of the worker (a running thread
whose `connect` and handshake return; neither has a timeout of its own), of a call
the application has made, of polling (the application polls every frame), of the
socket and of a peer that reads while it is up. The last one is needed: `send` is called
with the mutex held, and a peer that never reads stops every other call. Nothing is
assumed of what the application starts, of the peer sending or ending, or of errors.
`fileio_overlap` assumes, for `OpsComplete`, that IndexedDB answers and that operations are polled.
`fetch_url` assumes that curl and `emscripten_fetch` answer, if only with a timeout; of a
JSPI fetch, which has none, nothing is assumed. `websocket_live` has no send by the
application (its one thread cannot be in a send and in a destroy): the worker's own
frames fill the buffer and block.

## Proofs

Every theorem holds for all values of the constants that satisfy the `ASSUME` of the
modules (ranges of the constants, nothing else), unless a further assumption is named
here. Each module has one inductive invariant, checked by TLC on the runs' instances
before it was proved, and one lemma per action or group of actions. The facts on
sequences, functions and finite sets are those of the prover's library.

**`WebSocketProofs`** (also with failing allocations and a peer that breaks the rules):
`TypeOK`, `EventOrder`, `QueueLinked`, `DeliveredInOrder`, `SockfdLive`,
`ConnectedWindow`, `FreedClean` and the action property `CloseIsFinal`. None is
inductive alone. `TypeOK` includes that the close code stored for the worker, which reads
it without the lock, is above 0 whatever the caller passed. `EventOrder` needs to know that an event added now does not come after
CLOSE or before OPEN, which depends on where the worker is: `EmitPhase` (which places
of the worker are possible once an error or the close has been reported) and
`EventsEmitted` (the flags `close_emitted` and `error_emitted` agree with the list,
nothing is reported while connecting). `SockfdLive` follows from `FdOwned`, which says
at each place of the worker whether the descriptor is open and published. `FreedClean`
needs `AppPhase` (after the join the worker is done) and `LockHeld` (the holder of the
mutex is at a place where it sends). `QueueLinked` says which nodes are linked in which
order, and `DeliveredInOrder` that the delivered ones are those before the head.

**`WebSocketWireProofs`**: `WireFramed`, `EarlyCloseFirst`, `EndReported`,
`CloseCodeHonest`, and the refinement `StreamSpec` (assuming `~AllocMayFail`: an event
for which there is no memory is missing from the stream). `Aligned` says that what a
thread has still to send completes the frame at the end of the wire, or is a frame,
unless nothing can be sent any more (`Dead`): this is what makes a frame that blocks in
its middle safe, since the mutex stays with its sender. `EarlyClose` says that the
close requested while connecting is sent or next to be sent. `Opened` and `ClosePhase`
say which events are there, and which codes kept, at each place of the worker: a worker
that is about to report a close has reported an error or echoed the peer's CLOSE on a
published socket, so an end without an error has OPEN before it. Every
step of the native client is then a step of `WebSocketEvents` or changes neither the
events nor what was delivered.

In the same module, `MessagesIntact` and `OrderlyEndLosesNothing`, for any number of
messages, fragments and control frames (both properties speak of a peer that
keeps to the framing rules, and of no failing allocation). A `Route` gives each frame
in the inbox the place it has in the peer's output, as messages completed and parts of
the next one; `Stands` says that the worker has reported all before the place of the
next frame and holds the parts that precede it. Reading a frame moves the worker one
place on, sending one adds a place at the end. `OrderlyEnd` says that the worker comes
to its end without an error only when the inbox is empty for good, or one of the ends
cut the connection.

**`WebSocketWasmProofs`**: `NoLateCallback`, `SendsHonest`, the refinement `StreamSpec`
of every object. The browser has handlers exactly for the objects not freed
(`Guarded`), and its `readyState` says which events may have been reported (`Phase`).

**`FileioSyncProofs`**: `TypeOK`, `SyncingHasCallback`, `FailureIsFresh`,
`OutcomeIsOwn`, `LoneFlushStores`, the action property `DoneIsStable`. `FailureSeen`
says that `last_sync_ok` is false only through a failure that every pending operation
has lived through. `Lone` says of an operation that has met no other that the shared
flags are its own while it is pending, and what memory holds meanwhile: without it
neither its outcome nor what it stored can be traced through the shared flags.
`LoneFlushStores` is about a flush of a file that is there; what a flush of a removal
leaves in IndexedDB is not stated.

**`FileioPathsProofs`**: `NormalizeCorrect`, `FilesFaithful` and the action property
`Confined`. `FullPathIs` is `NormalizeCorrect` without its bound: whatever the length
of a path, the code accepts it exactly if it is valid and yields the mount point and
its meaning. After n segments (`Normal`) the code has refused exactly if a level so far
was above the mount point; otherwise the output has one name for each level, the last
that came there (`Latest`), and the d-th mark is d - 1, so that a `..` takes off exactly
one name. The output holds names only, so the system resolves the full path to itself
(`ResolveIs`). The invariant of the tree (`Tidy`) is that everything in it is in a
directory that is in it: from it nothing is below a file or below what has been
removed, and a write or a remove leaves it so. `MakeAbove` only adds directories above
the path (`Grown`), of which those that are not below the mount point lead to it
(`PrefixSplit`). What is assumed of the constants: mount points are written without
`.` and `..`, and the tree that is there before is `Tidy`. `Normalized`, `Resolve` and
`MakeAbove` are recursive functions: that each satisfies its equation is shown by
extending it one place at a time (`RunExists`, `MakingExists`).

**`FetchUrlProofs`**: `HeapOwned`, `BodyWhole`, `StatusMatches`, in both builds. `Data`
maps everything that may hold a buffer (a result of the application, an operation, the
fetch under way) to the buffer it holds; `Owned` says that this map is one to one onto
the live buffers, which is what a step can be shown to keep: it hands a buffer from one
holder to another (and what that one held is lost), allocates one for a holder that had
none, or frees one and clears its holder. `CallPhase` and `OpPhase` say that nothing but
a result of the application is overwritten. The statuses of the servers are constants of
which the proof needs only that they are positive, 200 among the successful ones and not
among the others: the code of a result with data is 200 from curl, a successful one
from an operation, and any of them from JSPI.

**`EventBusProofs`**: `BridgeMatches` whatever the listeners do (`BusInv`); and for
polite listeners, with `NewListener` not among the names (`ASSUME Polite, NewListener
\notin Names`), `NoStale`, `EmitReachesAll` and `OnceOnce`. The run `event_once` shows that
politeness is needed. `Kept`: no running loop holds a freed entry, and no nested
dispatch will remove one that it holds. `Reached`: entries are listed in the order of
their allocation, and what a loop has called is before the place it has reached, what
was there at its begin and still is before that place has been called. `Once`: a
one-shot listener that was called and is still there is the one being called.

**`LruCacheProofs`**: `TypeOK`, `Linked`, `Accounted` and the refinement `ListSpec`, for
any limits, keys and lengths.
`Listing(s)` says that the pointers are those of a list of the nodes of the sequence
`s` (`Chain`), which are the allocated ones, each once, and that the sums of their
lengths end in `used_bytes` (`Sums`). Touching a node moves it to the front of `s`,
a put of a new key adds one in front, an eviction drops the last; each has a lemma for
the sequence, for the pointers and for the sums. For the refinement a get is in addition the
step that hands out the entry it has moved to the front (`GetRefines`). That `Nth`, `Order` and `Total`, which
are recursive functions, read this `s` and these sums is shown by looking at the least
place where they would differ (`LeastNat`). For the refinement, the entries that fit are
a prefix of the list whose length is determined by the sums (`Longest`, `KeptIs`): a
get or a put is the move to the front that `LruList` makes; a turn of the eviction drops
an entry behind that prefix, so that nothing the application sees changes; and when the
loop ends the prefix is the whole list.

Some properties are stated so that they can be reasoned about by index: the messages
reported are compared with those of the peer at the place of their event, an entry of
the bus is in one list and at one index there, `used_bytes` is the sum along the list,
the meaning of a path is given by counting its segments. The induction theorems of the
library cannot be used, since they take a predicate as a parameter; inductions are
arguments by the least counterexample (`LeastNat`), over sets of numbers.

Only model-checked is liveness (`DestroyReturns`, `CloseDelivered`, `OpsComplete`,
`FetchCompletes`): fairness and ENABLED are out of the prover's reach.

## What the violated runs show

* `fileio_flush_lost`, `fileio_teardown`: the flags of `Module` are shared by all
  operations and outlive a teardown (`fileio.wasm.c:178`, `201`).
* `event_once`: a one-shot listener is removed after it has returned (`event.c:136`).

## What else was met

Differences between the code and its comments that no run is about; each can be seen
by one call:

* `fileio_mkdir` makes a directory at every separator after the first character of the
  full path and none after the last one (`fileio_common.c:452-462`), which is what
  `fileio_write` needs of the loop. So `fileio_mkdir("a")` returns 0 and makes nothing
  below the mount point, while the header says "The directory path to create."
  (`fileio.h:74`, the same in `fileio_common.c:432`). The model makes what the code makes;
  `FilesFaithful` says nothing of what a mkdir that returned 0 has made.
* `fileio_write` does not look at what `fclose` returns (`fileio_common.c:263`): data that
  `fwrite` has only buffered may be lost and 0 returned, while the header says "@return 0
  on success, or -1 on failure." (`fileio.h:33`). The model has that outcome, and
  `FilesFaithful` shows that it is the only way a write that returned 0 is lost.

* On the desktop `fileio_init("/")` strips the slash before `fileio_init_common`
  checks that "the mount point can't be the root directory" (`fileio_common.c:181`).
  `mkdir("")` then fails and -1 is returned, but the mount point stays initialized as
  the empty string, and the paths of later calls start at the root.

## Not modelled

Bytes and formatting (masking, SHA-1, base64, HTTP headers, URL parsing, the close
reason, log text) and lengths of strings (a full path that is cut at the end of its
buffer); `websocket_destroy` from inside a callback of the native build, which the
code does not support; signals other than an interrupted `select` (a broken pipe
included); the emitter running out of memory, and an iterator of `find_binding` that
cannot be allocated; several `websocket_t` sharing the static state of `ws_xorshift`. A
`websocket_send_*` or `websocket_close` from a third thread is not modelled: the model
has one application thread. In the browser: a `websocket_close` with a code that
`WebSocket.close` refuses (it throws into the caller), and an `emscripten_fetch` that
returns NULL. `fetch_url_head` and `fetch_url_ping` keep no state. Restore and flush of
the desktop return an operation that is already done.

`logger` formats and prints; `json` reads fields of a tree that vendored cJSON has
built; `uri` and `path` are string functions over vendored code, of which a model at
the level of characters would be a transliteration; `vec` is floating point. None of
them keeps state between calls that another call could find wrong.

## Plan

Every safety property of the runs has a theorem. What would extend the model: lengths of
paths (a full path cut at the end of its buffer, `fileio_common.c:151`), the root as
mount point on the desktop, and several application threads on one `websocket_t`.
