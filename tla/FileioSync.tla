----------------------------- MODULE FileioSync -----------------------------
(***************************************************************************)
(* Restore and flush of the browser build (fileio.wasm.c): the mount is a  *)
(* MEMFS directory that Emscripten's IDBFS copies from and to IndexedDB.   *)
(* FS.syncfs answers in a callback that may come any time later; all the   *)
(* operations begun meanwhile share three flags of Module.                 *)
(*                                                                         *)
(* The contents of the mount are those of one file: mem and disk are the   *)
(* number of the write that made the copy in memory and in IndexedDB, 0    *)
(* when there is no such file.                                             *)
(***************************************************************************)
EXTENDS WgOp, Sequences, FiniteSets

CONSTANTS
    MaxOps,         \* bound: restores and flushes begun
    MaxWrites,      \* bound: calls of fileio_write
    MaxDeinits      \* bound: calls of fileio_deinit

ASSUME FileioSyncAssumption ==
    MaxOps \in Nat /\ MaxWrites \in Nat /\ MaxDeinits \in Nat

VARIABLES
    initialized,            \* fileio_mount_point_initialized
    ready, syncing, last_sync_ok,   \* Module.fileio_idbfs_*
    ops,                    \* fileio_sync_op_t, in the order they were begun
    mounted,                \* IDBFS is mounted
    inflight,               \* operations whose FS.syncfs has not called back
    mem, disk,
    \* histories
    base,                   \* mem when the operation was begun
    own,                    \* what the operation's own FS.syncfs answered (until
                            \* the operation is freed)
    alone,                  \* operations that no other sync or teardown has met
    failed,                 \* some FS.syncfs failed while it was pending
    saved,                  \* the latest write disk has held
    torn,                   \* operations begun before the last fileio_deinit
    nwrites, ndeinits

module == <<ready, syncing, last_sync_ok>>
data == <<mem, disk, saved, nwrites>>
hist == <<base, own, alone, failed>>
vars == <<initialized, module, ops, mounted, inflight, data, hist, torn, ndeinits>>

Init ==
    /\ initialized = FALSE /\ mounted = FALSE
    /\ ready = FALSE /\ syncing = FALSE /\ last_sync_ok = FALSE
    /\ ops = <<>> /\ inflight = {}
    /\ base = <<>> /\ own = <<>> /\ failed = <<>> /\ alone = {}
    /\ mem = 0 /\ disk = 0 /\ saved = 0
    /\ torn = 0 /\ nwrites = 0 /\ ndeinits = 0

Latest(v) == IF v > saved THEN v ELSE saved

Pending(i) == ~wg_op_is_done(ops[i])

Met == {i \in alone : Pending(i)}

-----------------------------------------------------------------------------
(* Mounting.                                                               *)

\* The mount point is marked initialized before its directory is made, and
\* stays so when that fails.
fileio_init_common == ~initialized /\ initialized' = TRUE

fileio_deinit_common == initialized' = FALSE

\* Without the directory fileio_init returns before it mounts.
fileio_init ==
    /\ fileio_init_common
    /\ \/ UNCHANGED <<mounted, ready>>
       \/ mounted' = TRUE /\ ready' = FALSE
    /\ UNCHANGED <<syncing, last_sync_ok, ops, inflight, data, hist, torn, ndeinits>>

\* Unmounting forgets the files in memory; what is in flight goes on.
fileio_deinit ==
    /\ ndeinits < MaxDeinits
    /\ syncing' = (syncing /\ ~initialized)
    /\ ready' = FALSE
    /\ mounted' = FALSE /\ mem' = 0
    /\ fileio_deinit_common
    /\ torn' = Len(ops) /\ ndeinits' = ndeinits + 1
    /\ alone' = alone \ Met
    /\ UNCHANGED <<last_sync_ok, ops, inflight, disk, saved, nwrites, base, own, failed>>

-----------------------------------------------------------------------------
(* Files, as far as restore and flush can tell.                            *)

fileio_write ==
    /\ mounted /\ nwrites < MaxWrites
    /\ nwrites' = nwrites + 1 /\ mem' = nwrites + 1
    /\ UNCHANGED <<initialized, module, ops, mounted, inflight, disk, saved, hist,
                   torn, ndeinits>>

fileio_rmfile ==
    /\ mounted /\ mem # 0
    /\ mem' = 0
    /\ UNCHANGED <<initialized, module, ops, mounted, inflight, disk, saved,
                   nwrites, hist, torn, ndeinits>>

-----------------------------------------------------------------------------
(* Restore and flush.                                                      *)

NewOp(kind) ==
    /\ Len(ops) < MaxOps
    /\ ops' = Append(ops, wg_op_init(kind, NULL))
    /\ base' = Append(base, mem) /\ failed' = Append(failed, FALSE)
    /\ alone' = (alone \ Met) \cup (IF inflight = {} THEN {Len(ops) + 1} ELSE {})

\* Nothing is started while another sync is in flight.  Without an IDBFS mount
\* FS.syncfs has nothing to do and calls back at once.
sync_to_idbfs(populate) ==
    \/ /\ syncing
       /\ own' = Append(own, "none")
       /\ UNCHANGED <<syncing, ready, inflight>>
    \/ /\ ~syncing /\ mounted
       /\ syncing' = TRUE
       /\ inflight' = inflight \cup {[op |-> Len(ops) + 1, populate |-> populate]}
       /\ own' = Append(own, "none")
       /\ UNCHANGED ready
    \/ /\ ~syncing /\ ~mounted
       /\ ready' = (ready \/ populate)
       /\ own' = Append(own, "ok")
       /\ UNCHANGED <<syncing, inflight>>

\* Mutant: the outcome of the last sync is not reset.
BeginKeepsOutcome(kind) ==
    /\ NewOp(kind)
    /\ sync_to_idbfs(kind = "FILEIO_RESTORE")
    /\ UNCHANGED <<last_sync_ok, initialized, mounted, data, torn, ndeinits>>

fileio_sync_begin_internal(kind) ==
    /\ NewOp(kind)
    /\ last_sync_ok' = TRUE
    /\ sync_to_idbfs(kind = "FILEIO_RESTORE")
    /\ UNCHANGED <<initialized, mounted, data, torn, ndeinits>>

\* What IDBFS leaves behind (external): it lists both sides, copies a file whose
\* times differ, reading it as it is by then, and removes one that the source
\* does not list.
Restored(snap) ==
    IF ~mounted THEN mem ELSE IF disk = 0 /\ snap = 0 THEN mem ELSE disk

Stored(snap) == IF snap # 0 /\ mem # 0 THEN {snap, mem} ELSE {snap}

\* Mutant: an error does not end the sync.
ErrorKeepsSyncing(s, ok) ==
    /\ last_sync_ok' = ok
    /\ ready' = IF s.populate THEN ok ELSE ready
    /\ syncing' = (syncing /\ ~ok)

\* Mutant: the error is not looked at.
ErrorIgnored(s, ok) ==
    last_sync_ok' = TRUE /\ ready' = (ready \/ s.populate) /\ syncing' = FALSE

\* The callback sync_to_idbfs hands to FS.syncfs.
SyncCallback(s, ok) ==
    /\ last_sync_ok' = ok
    /\ ready' = IF s.populate THEN ok ELSE ready
    /\ syncing' = FALSE

Answered(s, answer) ==
    own' = IF Freed(ops[s.op]) THEN own ELSE [own EXCEPT ![s.op] = answer]

SyncSucceeds(s) ==
    /\ SyncCallback(s, TRUE)
    /\ IF s.populate
       THEN mem' = Restored(base[s.op]) /\ UNCHANGED <<disk, saved>>
       ELSE /\ disk' \in Stored(base[s.op])
            /\ saved' = Latest(disk')
            /\ UNCHANGED mem
    /\ Answered(s, "ok")
    /\ UNCHANGED failed

\* A failed restore may have copied the file; a failed flush is rolled back.
SyncFails(s) ==
    /\ SyncCallback(s, FALSE)
    /\ mem' \in IF s.populate THEN {mem, Restored(base[s.op])} ELSE {mem}
    /\ Answered(s, "err")
    /\ failed' = [i \in DOMAIN failed |-> failed[i] \/ Pending(i)]
    /\ UNCHANGED <<disk, saved>>

SyncAnswers ==
    \E s \in inflight :
        /\ SyncSucceeds(s) \/ SyncFails(s)
        /\ inflight' = inflight \ {s}
        /\ UNCHANGED <<initialized, mounted, ops, base, alone, nwrites, torn, ndeinits>>

\* IDBFS is mounted with autoPersist: it also stores changes by itself.
AutoPersist ==
    /\ mounted /\ disk # mem
    /\ disk' = mem
    /\ saved' = Latest(mem)
    /\ UNCHANGED <<initialized, module, ops, mounted, inflight, mem, nwrites, hist,
                   torn, ndeinits>>

SetOp(i, op) ==
    /\ ops' = [ops EXCEPT ![i] = op]
    /\ UNCHANGED <<initialized, module, mounted, inflight, data, hist, torn, ndeinits>>

\* Mutant: the flag itself becomes the status.
OutcomeIsFlag == IF last_sync_ok THEN 1 ELSE 0

Outcome == IF last_sync_ok THEN 0 ELSE -1

\* Mutant: an operation that is done is completed again.
PollRecompletes(i) ==
    /\ ~Freed(ops[i]) /\ ~syncing
    /\ SetOp(i, wg_op_complete(ops[i], Outcome))

\* Mutant: the sync is not waited for.
PollDoesNotWait(i) ==
    Pending(i) /\ SetOp(i, wg_op_complete(ops[i], Outcome))

\* fileio_sync_poll, fileio_sync_finish.
fileio_sync_poll(i) ==
    /\ Pending(i) /\ ~syncing
    /\ SetOp(i, wg_op_complete(ops[i], Outcome))

\* Also of a pending operation: the callback does not refer to it.
fileio_sync_op_free(i) ==
    /\ ~Freed(ops[i])
    /\ ops' = [ops EXCEPT ![i] = wg_op_deinit(@)]
    /\ alone' = alone \ {i}
    /\ own' = [own EXCEPT ![i] = "none"] /\ failed' = [failed EXCEPT ![i] = FALSE]
    /\ UNCHANGED <<initialized, module, mounted, inflight, data, base, torn, ndeinits>>

-----------------------------------------------------------------------------
Begin == \E kind \in {"FILEIO_RESTORE", "FILEIO_FLUSH"} : fileio_sync_begin_internal(kind)

Poll == \E i \in 1 .. Len(ops) : fileio_sync_poll(i)

Free == \E i \in 1 .. Len(ops) : fileio_sync_op_free(i)

Next ==
    \/ fileio_init \/ fileio_deinit \/ fileio_write \/ fileio_rmfile
    \/ Begin \/ Poll \/ Free
    \/ SyncAnswers \/ AutoPersist

Spec == Init /\ [][Next]_vars

\* IndexedDB answers every request, and the application polls what it has begun.
FairSpec == Spec /\ WF_vars(SyncAnswers) /\ WF_vars(Poll)

-----------------------------------------------------------------------------
(* What holds however restores, flushes and teardowns overlap.             *)

FieldsOK ==
    /\ initialized \in BOOLEAN /\ mounted \in BOOLEAN
    /\ ready \in BOOLEAN /\ syncing \in BOOLEAN /\ last_sync_ok \in BOOLEAN
    /\ ops \in Seq(wg_op_t({NULL}))
    /\ inflight \subseteq [op : 1 .. Len(ops), populate : BOOLEAN]
    /\ mem \in 0 .. nwrites /\ saved \in 0 .. nwrites /\ disk \in 0 .. saved
    /\ base \in Seq(0 .. nwrites) /\ Len(base) = Len(ops)
    /\ own \in Seq({"none", "ok", "err"}) /\ Len(own) = Len(ops)
    /\ failed \in Seq(BOOLEAN) /\ Len(failed) = Len(ops)
    /\ alone \subseteq 1 .. Len(ops)

\* The fields are of their types, and the status of an operation is 0 or -1
\* (fileio_sync_poll, 105-110): it is never 1, which fileio_sync_finish returns
\* for an operation that is still pending (121-124) and the shared flag is after
\* a success.
TypeOK == FieldsOK /\ \A i \in 1 .. Len(ops) : ops[i].status_code \in {0, -1}

\* While fileio_idbfs_syncing is set a callback is on its way: the flag that
\* keeps every operation pending (fileio_sync_poll, 101-109) and every later
\* sync from starting (178) is never left set by an error, a teardown or the
\* callback of an older sync.
SyncingHasCallback == syncing => inflight # {}

\* An operation reports -1 only if an FS.syncfs failed between its begin and
\* its completion: failures of earlier syncs are not reported again (223-225).
FailureIsFresh ==
    \A i \in 1 .. Len(ops) : ops[i].status_code = -1 => failed[i]

\* A completed operation keeps its status until it is freed, whatever syncs are
\* begun and answered after it (fileio_sync_poll's first return, 96-99).
DoneIsStable ==
    [][\A i \in 1 .. Len(ops) :
         ~Pending(i) => ops'[i] = ops[i] \/ Freed(ops'[i])]_vars

\* Every restore and flush that is polled completes (89-112).
OpsComplete ==
    \A i \in 1 .. MaxOps : i \in DOMAIN ops ~> i \in DOMAIN ops /\ ~Pending(i)

\* The status of an operation is what its own FS.syncfs answered, if no other
\* was in flight when it was begun and none, and no teardown, was begun before
\* it was done: the three shared flags then carry no one else's outcome, however
\* the earlier operations ended and whether or not they were ever polled.
OutcomeIsOwn ==
    \A i \in alone :
        ~Pending(i) /\ ~Freed(ops[i]) =>
            own[i] = (IF ops[i].status_code = 0 THEN "ok" ELSE "err")

FlushedOk(i) ==
    ops[i].kind = "FILEIO_FLUSH" /\ ~Pending(i) /\ ops[i].status_code = 0

\* Such a flush, when it reports 0, has stored what the mount held when it was
\* begun, or something written after it: through every write, remove, restore
\* and autoPersist that falls between IDBFS's listing and its copy.
LoneFlushStores == \A i \in alone : FlushedOk(i) => base[i] <= saved

-----------------------------------------------------------------------------
(* What the comments say, and the code does not do when syncs overlap.     *)

\* Every flush that reports 0 has stored what the mount held when it was begun
\* ("Syncs the current state of the file system to persistent storage.").
FlushStores == \A i \in 1 .. Len(ops) : FlushedOk(i) => base[i] <= saved

\* No restore begun before fileio_deinit makes the file system ready after it
\* ("Mark not-ready immediately so callers do not assume cache restore state
\* remains valid after teardown starts.").
TeardownNotReady ==
    ndeinits > 0 /\ ready =>
        \E i \in torn + 1 .. Len(ops) : ops[i].kind \in {"FILEIO_RESTORE", "NONE"}
=============================================================================
