-------------------------- MODULE FileioSyncProofs --------------------------
(***************************************************************************)
(* Machine-checked proofs about FileioSync, for every number of restores,  *)
(* flushes, writes and teardowns, and every order of the answers.          *)
(***************************************************************************)
EXTENDS FileioSync, SequenceTheorems, TLAPS

-----------------------------------------------------------------------------
(* The inductive invariant.                                                *)

Counted == nwrites \in Nat /\ ndeinits \in Nat

\* An operation is pending as it was initialised, or done with 0 or -1.
OpsWellFormed ==
    \A i \in 1 .. Len(ops) :
        /\ Pending(i) => ops[i].kind # "NONE" /\ ops[i].status_code = 0
        /\ ~Pending(i) => ops[i].status_code \in {0, -1}

\* A sync in flight is the only one of its operation and has not been answered.
Unanswered ==
    /\ \A s \in inflight :
         own[s.op] = "none" /\ (ops[s.op].kind = "FILEIO_FLUSH" => ~s.populate)
    /\ \A s, t \in inflight : s.op = t.op => s = t

\* Without a mount there are no files in memory.
NothingUnmounted == ~mounted => mem = 0

\* last_sync_ok is FALSE only through a failure that every operation now pending
\* has lived through.
FailureSeen == ~last_sync_ok => \A i \in 1 .. Len(ops) : Pending(i) => failed[i]

IsFlush(i) == ops[i].kind = "FILEIO_FLUSH"

\* While an operation that has met no other is pending, it is the last one
\* begun, nothing else is in flight, and the shared flags are its own; memory
\* holds what it began with, or something newer, or nothing.
LonePending(i) ==
    /\ i = Len(ops)
    /\ \A s \in inflight : s.op = i
    /\ own[i] = "none" => syncing
    /\ own[i] # "none" => (last_sync_ok <=> own[i] = "ok")
    /\ IsFlush(i) => mem = 0 \/ base[i] <= mem

Lone ==
    \A i \in alone :
        /\ ~Freed(ops[i])
        /\ Pending(i) => LonePending(i)
        /\ IsFlush(i) /\ own[i] = "ok" => base[i] <= saved

\* All of it: preserved by every step.
IInv ==
    /\ FieldsOK /\ Counted
    /\ OpsWellFormed /\ Unanswered /\ NothingUnmounted /\ SyncingHasCallback
    /\ FailureSeen /\ FailureIsFresh /\ Lone /\ OutcomeIsOwn /\ LoneFlushStores

-----------------------------------------------------------------------------
(* Facts every step needs.                                                 *)

Op == wg_op_t({NULL})

Answer == {"none", "ok", "err"}

\* Lengths and elements of the four sequences that run in parallel.
LEMMA Parallel ==
    ASSUME FieldsOK
    PROVE  /\ Len(ops) \in Nat
           /\ Len(base) = Len(ops) /\ Len(own) = Len(ops) /\ Len(failed) = Len(ops)
           /\ \A i \in 1 .. Len(ops) :
                ops[i] \in Op /\ base[i] \in 0 .. nwrites /\ own[i] \in Answer
                  /\ failed[i] \in BOOLEAN
           /\ \A s \in inflight : s.op \in 1 .. Len(ops) /\ s.populate \in BOOLEAN
<1>1. ops \in Seq(Op) /\ own \in Seq(Answer)
  BY DEF FieldsOK, Op, Answer
<1>2. /\ Len(ops) \in Nat
      /\ Len(base) = Len(ops) /\ Len(own) = Len(ops) /\ Len(failed) = Len(ops)
  BY <1>1, LenProperties DEF FieldsOK
<1>3. ASSUME NEW i \in 1 .. Len(ops)
      PROVE  ops[i] \in Op /\ base[i] \in 0 .. nwrites /\ own[i] \in Answer
               /\ failed[i] \in BOOLEAN
  <2>1. base \in Seq(0 .. nwrites) /\ failed \in Seq(BOOLEAN)
    BY DEF FieldsOK
  <2>. QED BY <1>1, <1>2, <2>1, ElementOfSeq
<1>4. \A s \in inflight : s.op \in 1 .. Len(ops) /\ s.populate \in BOOLEAN
  BY DEF FieldsOK
<1>. QED BY <1>2, <1>3, <1>4

\* Before fileio_init nothing has been begun.
LEMMA IInvInit == Init => IInv
<1>. SUFFICES ASSUME Init PROVE IInv
  OBVIOUS
<1>1. /\ initialized \in BOOLEAN /\ mounted \in BOOLEAN /\ ready \in BOOLEAN
      /\ syncing \in BOOLEAN /\ last_sync_ok \in BOOLEAN /\ ~syncing
  BY Zenon DEF Init
<1>2. /\ ops = <<>> /\ inflight = {} /\ base = <<>> /\ own = <<>> /\ failed = <<>>
      /\ alone = {} /\ mem = 0 /\ disk = 0 /\ saved = 0 /\ torn = 0 /\ nwrites = 0
      /\ ndeinits = 0
  BY Zenon DEF Init
<1>3. FieldsOK /\ Counted
  BY <1>1, <1>2 DEF FieldsOK, Counted
<1>. QED BY <1>1, <1>2, <1>3
       DEF IInv, OpsWellFormed, Unanswered, NothingUnmounted, SyncingHasCallback,
           FailureSeen, FailureIsFresh, Lone, OutcomeIsOwn, LoneFlushStores

-----------------------------------------------------------------------------
(* Steps that begin, complete and free no operation and answer no sync.    *)

\* The invariant apart from the types.
Rest ==
    /\ OpsWellFormed /\ Unanswered /\ NothingUnmounted /\ SyncingHasCallback
    /\ FailureSeen /\ FailureIsFresh /\ Lone /\ OutcomeIsOwn /\ LoneFlushStores

\* What such a step may do: change the files, the mount and the flags of the
\* mount, or make operations known to have met a teardown.
Calm ==
    /\ UNCHANGED <<ops, base, own, failed, inflight, last_sync_ok>>
    /\ saved <= saved' /\ (~mounted' => mem' = 0)
    /\ syncing' => syncing
    /\ \/ alone' = alone \ Met
       \/ /\ alone' = alone /\ syncing' = syncing
          /\ mem' = mem \/ mem' = 0 \/ nwrites < mem'

\* A step that takes nothing away from what the operations rely on.
LEMMA CalmKeeps ==
    ASSUME IInv, FieldsOK', Calm
    PROVE  Rest'
<1>. DEFINE n == Len(ops)
<1>1. /\ n \in Nat /\ nwrites \in Nat /\ mem \in Nat /\ mem' \in Nat
      /\ saved \in Nat /\ saved' \in Nat
      /\ \A i \in 1 .. n : ops[i] \in Op /\ base[i] \in 0 .. nwrites
      /\ alone \subseteq 1 .. n
  BY Parallel DEF IInv, FieldsOK, Counted
<1>2. OpsWellFormed' /\ Unanswered' /\ FailureSeen' /\ FailureIsFresh'
  BY DEF Calm, IInv, OpsWellFormed, Unanswered, FailureSeen, FailureIsFresh, Pending,
         wg_op_is_done
<1>3. NothingUnmounted' /\ SyncingHasCallback'
  BY DEF Calm, IInv, NothingUnmounted, SyncingHasCallback
<1>4. alone' \subseteq alone
  BY DEF Calm
<1>5. OutcomeIsOwn' /\ LoneFlushStores'
  BY <1>1, <1>4 DEF Calm, IInv, OutcomeIsOwn, LoneFlushStores, FlushedOk, Pending,
                    wg_op_is_done, Freed
<1>6. ASSUME NEW i \in alone'
      PROVE  /\ ~Freed(ops'[i])
             /\ Pending(i)' => LonePending(i)'
             /\ IsFlush(i)' /\ own'[i] = "ok" => base'[i] <= saved'
  <2>1. /\ ~Freed(ops[i]) /\ i \in 1 .. n
        /\ Pending(i) => LonePending(i)
        /\ IsFlush(i) /\ own[i] = "ok" => base[i] <= saved
    BY <1>1, <1>4 DEF IInv, Lone
  <2>2. /\ ~Freed(ops'[i])
        /\ IsFlush(i)' /\ own'[i] = "ok" => base'[i] <= saved'
    BY <1>1, <2>1 DEF Calm, Freed, IsFlush
  <2>3. ASSUME Pending(i)' PROVE LonePending(i)'
    <3>1. Pending(i) /\ i \in alone
      BY <1>4, <2>3 DEF Calm, Pending, wg_op_is_done
    <3>2. /\ alone' = alone /\ syncing' = syncing
          /\ mem' = mem \/ mem' = 0 \/ nwrites < mem'
      BY <3>1 DEF Calm, Met
    <3>3. IsFlush(i)' => mem' = 0 \/ base'[i] <= mem'
      BY <1>1, <2>1, <3>1, <3>2 DEF Calm, LonePending, IsFlush
    <3>. QED BY <2>1, <3>1, <3>2, <3>3 DEF Calm, LonePending
  <2>. QED BY <2>2, <2>3
<1>. QED BY <1>2, <1>3, <1>5, <1>6 DEF Rest, Lone

\* Mounting, unmounting, writing, removing, and what autoPersist does.
LEMMA CalmSteps ==
    ASSUME IInv,
           \/ UNCHANGED vars \/ fileio_init \/ fileio_deinit \/ fileio_write
           \/ fileio_rmfile \/ AutoPersist
    PROVE  IInv'
<1>. USE DEF vars, module, data, hist
<1>a. /\ FieldsOK /\ nwrites \in Nat /\ ndeinits \in Nat /\ Len(ops) \in Nat
      /\ mem \in Nat /\ saved \in Nat /\ disk \in Nat /\ mem <= nwrites
      /\ saved <= nwrites /\ disk <= saved /\ (~mounted => mem = 0)
  BY Parallel DEF IInv, FieldsOK, Counted, NothingUnmounted
<1>1. CASE UNCHANGED vars
  <2>1. FieldsOK' /\ Counted'
    BY <1>a, <1>1 DEF FieldsOK, Counted
  <2>2. Calm
    BY <1>a, <1>1 DEF Calm
  <2>. QED BY <2>1, <2>2, CalmKeeps DEF IInv, Rest
<1>2. CASE fileio_init
  <2>1. FieldsOK' /\ Counted'
    BY <1>a, <1>2 DEF FieldsOK, Counted, fileio_init, fileio_init_common
  <2>2. Calm
    BY <1>a, <1>2 DEF Calm, fileio_init
  <2>. QED BY <2>1, <2>2, CalmKeeps DEF IInv, Rest
<1>3. CASE fileio_deinit
  <2>0. syncing' \in BOOLEAN /\ (syncing' => syncing) /\ initialized' \in BOOLEAN
          /\ ready' \in BOOLEAN /\ mounted' \in BOOLEAN
    BY <1>3, Zenon DEF fileio_deinit, fileio_deinit_common
  <2>z. /\ UNCHANGED <<last_sync_ok, ops, inflight, disk, saved, nwrites, base, own,
                       failed>>
        /\ mem' = 0 /\ ndeinits' = ndeinits + 1 /\ alone' \subseteq alone
    BY <1>3, Zenon DEF fileio_deinit
  <2>1. FieldsOK' /\ Counted'
    BY <1>a, <2>0, <2>z DEF FieldsOK, Counted
  <2>2. Calm
    BY <1>a, <1>3, <2>0 DEF Calm, fileio_deinit
  <2>. QED BY <2>1, <2>2, CalmKeeps DEF IInv, Rest
<1>4. CASE fileio_write
  <2>1. base \in Seq(0 .. nwrites')
    <3>1. 0 .. nwrites \subseteq 0 .. nwrites'
      BY <1>a, <1>4 DEF fileio_write
    <3>. QED BY <1>a, <3>1, SeqMonotonic DEF FieldsOK
  <2>2. FieldsOK' /\ Counted'
    BY <1>a, <1>4, <2>1 DEF FieldsOK, Counted, fileio_write
  <2>3. Calm
    BY <1>a, <1>4 DEF Calm, fileio_write
  <2>. QED BY <2>2, <2>3, CalmKeeps DEF IInv, Rest
<1>5. CASE fileio_rmfile
  <2>1. FieldsOK' /\ Counted'
    BY <1>a, <1>5 DEF FieldsOK, Counted, fileio_rmfile
  <2>2. Calm
    BY <1>a, <1>5 DEF Calm, fileio_rmfile
  <2>. QED BY <2>1, <2>2, CalmKeeps DEF IInv, Rest
<1>6. CASE AutoPersist
  <2>1. FieldsOK' /\ Counted'
    BY <1>a, <1>6 DEF FieldsOK, Counted, AutoPersist, Latest
  <2>2. Calm
    BY <1>a, <1>6 DEF Calm, AutoPersist, Latest
  <2>. QED BY <2>1, <2>2, CalmKeeps DEF IInv, Rest
<1>. QED BY <1>1, <1>2, <1>3, <1>4, <1>5, <1>6

-----------------------------------------------------------------------------
(* Beginning a restore or a flush.                                         *)

SyncKinds == {"FILEIO_RESTORE", "FILEIO_FLUSH"}

\* The four sequences grow by one, and are otherwise what they were.
LEMMA Grown ==
    ASSUME FieldsOK, NEW kind \in SyncKinds, NEW answer \in Answer, NewOp(kind),
           own' = Append(own, answer)
    PROVE  LET n == Len(ops) + 1 IN
           /\ ops' \in Seq(Op) /\ base' \in Seq(0 .. nwrites)
           /\ own' \in Seq(Answer) /\ failed' \in Seq(BOOLEAN)
           /\ Len(ops') = n /\ Len(base') = n /\ Len(own') = n /\ Len(failed') = n
           /\ ops'[n] = wg_op_init(kind, NULL) /\ base'[n] = mem
           /\ own'[n] = answer /\ failed'[n] = FALSE
           /\ \A i \in 1 .. Len(ops) :
                ops'[i] = ops[i] /\ base'[i] = base[i] /\ own'[i] = own[i]
                  /\ failed'[i] = failed[i]
<1>. DEFINE op == wg_op_init(kind, NULL)
<1>1. /\ ops \in Seq(Op) /\ base \in Seq(0 .. nwrites) /\ own \in Seq(Answer)
      /\ failed \in Seq(BOOLEAN) /\ mem \in 0 .. nwrites
      /\ Len(base) = Len(ops) /\ Len(own) = Len(ops) /\ Len(failed) = Len(ops)
  BY DEF FieldsOK, Op, Answer
<1>2. op \in Op
  BY DEF Op, wg_op_init, wg_op_t, Kinds, NULL, SyncKinds
<1>. HIDE DEF op
<1>3. ops' = Append(ops, op) /\ base' = Append(base, mem) /\ failed' = Append(failed, FALSE)
  BY DEF NewOp, op
<1>4. /\ ops' \in Seq(Op) /\ Len(ops') = Len(ops) + 1 /\ ops'[Len(ops) + 1] = op
      /\ \A i \in 1 .. Len(ops) : ops'[i] = ops[i]
  BY <1>1, <1>2, <1>3, AppendProperties
<1>5. /\ base' \in Seq(0 .. nwrites) /\ Len(base') = Len(ops) + 1
      /\ base'[Len(ops) + 1] = mem
      /\ \A i \in 1 .. Len(ops) : base'[i] = base[i]
  BY <1>1, <1>3, AppendProperties
<1>6. /\ own' \in Seq(Answer) /\ Len(own') = Len(ops) + 1 /\ own'[Len(ops) + 1] = answer
      /\ \A i \in 1 .. Len(ops) : own'[i] = own[i]
  BY <1>1, AppendProperties
<1>7. /\ failed' \in Seq(BOOLEAN) /\ Len(failed') = Len(ops) + 1
      /\ failed'[Len(ops) + 1] = FALSE
      /\ \A i \in 1 .. Len(ops) : failed'[i] = failed[i]
  <2>1. FALSE \in BOOLEAN
    OBVIOUS
  <2>2. /\ failed' \in Seq(BOOLEAN) /\ Len(failed') = Len(failed) + 1
        /\ failed'[Len(failed) + 1] = FALSE
        /\ \A i \in 1 .. Len(failed) : failed'[i] = failed[i]
    <3>1. failed \in Seq(BOOLEAN) /\ failed' = Append(failed, FALSE)
      BY <1>1, <1>3
    <3>2. ASSUME NEW S, NEW q \in Seq(S), NEW e \in S
          PROVE  /\ Append(q, e) \in Seq(S) /\ Len(Append(q, e)) = Len(q) + 1
                 /\ Append(q, e)[Len(q) + 1] = e
                 /\ \A i \in 1 .. Len(q) : Append(q, e)[i] = q[i]
      BY AppendProperties
    <3>3. PICK B, e : B = BOOLEAN /\ e = FALSE
      OBVIOUS
    <3>4. failed \in Seq(B) /\ e \in B /\ failed' = Append(failed, e)
      BY ONLY <2>1, <3>1, <3>3, Zenon
    <3>5. /\ failed' \in Seq(B) /\ Len(failed') = Len(failed) + 1
          /\ failed'[Len(failed) + 1] = e
          /\ \A i \in 1 .. Len(failed) : failed'[i] = failed[i]
      BY ONLY <3>2, <3>4
    <3>. QED BY ONLY <3>3, <3>5, Zenon
  <2>3. Len(failed) = Len(ops)
    BY <1>1
  <2>. QED BY <2>2, <2>3, Zenon
<1>. QED BY <1>4, <1>5, <1>6, <1>7 DEF op

\* A new operation meets every pending one; it is alone only if nothing is in
\* flight, and then the sync it starts is its own.
LEMMA BeginStep ==
    ASSUME IInv, NEW kind \in SyncKinds, fileio_sync_begin_internal(kind)
    PROVE  IInv'
<1>. DEFINE populate == kind = "FILEIO_RESTORE"
            n == Len(ops) + 1
            answer == IF ~syncing /\ ~mounted THEN "ok" ELSE "none"
            new == [op |-> n, populate |-> populate]
<1>1. NewOp(kind) /\ last_sync_ok' = TRUE /\ sync_to_idbfs(populate)
        /\ UNCHANGED <<initialized, mounted, data, torn, ndeinits>>
  BY DEF fileio_sync_begin_internal
<1>2. own' = Append(own, answer) /\ answer \in Answer
  BY <1>1 DEF sync_to_idbfs, Answer
<1>3. FieldsOK /\ Len(ops) \in Nat /\ alone \subseteq 1 .. Len(ops)
  BY Parallel DEF IInv, FieldsOK
<1>. HIDE DEF answer
<1>4. /\ ops' \in Seq(Op) /\ base' \in Seq(0 .. nwrites)
      /\ own' \in Seq(Answer) /\ failed' \in Seq(BOOLEAN)
      /\ Len(ops') = n /\ Len(base') = n /\ Len(own') = n /\ Len(failed') = n
      /\ ops'[n] = wg_op_init(kind, NULL) /\ base'[n] = mem
      /\ own'[n] = answer /\ failed'[n] = FALSE
      /\ \A i \in 1 .. Len(ops) :
           ops'[i] = ops[i] /\ base'[i] = base[i] /\ own'[i] = own[i]
             /\ failed'[i] = failed[i]
  BY <1>1, <1>2, <1>3, Grown
<1>5. /\ ~wg_op_is_done(ops'[n]) /\ ~Freed(ops'[n]) /\ ops'[n].status_code = 0
      /\ ops'[n].kind = kind /\ kind # "NONE"
  BY <1>4 DEF wg_op_is_done, wg_op_init, Freed, SyncKinds
<1>6. \A i \in 1 .. Len(ops) : (Pending(i)' <=> Pending(i)) /\ (IsFlush(i)' <=> IsFlush(i))
  BY <1>4 DEF Pending, wg_op_is_done, IsFlush
<1>7. /\ \/ inflight' = inflight
         \/ inflight' = inflight \cup {new} /\ answer = "none"
      /\ syncing' \in BOOLEAN /\ ready' \in BOOLEAN
  <2>1. syncing \in BOOLEAN /\ ready \in BOOLEAN /\ populate \in BOOLEAN
    BY <1>3 DEF FieldsOK
  <2>2. syncing' \in BOOLEAN /\ ready' \in BOOLEAN
    BY <1>1, <2>1, Zenon DEF sync_to_idbfs
  <2>. QED BY <1>1, <2>2 DEF sync_to_idbfs, answer
<1>8. \A i \in alone' :
        (i \in alone /\ ~Pending(i)) \/ (i = n /\ inflight = {} /\ ~syncing)
  BY <1>1 DEF NewOp, Met, IInv, SyncingHasCallback
<1>9. FieldsOK' /\ Counted'
  <2>1. new \in [op : 1 .. n, populate : BOOLEAN]
    BY <1>3
  <2>2. inflight' \subseteq [op : 1 .. n, populate : BOOLEAN]
    <3>1. [op : 1 .. Len(ops), populate : BOOLEAN]
            \subseteq [op : 1 .. n, populate : BOOLEAN]
      BY <1>3
    <3>2. inflight \subseteq [op : 1 .. Len(ops), populate : BOOLEAN]
      BY <1>3 DEF FieldsOK
    <3>. HIDE DEF new, n
    <3>. QED BY <1>7, <2>1, <3>1, <3>2
  <2>3. alone' \subseteq 1 .. n
    <3>1. n \in 1 .. n /\ 1 .. Len(ops) \subseteq 1 .. n
      BY <1>3
    <3>. HIDE DEF n
    <3>. QED BY <1>3, <1>8, <3>1, Zenon
  <2>. QED BY <1>1, <1>3, <1>4, <1>7, <2>2, <2>3
         DEF FieldsOK, Counted, IInv, data, Op, Answer
<1>10. OpsWellFormed' /\ FailureIsFresh' /\ FailureSeen'
  <2>1. last_sync_ok'
    BY <1>1
  <2>2. ASSUME NEW i \in 1 .. Len(ops')
        PROVE  /\ Pending(i)' => ops'[i].kind # "NONE" /\ ops'[i].status_code = 0
               /\ ~Pending(i)' => ops'[i].status_code \in {0, -1}
               /\ ops'[i].status_code = -1 => failed'[i]
    <3>1. CASE i = n
      BY <1>5, <3>1 DEF Pending
    <3>2. CASE i # n
      <4>1. i \in 1 .. Len(ops)
        BY <1>3, <1>4, <3>2
      <4>. QED BY <1>4, <1>6, <4>1 DEF IInv, OpsWellFormed, FailureIsFresh
    <3>. QED BY <3>1, <3>2
  <2>. QED BY <2>1, <2>2 DEF OpsWellFormed, FailureIsFresh, FailureSeen
<1>11. Unanswered'
  <2>1. ASSUME NEW s \in inflight
        PROVE  /\ own'[s.op] = "none" /\ (ops'[s.op].kind = "FILEIO_FLUSH" => ~s.populate)
               /\ s.op # n
    <3>1. s.op \in 1 .. Len(ops)
      BY <1>3, Parallel
    <3>. QED BY <1>3, <1>4, <3>1 DEF IInv, Unanswered
  <2>2. new.op = n /\ (new.populate <=> populate)
    OBVIOUS
  <2>3. answer = "none" =>
          own'[n] = "none" /\ (ops'[n].kind = "FILEIO_FLUSH" => ~new.populate)
    BY <1>4, <1>5
  <2>. HIDE DEF new, n, populate
  <2>4. \A s \in inflight' : s \in inflight \/ (s = new /\ answer = "none")
    BY <1>7
  <2>5. \A s \in inflight' :
          own'[s.op] = "none" /\ (ops'[s.op].kind = "FILEIO_FLUSH" => ~s.populate)
    BY <2>1, <2>2, <2>3, <2>4
  <2>6. \A s, t \in inflight' : s.op = t.op => s = t
    BY <2>1, <2>2, <2>4 DEF IInv, Unanswered
  <2>. QED BY <2>5, <2>6 DEF Unanswered
<1>12. NothingUnmounted' /\ SyncingHasCallback'
  <2>1. NothingUnmounted'
    BY <1>1 DEF IInv, NothingUnmounted, data
  <2>2. syncing' => inflight' # {}
    BY <1>1 DEF sync_to_idbfs, IInv, SyncingHasCallback
  <2>. QED BY <2>1, <2>2 DEF SyncingHasCallback
<1>13. ASSUME NEW i \in alone, ~Pending(i)
       PROVE  /\ ~Freed(ops'[i]) /\ ~Pending(i)'
              /\ IsFlush(i)' /\ own'[i] = "ok" => base'[i] <= saved'
              /\ own'[i] = (IF ops'[i].status_code = 0 THEN "ok" ELSE "err")
              /\ FlushedOk(i)' => base'[i] <= saved'
  <2>1. i \in 1 .. Len(ops)
    BY <1>3
  <2>2. ops'[i] = ops[i] /\ base'[i] = base[i] /\ own'[i] = own[i] /\ saved' = saved
    BY <1>1, <1>4, <2>1 DEF data
  <2>3. ~Freed(ops[i]) /\ (IsFlush(i) /\ own[i] = "ok" => base[i] <= saved)
    BY DEF IInv, Lone
  <2>. QED BY <1>13, <2>2, <2>3
         DEF IInv, OutcomeIsOwn, LoneFlushStores, FlushedOk, IsFlush, Pending
<1>14. ASSUME inflight = {}, ~syncing
       PROVE  /\ ~Freed(ops'[n]) /\ ~wg_op_is_done(ops'[n])
              /\ \A s \in inflight' : s.op = n
              /\ own'[n] = "none" => syncing'
              /\ own'[n] # "none" => own'[n] = "ok" /\ base'[n] = 0
              /\ base'[n] = mem'
  <2>1. ~mounted => mem = 0
    BY DEF IInv, NothingUnmounted
  <2>2. mem' = mem
    BY <1>1 DEF data
  <2>. QED BY <1>1, <1>4, <1>5, <1>7, <1>14, <2>1, <2>2 DEF sync_to_idbfs, answer
<1>15. Lone' /\ OutcomeIsOwn' /\ LoneFlushStores'
  <2>1. ASSUME NEW i \in alone', i = n, inflight = {}, ~syncing
        PROVE  /\ ~Freed(ops'[i]) /\ Pending(i)' /\ LonePending(i)'
               /\ IsFlush(i)' /\ own'[i] = "ok" => base'[i] <= saved'
    <3>1. saved' \in Nat /\ mem' \in Nat /\ last_sync_ok'
      BY <1>1, <1>9 DEF FieldsOK, Counted
    <3>2. own'[i] = "ok" => base'[i] <= saved'
      BY <1>14, <2>1, <3>1
    <3>3. base'[i] <= mem'
      BY <1>14, <2>1, <3>1
    <3>4. ~Freed(ops'[i]) /\ Pending(i)'
      BY <1>14, <2>1 DEF Pending
    <3>5. LonePending(i)'
      BY <1>4, <1>14, <2>1, <3>1, <3>3 DEF LonePending
    <3>. QED BY <3>2, <3>4, <3>5
  <2>. QED BY <1>8, <1>13, <2>1 DEF Lone, OutcomeIsOwn, LoneFlushStores, FlushedOk
<1>. QED BY <1>9, <1>10, <1>11, <1>12, <1>15 DEF IInv

-----------------------------------------------------------------------------
(* Polling and freeing an operation.                                       *)

\* Polled when no sync is in progress, the operation takes the shared outcome:
\* its own, if it has met no other.
LEMMA PollStep ==
    ASSUME IInv, NEW k \in 1 .. Len(ops), fileio_sync_poll(k)
    PROVE  IInv'
<1>. DEFINE op == wg_op_complete(ops[k], Outcome)
<1>1. /\ ops' = [ops EXCEPT ![k] = op] /\ Pending(k) /\ ~syncing
      /\ UNCHANGED <<initialized, module, mounted, inflight, data, hist, torn, ndeinits>>
  BY DEF fileio_sync_poll, SetOp
<1>2. /\ FieldsOK /\ Len(ops) \in Nat /\ alone \subseteq 1 .. Len(ops) /\ ops \in Seq(Op)
      /\ \A i \in 1 .. Len(ops) : ops[i] \in Op /\ own[i] \in Answer
  BY Parallel DEF IInv, FieldsOK, Op
<1>3. /\ op \in Op /\ op.state = "DONE" /\ op.kind = ops[k].kind
      /\ op.status_code = (IF last_sync_ok THEN 0 ELSE -1)
  <2>1. ops[k] \in Op /\ Outcome \in Int
    BY <1>2 DEF Outcome
  <2>2. op = [ops[k] EXCEPT !.state = "DONE", !.status_code = Outcome]
    BY DEF wg_op_complete
  <2>. HIDE DEF op
  <2>. QED BY <2>1, <2>2 DEF Op, wg_op_t, Outcome
<1>4. ops[k].kind # "NONE"
  BY <1>1 DEF IInv, OpsWellFormed
<1>. HIDE DEF op
<1>5. ops' \in Seq(Op) /\ Len(ops') = Len(ops)
  BY <1>1, <1>2, <1>3, ExceptSeq
<1>6. ops'[k] = op /\ \A i \in 1 .. Len(ops) : i # k => ops'[i] = ops[i]
  BY <1>1, <1>2
<1>7. FieldsOK' /\ Counted'
  BY <1>1, <1>2, <1>5 DEF FieldsOK, Counted, IInv, module, data, hist, Op
<1>8. OpsWellFormed' /\ FailureIsFresh' /\ FailureSeen'
  <2>1. /\ last_sync_ok' = last_sync_ok /\ failed' = failed
        /\ ~last_sync_ok => failed[k]
    BY <1>1 DEF module, hist, IInv, FailureSeen
  <2>2. ASSUME NEW i \in 1 .. Len(ops')
        PROVE  /\ Pending(i)' => ops'[i].kind # "NONE" /\ ops'[i].status_code = 0
               /\ ~Pending(i)' => ops'[i].status_code \in {0, -1}
               /\ ops'[i].status_code = -1 => failed'[i]
               /\ Pending(i)' => Pending(i)
    <3>1. CASE i = k
      BY <1>3, <1>6, <2>1, <3>1 DEF Pending, wg_op_is_done
    <3>2. CASE i # k
      <4>1. ops'[i] = ops[i] /\ i \in 1 .. Len(ops)
        BY <1>5, <1>6, <3>2
      <4>. QED BY <2>1, <4>1 DEF IInv, OpsWellFormed, FailureIsFresh, Pending
    <3>. QED BY <3>1, <3>2
  <2>. QED BY <1>5, <2>1, <2>2
         DEF OpsWellFormed, FailureIsFresh, FailureSeen, IInv
<1>9. Unanswered' /\ NothingUnmounted' /\ SyncingHasCallback'
  <2>1. \A i \in 1 .. Len(ops) : ops'[i].kind = ops[i].kind
    BY <1>3, <1>6
  <2>2. \A s \in inflight : s.op \in 1 .. Len(ops)
    BY <1>2, Parallel
  <2>3. Unanswered'
    BY <1>1, <2>1, <2>2 DEF IInv, Unanswered, hist
  <2>. QED BY <1>1, <2>3
         DEF IInv, NothingUnmounted, SyncingHasCallback, module, data
<1>10. ASSUME NEW i \in alone'
       PROVE  /\ ~Freed(ops'[i])
              /\ Pending(i)' => LonePending(i)'
              /\ IsFlush(i)' /\ own'[i] = "ok" => base'[i] <= saved'
              /\ ~Pending(i)' => own'[i] = (IF ops'[i].status_code = 0 THEN "ok" ELSE "err")
              /\ FlushedOk(i)' => base'[i] <= saved'
  <2>1. /\ i \in alone /\ i \in 1 .. Len(ops) /\ own' = own /\ base' = base
        /\ saved' = saved
    BY <1>1, <1>2 DEF hist, data
  <2>2. /\ ~Freed(ops[i]) /\ (Pending(i) => LonePending(i))
        /\ IsFlush(i) /\ own[i] = "ok" => base[i] <= saved
    BY <2>1 DEF IInv, Lone
  <2>3. CASE i = k
    <3>1. own[i] # "none" /\ (last_sync_ok <=> own[i] = "ok") /\ own[i] \in Answer
      BY <1>1, <1>2, <2>1, <2>2, <2>3 DEF LonePending
    <3>2. own'[i] = (IF ops'[i].status_code = 0 THEN "ok" ELSE "err")
      BY <1>3, <1>6, <2>1, <2>3, <3>1 DEF Answer
    <3>3. ops'[i].state = "DONE" /\ ops'[i].kind = ops[i].kind
      BY <1>3, <1>6, <2>3
    <3>. QED BY <1>4, <2>1, <2>2, <2>3, <3>2, <3>3
           DEF Freed, IsFlush, FlushedOk, Pending, wg_op_is_done
  <2>4. CASE i # k
    <3>1. ops'[i] = ops[i]
      BY <1>6, <2>1, <2>4
    <3>2. Pending(i)' => LonePending(i)'
      BY <1>1, <1>5, <2>1, <2>2, <3>1
         DEF Pending, LonePending, IsFlush, module, data
    <3>. QED BY <2>1, <2>2, <3>1, <3>2
           DEF IInv, OutcomeIsOwn, LoneFlushStores, Freed, IsFlush, FlushedOk, Pending
  <2>. QED BY <2>3, <2>4
<1>11. Lone' /\ OutcomeIsOwn' /\ LoneFlushStores'
  BY <1>10 DEF Lone, OutcomeIsOwn, LoneFlushStores
<1>. QED BY <1>7, <1>8, <1>9, <1>11 DEF IInv

\* What wg_op_deinit leaves of an operation.
LEMMA Deinitialised ==
    ASSUME NEW o \in Op
    PROVE  LET op == wg_op_deinit(o) IN
           op \in Op /\ op.state = "DONE" /\ op.kind = "NONE" /\ op.status_code = 0
<1>. DEFINE a == [o EXCEPT !.kind = "NONE"]
            b == [a EXCEPT !.state = "DONE"]
            c == [b EXCEPT !.status_code = 0]
            d == [c EXCEPT !.impl = NULL]
<1>1. a \in Op /\ a.kind = "NONE"
  BY DEF Op, wg_op_t, Kinds
<1>. HIDE DEF a
<1>2. b \in Op /\ b.kind = "NONE" /\ b.state = "DONE"
  BY <1>1 DEF Op, wg_op_t
<1>. HIDE DEF b
<1>3. c \in Op /\ c.kind = "NONE" /\ c.state = "DONE" /\ c.status_code = 0
  BY <1>2 DEF Op, wg_op_t
<1>. HIDE DEF c
<1>4. d \in Op /\ d.kind = "NONE" /\ d.state = "DONE" /\ d.status_code = 0
  BY <1>3 DEF Op, wg_op_t, NULL
<1>5. wg_op_deinit(o) = d
  BY DEF wg_op_deinit, a, b, c
<1>. QED BY <1>4, <1>5

\* Freeing an operation, pending or done, leaves the others as they were.
LEMMA FreeStep ==
    ASSUME IInv, NEW k \in 1 .. Len(ops), fileio_sync_op_free(k)
    PROVE  IInv'
<1>. DEFINE op == wg_op_deinit(ops[k])
<1>1. /\ ops' = [ops EXCEPT ![k] = op] /\ alone' = alone \ {k}
      /\ own' = [own EXCEPT ![k] = "none"] /\ failed' = [failed EXCEPT ![k] = FALSE]
      /\ UNCHANGED <<initialized, module, mounted, inflight, data, base, torn, ndeinits>>
  BY DEF fileio_sync_op_free
<1>2. /\ FieldsOK /\ Len(ops) \in Nat /\ alone \subseteq 1 .. Len(ops) /\ ops \in Seq(Op)
      /\ own \in Seq(Answer) /\ failed \in Seq(BOOLEAN)
      /\ Len(own) = Len(ops) /\ Len(failed) = Len(ops)
      /\ \A i \in 1 .. Len(ops) : ops[i] \in Op /\ own[i] \in Answer
  BY Parallel DEF IInv, FieldsOK, Op, Answer
<1>3. /\ op \in Op /\ op.state = "DONE" /\ op.kind = "NONE" /\ op.status_code = 0
  BY <1>2, Deinitialised
<1>. HIDE DEF op
<1>4. /\ ops' \in Seq(Op) /\ Len(ops') = Len(ops)
      /\ own' \in Seq(Answer) /\ Len(own') = Len(ops)
      /\ failed' \in Seq(BOOLEAN) /\ Len(failed') = Len(ops)
  <2>1. ops' \in Seq(Op) /\ Len(ops') = Len(ops)
    BY <1>1, <1>2, <1>3, ExceptSeq
  <2>2. own' \in Seq(Answer) /\ Len(own') = Len(ops)
    BY <1>1, <1>2, ExceptSeq DEF Answer
  <2>3. failed' \in Seq(BOOLEAN) /\ Len(failed') = Len(failed)
    <3>1. FALSE \in BOOLEAN /\ k \in 1 .. Len(failed)
      BY <1>2
    <3>. QED BY <1>1, <1>2, <3>1, ExceptSeq, Zenon
  <2>. QED BY <1>2, <2>1, <2>2, <2>3
<1>5. /\ ops'[k] = op /\ own'[k] = "none"
      /\ \A i \in 1 .. Len(ops) : i # k =>
           ops'[i] = ops[i] /\ own'[i] = own[i] /\ failed'[i] = failed[i]
  <2>1. ops'[k] = op /\ \A i \in 1 .. Len(ops) : i # k => ops'[i] = ops[i]
    BY <1>1, <1>2
  <2>2. own'[k] = "none" /\ \A i \in 1 .. Len(ops) : i # k => own'[i] = own[i]
    BY <1>1, <1>2
  <2>3. \A i \in 1 .. Len(ops) : i # k => failed'[i] = failed[i]
    BY <1>1, <1>2
  <2>. QED BY <2>1, <2>2, <2>3
<1>6. FieldsOK' /\ Counted'
  <2>1. alone' \subseteq 1 .. Len(ops')
    BY <1>1, <1>2, <1>4
  <2>2. /\ UNCHANGED <<initialized, mounted, ready, syncing, last_sync_ok, inflight, mem,
                       disk, saved, nwrites, base, ndeinits>>
    BY <1>1 DEF module, data
  <2>. QED BY <1>2, <1>4, <2>1, <2>2 DEF FieldsOK, Counted, IInv, Op, Answer
<1>7. OpsWellFormed' /\ FailureIsFresh' /\ FailureSeen'
  <2>1. last_sync_ok' = last_sync_ok
    BY <1>1 DEF module
  <2>2. ASSUME NEW i \in 1 .. Len(ops')
        PROVE  /\ Pending(i)' => ops'[i].kind # "NONE" /\ ops'[i].status_code = 0
               /\ ~Pending(i)' => ops'[i].status_code \in {0, -1}
               /\ ops'[i].status_code = -1 => failed'[i]
               /\ Pending(i)' => Pending(i) /\ failed'[i] = failed[i]
    <3>1. CASE i = k
      BY <1>3, <1>5, <3>1 DEF Pending, wg_op_is_done
    <3>2. CASE i # k
      <4>1. ops'[i] = ops[i] /\ failed'[i] = failed[i] /\ i \in 1 .. Len(ops)
        BY <1>4, <1>5, <3>2
      <4>. QED BY <4>1 DEF IInv, OpsWellFormed, FailureIsFresh, Pending
    <3>. QED BY <3>1, <3>2
  <2>3. OpsWellFormed' /\ FailureIsFresh'
    BY <2>2 DEF OpsWellFormed, FailureIsFresh
  <2>4. FailureSeen'
    BY <1>4, <2>1, <2>2 DEF FailureSeen, IInv
  <2>. QED BY <2>3, <2>4
<1>8. Unanswered' /\ NothingUnmounted' /\ SyncingHasCallback'
  <2>1. \A i \in 1 .. Len(ops) :
          /\ ops'[i].kind \in {ops[i].kind, "NONE"}
          /\ own'[i] \in {own[i], "none"}
    BY <1>3, <1>5
  <2>2. \A s \in inflight : s.op \in 1 .. Len(ops)
    BY <1>2, Parallel
  <2>3. Unanswered'
    BY <1>1, <2>1, <2>2 DEF IInv, Unanswered
  <2>. QED BY <1>1, <2>3
         DEF IInv, NothingUnmounted, SyncingHasCallback, module, data
<1>9. ASSUME NEW i \in alone'
      PROVE  /\ ~Freed(ops'[i])
             /\ Pending(i)' => LonePending(i)'
             /\ IsFlush(i)' /\ own'[i] = "ok" => base'[i] <= saved'
             /\ ~Pending(i)' => own'[i] = (IF ops'[i].status_code = 0 THEN "ok" ELSE "err")
             /\ FlushedOk(i)' => base'[i] <= saved'
  <2>1. /\ i \in alone /\ i \in 1 .. Len(ops) /\ i # k /\ base' = base
        /\ saved' = saved
    BY <1>1, <1>2 DEF data
  <2>2. ops'[i] = ops[i] /\ own'[i] = own[i]
    BY <1>5, <2>1
  <2>3. /\ ~Freed(ops[i]) /\ (Pending(i) => LonePending(i))
        /\ IsFlush(i) /\ own[i] = "ok" => base[i] <= saved
    BY <2>1 DEF IInv, Lone
  <2>4. Pending(i)' => LonePending(i)'
    BY <1>1, <1>4, <2>1, <2>2, <2>3 DEF Pending, LonePending, IsFlush, module, data
  <2>. QED BY <2>1, <2>2, <2>3, <2>4
         DEF IInv, OutcomeIsOwn, LoneFlushStores, Freed, IsFlush, FlushedOk, Pending
<1>10. Lone' /\ OutcomeIsOwn' /\ LoneFlushStores'
  BY <1>9 DEF Lone, OutcomeIsOwn, LoneFlushStores
<1>. QED BY <1>6, <1>7, <1>8, <1>10 DEF IInv

-----------------------------------------------------------------------------
(* The answers of FS.syncfs.                                               *)

\* What an answer to s does, successful or not.
Settles(s, answer) ==
    /\ UNCHANGED <<ops, base, alone, mounted>>
    /\ inflight' = inflight \ {s} /\ ~syncing'
    /\ last_sync_ok' <=> answer = "ok"
    /\ Answered(s, answer)
    /\ saved <= saved' /\ (~s.populate => mem' = mem) /\ (~mounted => mem' = mem)
    /\ \A i \in 1 .. Len(ops) :
         /\ failed[i] => failed'[i]
         /\ answer = "err" /\ Pending(i) => failed'[i]
    /\ answer = "ok" /\ ~s.populate =>
         base[s.op] <= saved' \/ (mem # 0 /\ mem <= saved')

\* An answer marks the one operation that waits for it, and no other.
LEMMA SettlesKeeps ==
    ASSUME IInv, FieldsOK', NEW s \in inflight, NEW answer \in {"ok", "err"},
           Settles(s, answer)
    PROVE  Rest'
<1>1. /\ Len(ops) \in Nat /\ alone \subseteq 1 .. Len(ops)
      /\ saved \in Nat /\ saved' \in Nat /\ mem \in Nat /\ mem' \in Nat
      /\ \A i \in 1 .. Len(ops) :
           ops[i] \in Op /\ base[i] \in Nat /\ own[i] \in Answer
      /\ s.op \in 1 .. Len(ops) /\ \A t \in inflight : t.op \in 1 .. Len(ops)
  <2>1. FieldsOK /\ Counted
    BY DEF IInv
  <2>2. /\ Len(ops) \in Nat
        /\ \A i \in 1 .. Len(ops) : ops[i] \in Op /\ base[i] \in Nat /\ own[i] \in Answer
    BY <2>1, Parallel
  <2>3. saved \in Nat /\ saved' \in Nat /\ mem \in Nat /\ mem' \in Nat
    BY <2>1 DEF FieldsOK
  <2>4. alone \subseteq 1 .. Len(ops) /\ \A t \in inflight : t.op \in 1 .. Len(ops)
    BY <2>1 DEF FieldsOK
  <2>. QED BY <2>2, <2>3, <2>4
<1>2. own \in Seq(Answer) /\ Len(own) = Len(ops)
  BY DEF IInv, FieldsOK, Answer
<1>3. /\ own[s.op] = "none"
      /\ \A t \in inflight' : t \in inflight /\ t.op # s.op
  BY DEF IInv, Unanswered, Settles
<1>4. /\ \A i \in 1 .. Len(ops) : i # s.op => own'[i] = own[i]
      /\ Freed(ops[s.op]) => own' = own
      /\ ~Freed(ops[s.op]) => own'[s.op] = answer
  BY <1>1, <1>2 DEF Settles, Answered
<1>5. OpsWellFormed' /\ NothingUnmounted' /\ SyncingHasCallback'
  BY DEF Settles, IInv, OpsWellFormed, NothingUnmounted, SyncingHasCallback, Pending
<1>6. Unanswered'
  <2>1. \A t \in inflight' :
          own'[t.op] = "none" /\ (ops'[t.op].kind = "FILEIO_FLUSH" => ~t.populate)
    BY <1>1, <1>3, <1>4 DEF IInv, Unanswered, Settles
  <2>2. \A t, u \in inflight' : t.op = u.op => t = u
    BY <1>3 DEF IInv, Unanswered
  <2>. QED BY <2>1, <2>2 DEF Unanswered
<1>7. FailureSeen' /\ FailureIsFresh'
  <2>1. ops' = ops /\ \A i \in 1 .. Len(ops) : Pending(i)' <=> Pending(i)
    BY DEF Settles, Pending
  <2>2. FailureIsFresh'
    BY <2>1 DEF Settles, IInv, FailureIsFresh
  <2>3. ASSUME ~last_sync_ok', NEW i \in 1 .. Len(ops), Pending(i)
        PROVE  failed'[i]
    BY <2>3 DEF Settles
  <2>. QED BY <2>1, <2>2, <2>3 DEF FailureSeen
<1>8. ASSUME NEW i \in alone'
      PROVE  /\ ~Freed(ops'[i])
             /\ Pending(i)' => LonePending(i)'
             /\ IsFlush(i)' /\ own'[i] = "ok" => base'[i] <= saved'
             /\ ~Pending(i)' => own'[i] = (IF ops'[i].status_code = 0 THEN "ok" ELSE "err")
             /\ FlushedOk(i)' => base'[i] <= saved'
  <2>1. /\ i \in alone /\ i \in 1 .. Len(ops) /\ ops' = ops /\ base' = base
        /\ (Pending(i)' <=> Pending(i)) /\ (IsFlush(i)' <=> IsFlush(i))
    BY <1>1 DEF Settles, Pending, IsFlush
  <2>2. /\ ~Freed(ops[i]) /\ (Pending(i) => LonePending(i))
        /\ IsFlush(i) /\ own[i] = "ok" => base[i] <= saved
        /\ ~Pending(i) => own[i] = (IF ops[i].status_code = 0 THEN "ok" ELSE "err")
        /\ FlushedOk(i) => base[i] <= saved
    BY <2>1 DEF IInv, Lone, OutcomeIsOwn, LoneFlushStores
  <2>3. CASE i = s.op
    <3>1. Pending(i) /\ own'[i] = answer
      BY <1>3, <1>4, <2>2, <2>3
    <3>2. IsFlush(i) => mem' = mem /\ ~s.populate
      BY <2>3 DEF IInv, Unanswered, IsFlush, Settles
    <3>3. LonePending(i)'
      BY <1>3, <2>1, <2>2, <3>1, <3>2 DEF LonePending, Settles
    <3>4. IsFlush(i) /\ own'[i] = "ok" => base[i] <= saved'
      BY <1>1, <2>1, <2>2, <2>3, <3>1, <3>2 DEF LonePending, Settles
    <3>. QED BY <2>1, <2>2, <3>1, <3>3, <3>4 DEF FlushedOk, Freed
  <2>4. CASE i # s.op
    <3>1. own'[i] = own[i] /\ saved <= saved'
      BY <1>4, <2>1, <2>4 DEF Settles
    <3>2. ~Pending(i)
      BY <2>2, <2>4 DEF LonePending
    <3>3. base[i] \in Nat
      BY <1>1, <2>1
    <3>. QED BY <1>1, <2>1, <2>2, <3>1, <3>2, <3>3 DEF FlushedOk, Freed, IsFlush, Pending
  <2>. QED BY <2>3, <2>4
<1>9. Lone' /\ OutcomeIsOwn' /\ LoneFlushStores'
  BY <1>8 DEF Lone, OutcomeIsOwn, LoneFlushStores
<1>. QED BY <1>5, <1>6, <1>7, <1>9 DEF Rest

\* A sync that succeeds or fails, whichever of those in flight it is.
LEMMA AnswerStep ==
    ASSUME IInv, SyncAnswers
    PROVE  IInv'
<1>1. PICK s \in inflight :
        /\ SyncSucceeds(s) \/ SyncFails(s)
        /\ inflight' = inflight \ {s}
        /\ UNCHANGED <<initialized, mounted, ops, base, alone, nwrites, torn, ndeinits>>
  BY DEF SyncAnswers
<1>2. /\ FieldsOK /\ nwrites \in Nat /\ Len(ops) \in Nat
      /\ s.op \in 1 .. Len(ops) /\ base[s.op] \in 0 .. nwrites
      /\ s.populate \in BOOLEAN /\ ready \in BOOLEAN
      /\ mem \in 0 .. nwrites /\ saved \in 0 .. nwrites /\ disk \in 0 .. saved
  BY Parallel DEF IInv, FieldsOK, Counted
<1>3. /\ own \in Seq(Answer) /\ Len(own) = Len(ops)
      /\ failed \in Seq(BOOLEAN) /\ Len(failed) = Len(ops)
  BY <1>2 DEF FieldsOK, Answer
<1>4. ASSUME NEW ok \in BOOLEAN, SyncCallback(s, ok)
      PROVE  /\ syncing' \in BOOLEAN /\ ready' \in BOOLEAN /\ last_sync_ok' \in BOOLEAN
             /\ ~syncing' /\ (last_sync_ok' <=> ok)
  BY <1>2, <1>4, Zenon DEF SyncCallback
<1>5. ASSUME NEW answer \in {"ok", "err"}, Answered(s, answer)
      PROVE  own' \in Seq(Answer) /\ Len(own') = Len(ops)
  <2>1. answer \in Answer
    BY DEF Answer
  <2>. QED BY <1>2, <1>3, <1>5, <2>1, ExceptSeq DEF Answered
<1>6. Restored(base[s.op]) \in 0 .. nwrites /\ (~mounted => Restored(base[s.op]) = mem)
  BY <1>2 DEF Restored
<1>7. CASE SyncSucceeds(s)
  <2>1. SyncCallback(s, TRUE) /\ Answered(s, "ok") /\ UNCHANGED failed
    BY <1>7 DEF SyncSucceeds
  <2>2. /\ syncing' \in BOOLEAN /\ ready' \in BOOLEAN /\ last_sync_ok' \in BOOLEAN
        /\ ~syncing' /\ last_sync_ok'
    BY <1>4, <2>1, Zenon
  <2>3. own' \in Seq(Answer) /\ Len(own') = Len(ops)
    BY <1>5, <2>1
  <2>4. /\ mem' \in 0 .. nwrites /\ (~s.populate => mem' = mem)
        /\ ~mounted => mem' = mem
        /\ saved' \in 0 .. nwrites /\ disk' \in 0 .. saved' /\ saved <= saved'
        /\ ~s.populate => base[s.op] <= saved' \/ (mem # 0 /\ mem <= saved')
    BY <1>2, <1>6, <1>7 DEF SyncSucceeds, Stored, Latest
  <2>5. FieldsOK' /\ Counted'
    BY <1>1, <1>2, <2>1, <2>2, <2>3, <2>4 DEF IInv, FieldsOK, Counted, Answer
  <2>6. Settles(s, "ok")
    BY <1>1, <1>2, <2>1, <2>2, <2>4 DEF Settles
  <2>. QED BY <2>5, <2>6, SettlesKeeps DEF IInv, Rest
<1>8. CASE SyncFails(s)
  <2>1. /\ SyncCallback(s, FALSE) /\ Answered(s, "err") /\ UNCHANGED <<disk, saved>>
        /\ failed' = [i \in DOMAIN failed |-> failed[i] \/ Pending(i)]
    BY <1>8 DEF SyncFails
  <2>2. /\ syncing' \in BOOLEAN /\ ready' \in BOOLEAN /\ last_sync_ok' \in BOOLEAN
        /\ ~syncing' /\ ~last_sync_ok'
    BY <1>4, <2>1, Zenon
  <2>3. own' \in Seq(Answer) /\ Len(own') = Len(ops)
    BY <1>5, <2>1
  <2>4. mem' \in 0 .. nwrites /\ (~s.populate => mem' = mem) /\ (~mounted => mem' = mem)
    BY <1>2, <1>6, <1>8 DEF SyncFails
  <2>5. /\ failed' \in Seq(BOOLEAN) /\ Len(failed') = Len(ops)
        /\ \A i \in 1 .. Len(ops) : failed'[i] = (failed[i] \/ Pending(i))
    <3>1. DOMAIN failed = 1 .. Len(ops)
      BY <1>3, LenProperties
    <3>2. failed' = [i \in 1 .. Len(ops) |-> failed[i] \/ Pending(i)]
      BY <2>1, <3>1, Zenon
    <3>3. failed' \in [1 .. Len(ops) -> BOOLEAN]
      BY <3>2, Zenon
    <3>4. failed' \in Seq(BOOLEAN)
      BY <1>2, <3>3, SeqDef
    <3>5. DOMAIN failed' = 1 .. Len(ops)
      BY <3>2, Zenon
    <3>6. Len(failed') = Len(ops)
      BY <1>2, <3>4, <3>5, LenProperties
    <3>7. \A i \in 1 .. Len(ops) : failed'[i] = (failed[i] \/ Pending(i))
      BY <3>2, Zenon
    <3>. QED BY <3>4, <3>6, <3>7, Zenon
  <2>6. FieldsOK' /\ Counted'
    <3>. HIDE DEF Pending
    <3>1. failed' \in Seq(BOOLEAN) /\ Len(failed') = Len(ops)
      BY <2>5, Zenon
    <3>. QED BY <1>1, <1>2, <2>1, <2>2, <2>3, <2>4, <3>1
           DEF IInv, FieldsOK, Counted, Answer
  <2>7. \A i \in 1 .. Len(ops) : (failed[i] => failed'[i]) /\ (Pending(i) => failed'[i])
    BY <2>5, Zenon
  <2>8. Settles(s, "err")
    BY <1>1, <1>2, <2>1, <2>2, <2>4, <2>7 DEF Settles
  <2>. QED BY <2>6, <2>8, SettlesKeeps DEF IInv, Rest
<1>. QED BY <1>1, <1>7, <1>8

-----------------------------------------------------------------------------
(* The theorems.                                                           *)

\* Every step of the browser build's restore and flush keeps the invariant.
LEMMA IInvStep ==
    ASSUME IInv, [Next]_vars
    PROVE  IInv'
<1>1. CASE UNCHANGED vars \/ fileio_init \/ fileio_deinit \/ fileio_write
             \/ fileio_rmfile \/ AutoPersist
  BY <1>1, CalmSteps
<1>2. CASE Begin
  BY <1>2, BeginStep DEF Begin, SyncKinds
<1>3. CASE Poll
  BY <1>3, PollStep DEF Poll
<1>4. CASE Free
  BY <1>4, FreeStep DEF Free
<1>5. CASE SyncAnswers
  BY <1>5, AnswerStep
<1>. QED BY <1>1, <1>2, <1>3, <1>4, <1>5 DEF Next

\* The inductive invariant holds in every behaviour, for all bounds.
THEOREM Invariant == Spec => []IInv
<1>. QED BY IInvInit, IInvStep, PTL DEF Spec

\* The types of the module's flags, operations and histories; an operation's
\* status is 0 or -1.
THEOREM TypeCorrect == Spec => []TypeOK
<1>1. IInv => TypeOK
  BY DEF IInv, OpsWellFormed, TypeOK
<1>. QED BY <1>1, Invariant, PTL

\* fileio_idbfs_syncing is never left set with no callback on its way: not by an
\* error, a teardown or the late callback of an older sync.
THEOREM NeverStuckSyncing == Spec => []SyncingHasCallback
<1>1. IInv => SyncingHasCallback
  BY DEF IInv
<1>. QED BY <1>1, Invariant, PTL

\* No operation reports the failure of a sync that ended before it was begun.
THEOREM NoOldFailureReported == Spec => []FailureIsFresh
<1>1. IInv => FailureIsFresh
  BY DEF IInv
<1>. QED BY <1>1, Invariant, PTL

\* An operation that has met no other sync and no teardown reports what its own
\* FS.syncfs answered.
THEOREM LoneOutcomeIsOwn == Spec => []OutcomeIsOwn
<1>1. IInv => OutcomeIsOwn
  BY DEF IInv
<1>. QED BY <1>1, Invariant, PTL

\* Such a flush, reporting 0, has stored what it began with or something newer.
THEOREM LoneFlushIsStored == Spec => []LoneFlushStores
<1>1. IInv => LoneFlushStores
  BY DEF IInv
<1>. QED BY <1>1, Invariant, PTL

\* A completed operation keeps its status until it is freed, whatever syncs are
\* begun and answered after it.
THEOREM CompletedIsFinal == Spec => DoneIsStable
<1>1. ASSUME IInv, [Next]_vars, NEW i \in 1 .. Len(ops), ~Pending(i)
      PROVE  ops'[i] = ops[i] \/ Freed(ops'[i])
  <2>. USE DEF vars, module, data, hist
  <2>0. /\ FieldsOK /\ Len(ops) \in Nat /\ ops \in Seq(Op)
        /\ \A j \in 1 .. Len(ops) : ops[j] \in Op
    BY <1>1, Parallel DEF IInv, FieldsOK, Op
  <2>1. CASE UNCHANGED ops
    BY <2>1
  <2>2. ASSUME NEW kind \in SyncKinds, fileio_sync_begin_internal(kind)
        PROVE  ops'[i] = ops[i]
    <3>1. ops' = Append(ops, wg_op_init(kind, NULL))
      BY <2>2 DEF fileio_sync_begin_internal, NewOp
    <3>. QED BY <2>0, <3>1
  <2>3. ASSUME NEW k \in 1 .. Len(ops), fileio_sync_poll(k)
        PROVE  ops'[i] = ops[i]
    <3>1. k # i /\ ops' = [ops EXCEPT ![k] = wg_op_complete(ops[k], Outcome)]
      BY <1>1, <2>3 DEF fileio_sync_poll, SetOp
    <3>. QED BY <2>0, <3>1
  <2>4. ASSUME NEW k \in 1 .. Len(ops), fileio_sync_op_free(k)
        PROVE  ops'[i] = ops[i] \/ Freed(ops'[i])
    <3>. DEFINE op == wg_op_deinit(ops[k])
    <3>1. ops' = [ops EXCEPT ![k] = op]
      BY <2>4 DEF fileio_sync_op_free
    <3>2. op.kind = "NONE"
      BY <2>0, Deinitialised
    <3>. HIDE DEF op
    <3>. QED BY <2>0, <3>1, <3>2 DEF Freed
  <2>5. UNCHANGED ops \/ Begin \/ Poll \/ Free
    BY <1>1 DEF Next, fileio_init, fileio_deinit, fileio_write, fileio_rmfile,
                AutoPersist, SyncAnswers
  <2>. QED BY <2>1, <2>2, <2>3, <2>4, <2>5 DEF Begin, Poll, Free, SyncKinds
<1>2. IInv /\ [Next]_vars =>
        [\A i \in 1 .. Len(ops) :
           ~Pending(i) => ops'[i] = ops[i] \/ Freed(ops'[i])]_vars
  BY <1>1
<1>. QED BY <1>2, Invariant, PTL DEF Spec, DoneIsStable

=============================================================================
