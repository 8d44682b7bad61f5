-------------------------------- MODULE WgOp --------------------------------
(***************************************************************************)
(* wg_op_t (wg_op.c): the state every polled operation carries, as values. *)
(* A completed operation keeps its status until it is deinitialised, which *)
(* its owner does exactly once, just before free.                          *)
(***************************************************************************)
EXTENDS Integers

Kinds == {"NONE", "FETCH_URL", "FILEIO_RESTORE", "FILEIO_FLUSH"}

wg_op_t(Impl) ==
    [kind : Kinds, state : {"PENDING", "DONE"}, status_code : Int, impl : Impl]

NULL == 0       \* no implementation; otherwise the number of the object

wg_op_init(kind, impl) ==
    [kind |-> kind, state |-> "PENDING", status_code |-> 0, impl |-> impl]

wg_op_is_done(op) == op.state = "DONE"

wg_op_complete(op, status_code) ==
    [op EXCEPT !.state = "DONE", !.status_code = status_code]

wg_op_impl(op) == op.impl

\* The owner also calls destroy_impl, if it gave one, on wg_op_impl(op).
wg_op_deinit(op) ==
    [op EXCEPT !.kind = "NONE", !.state = "DONE", !.status_code = 0, !.impl = NULL]

\* The owner has freed it: nobody may look at it any more.
Freed(op) == op.kind = "NONE"
=============================================================================
