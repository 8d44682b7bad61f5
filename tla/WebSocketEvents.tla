-------------------------- MODULE WebSocketEvents --------------------------
(***************************************************************************)
(* What a websocket_t promises its application through the four callbacks  *)
(* of websocket_callbacks_t: a connection is reported as                   *)
(*         [ on_open  on_message* ]  [ on_error ]  on_close                *)
(* and every callback comes exactly once and in that order, however the    *)
(* worker, the peer and the application interleave.                        *)
(***************************************************************************)
EXTENDS Integers, Sequences

VARIABLES
    stream,                 \* the events reported, records with a field type
    consumed                \* how many of them the application has been given

vars == <<stream, consumed>>

OfType(t) == \E i \in 1 .. Len(stream) : stream[i].type = t

Ended == OfType("CLOSE")

Init == stream = <<>> /\ consumed = 0

\* Some event of type t is added; which one is not this module's concern.
Report(t) ==
    /\ Len(stream') = Len(stream) + 1
    /\ stream'[Len(stream')].type = t
    /\ stream = SubSeq(stream', 1, Len(stream))
    /\ UNCHANGED consumed

Opens == stream = <<>> /\ Report("OPEN")

Receives ==
    /\ OfType("OPEN") /\ ~OfType("ERROR") /\ ~Ended
    /\ Report("MESSAGE")

Errs == ~OfType("ERROR") /\ ~Ended /\ Report("ERROR")

Closes == ~Ended /\ Report("CLOSE")

Delivers ==
    /\ consumed < Len(stream)
    /\ consumed' = consumed + 1
    /\ UNCHANGED stream

Next == Opens \/ Receives \/ Errs \/ Closes \/ Delivers

Spec == Init /\ [][Next]_vars
=============================================================================
