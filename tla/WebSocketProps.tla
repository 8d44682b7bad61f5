-------------------------- MODULE WebSocketProps --------------------------
(***************************************************************************)
(* What must hold of a native websocket_t, as modelled in WebSocket.       *)
(***************************************************************************)
EXTENDS WebSocket

EventType == {"OPEN", "MESSAGE", "ERROR", "CLOSE"}

WorkerPc == {"none", "start", "connect", "handshake", "publish", "top", "select",
             "recv", "body", "message", "ping", "flush", "peek", "closing",
             "echo", "fail", "report", "eof", "exit", "closefd", "done"}

AppPc == {"none", "idle", "callback", "sending", "closing", "destroy", "join",
          "joined", "freed"}

Message == [text : BOOLEAN, body : Seq(Nat)]

Piece == [kind : {"header", "payload"}, op : {"DATA", "PONG", "CLOSE"},
          code : Int, more : BOOLEAN]

PeerFrame == [op : {"TEXT", "BINARY", "CONT", "PING", "IGNORED", "BIG", "CUT",
                    "CLOSE"},
              fin : BOOLEAN, part : Nat, code : Int]

QueueTypeOK ==
    /\ events \in Seq([type : EventType, code : Int, msg : Message])
    /\ next \in Seq(Nat) /\ delivered \in Seq(Nat)
    /\ event_head \in Nat /\ event_tail \in Nat /\ drained \in BOOLEAN

ObjectTypeOK ==
    /\ sockfd \in {"INVALID", "FD"}
    /\ connected \in BOOLEAN /\ fd_open \in BOOLEAN /\ shut \in BOOLEAN
    /\ close_requested \in BOOLEAN /\ destroy_requested \in BOOLEAN
    /\ close_emitted \in BOOLEAN /\ error_emitted \in BOOLEAN
    /\ requested_close_code \in Nat \ {0}
    /\ mutex \in {"free", "app", "worker"}

ThreadTypeOK ==
    /\ wpc \in WorkerPc /\ cc \in Int
    /\ frag \in Seq(Nat) /\ frag_text \in BOOLEAN /\ early \in BOOLEAN
    /\ app \in AppPc /\ ret \in {"idle", "callback", "destroy"}
    /\ stores \in Nat /\ (app = "closing" => stores # 0)

NetTypeOK ==
    /\ pend \in Seq(Piece) /\ wire \in Seq(Piece) /\ nread \in Nat
    /\ peer \in {"up", "fin", "rst"} /\ inbox \in Seq(PeerFrame)
    /\ peer_closed \in BOOLEAN /\ peer_cur \in Message
    /\ peer_msgs \in Seq(Message)
    /\ nsends \in 0 .. MaxSends /\ ncloses \in 0 .. MaxCloses
    /\ nframes \in 0 .. MaxFrames /\ nsignals \in 0 .. MaxSignals

\* Every variable of the queue, of the object, of the two threads and of the
\* connection stays in its range; in particular the code websocket_close stores,
\* and the worker reads without the lock, is a code, whatever the caller passed
\* (645).
TypeOK == QueueTypeOK /\ ObjectTypeOK /\ ThreadTypeOK /\ NetTypeOK

Typed(t) == {i \in 1 .. Len(events) : events[i].type = t}

Rank(t) ==
    CASE t = "OPEN" -> 1 [] t = "MESSAGE" -> 2 [] t = "ERROR" -> 3 [] t = "CLOSE" -> 4

\* The application hears OPEN, then messages, then at most one ERROR, then at
\* most one CLOSE and nothing after it, whichever of the worker's many exits,
\* the peer's CLOSE, websocket_close and websocket_destroy come together.
EventOrder ==
    \A i, j \in 1 .. Len(events) : i < j =>
        \/ Rank(events[i].type) < Rank(events[j].type)
        \/ events[i].type = "MESSAGE" /\ events[j].type = "MESSAGE"

\* Whichever way the worker thread ends, it has reported the end: its last
\* event is CLOSE.  A message, or an end without ERROR, only follows OPEN: an
\* attempt to connect that fails, or meets a close or a destroy, is never
\* reported as a connection that ended in order.
EndReported ==
    ~AllocMayFail =>
        /\ wpc = "done" => events # <<>> /\ events[Len(events)].type = "CLOSE"
        /\ Typed("MESSAGE") # {} => events[1].type = "OPEN"
        /\ Typed("CLOSE") # {} /\ Typed("ERROR") = {} => events[1].type = "OPEN"

\* The descriptor in sockfd is open: websocket_destroy never shuts down, and
\* no sender writes to, a number the system may have given to another file
\* (the worker clears sockfd under the lock before it closes, 541-546).
SockfdLive == sockfd # "INVALID" => fd_open

\* connected is true only while sockfd is valid and CLOSE has not been
\* reported: what websocket_is_connected and the senders rely on.
ConnectedWindow == connected => sockfd # "INVALID" /\ ~close_emitted

\* What reaches the peer is whole frames: every header that announces a payload
\* is followed by that payload, whichever threads send (243, 277-283).
WireFramed ==
    ~AllocMayFail =>
        /\ wire # <<>> => wire[1].kind = "header"
        /\ \A i \in 1 .. Len(wire) - 1 :
             IF wire[i].kind = "header" /\ wire[i].more
             THEN wire[i + 1].kind = "payload" /\ wire[i + 1].op = wire[i].op
             ELSE wire[i + 1].kind = "header"

\* A close requested while connecting is the first thing the peer is sent: no
\* data frame slips in between publishing the socket and sending it (415-420).
EarlyCloseFirst == early /\ wire # <<>> => wire[1].op = "CLOSE"

\* The messages reported, which follow OPEN, are the ones the peer completed, in
\* order, with their fragments in order and their type, control frames in
\* between or not.
MessagesIntact ==
    StrictPeer /\ ~AllocMayFail =>
        \A i \in Typed("MESSAGE") :
            i - 1 \in 1 .. Len(peer_msgs) /\ events[i].msg = peer_msgs[i - 1]

\* When the connection ends in order (no error, no reset, no destroy), every
\* message the peer completed has been reported before CLOSE.
OrderlyEndLosesNothing ==
    /\ StrictPeer /\ ~AllocMayFail
    /\ close_emitted /\ ~error_emitted /\ ~destroy_requested /\ peer # "rst"
    => \A i \in 1 .. Len(peer_msgs) : i + 1 \in Typed("MESSAGE")

\* The code on_close reports: 1006 after an error, and 1006 too when the
\* connection was lost without either side asking for a close.
CloseCodeHonest ==
    \A i \in Typed("CLOSE") :
        /\ error_emitted => events[i].code = ABNORMAL
        /\ events[i].code # ABNORMAL => close_requested \/ peer_closed

\* websocket_destroy frees an object nobody uses any more: the worker has
\* returned, its descriptor is closed, the mutex is free, nothing is queued.
FreedClean ==
    app = "freed" => /\ wpc = "done" /\ ~fd_open
                     /\ mutex = "free" /\ pend = <<>>
                     /\ event_head = 0 /\ event_tail = 0

\* Once CLOSE is reported the object stays disconnected and reports no more.
CloseIsFinal ==
    [][close_emitted => ~connected' /\ events' = events]_vars

\* The events of the object are those of WebSocketEvents, and websocket_poll
\* hands them over in that order.
Stream == INSTANCE WebSocketEvents
            WITH stream <- events, consumed <- Len(delivered)

StreamSpec == Stream!Spec

\* websocket_destroy returns, whatever state the worker, the peer and the
\* application's earlier calls are in when it is called.
DestroyReturns == (ret = "destroy") ~> (app = "freed")

\* When the attempt to connect fails or the peer ends the connection, on_close
\* is called, unless the application destroys the object first or there was no
\* memory for the event.
CloseDelivered ==
    (wpc = "fail" \/ peer_closed \/ peer \in {"fin", "rst"})
        ~> \/ ret = "destroy"
           \/ \E i \in 1 .. Len(delivered) : events[delivered[i]].type = "CLOSE"
           \/ AllocMayFail /\ wpc = "done" /\ Typed("CLOSE") = {}

-----------------------------------------------------------------------------
(* The inductive invariant behind the theorems of WebSocketProofs.         *)

Connecting == {"none", "start", "connect", "handshake", "publish"}

\* The holder of the mutex is at one of the places where it sends or reports.
LockHeld ==
    /\ mutex = "worker" <=> wpc \in {"flush", "echo", "report"}
    /\ mutex = "app" <=> app \in {"sending", "closing"}
    /\ pend # <<>> => wpc \in {"flush", "echo"} \/ app = "sending"

\* Who owns the descriptor at each place of the worker.
FdOwned ==
    /\ wpc \in {"none", "start", "done"} => ~fd_open /\ sockfd = "INVALID"
    /\ wpc \in {"connect", "handshake", "publish", "closefd"} =>
         fd_open /\ sockfd = "INVALID"
    /\ wpc \in {"fail", "report"} => (fd_open <=> sockfd = "FD")
    /\ wpc \notin Connecting \cup {"fail", "report", "closefd", "done"} =>
         fd_open /\ sockfd = "FD"

\* How far the worker has come when it has reported an error or the close.
EmitPhase ==
    /\ error_emitted => wpc \in {"report", "exit", "closefd", "done"}
    /\ close_emitted => wpc \in {"exit", "closefd", "done"}
    /\ wpc \in {"closefd", "done"} => close_emitted

\* How far the application has come with the worker.
AppPhase ==
    /\ app = "none" <=> wpc = "none"
    /\ app \in {"joined", "freed"} => wpc = "done"

\* The flags and the list agree on what has been reported.
EventsEmitted ==
    /\ wpc \in Connecting => events = <<>>
    /\ \A i \in 1 .. Len(events) :
         /\ events[i].type = "ERROR" => error_emitted
         /\ events[i].type = "CLOSE" => close_emitted

Drained == drained <=> app = "freed"

Control == LockHeld /\ FdOwned /\ EmitPhase /\ AppPhase /\ ConnectedWindow

\* All of it: preserved by every step.
IInv ==
    /\ TypeOK /\ Control /\ Drained
    /\ QueueLinked /\ DeliveredInOrder /\ EventsEmitted /\ EventOrder
=============================================================================
