------------------------------ MODULE WebSocket ------------------------------
(***************************************************************************)
(* One native websocket_t (websocket.c): the application thread that       *)
(* creates, polls, sends, closes and destroys it, the worker thread that   *)
(* connects and receives, and the peer behind the socket.                  *)
(*                                                                         *)
(* A critical section of ws->mutex is one step, except where the holder    *)
(* calls send(), which blocks while the peer does not read: then the       *)
(* thread keeps the mutex and the bytes still to send are in pend.  All    *)
(* steps outside a critical section (connect, select, recv, the fields     *)
(* read without the lock) are steps of their own.                          *)
(***************************************************************************)
EXTENDS WsEventQueue

CONSTANTS
    CloseCodes,     \* codes the application passes to websocket_close
    PeerCodes,      \* close codes the peer sends
    StrictPeer,     \* the peer obeys RFC 6455's framing rules
    SendRoom,       \* frame pieces the socket's send buffer holds
    MaxSends,       \* bound: calls of websocket_send_text / _binary
    MaxCloses,      \* bound: calls of websocket_close
    MaxFrames,      \* bound: frames the peer sends
    MaxSignals      \* bound: signals that interrupt select

ASSUME WebSocketAssumption ==
    /\ CloseCodes \subseteq Int
    /\ PeerCodes \subseteq Nat
    /\ StrictPeer \in BOOLEAN
    /\ SendRoom \in Nat \ {0}
    /\ MaxSends \in Nat /\ MaxCloses \in Nat
    /\ MaxFrames \in Nat /\ MaxSignals \in Nat

WEBSOCKET_DEFAULT_CLOSE_CODE == 1000
ABNORMAL == 1006
NoCode == -1        \* a CLOSE frame whose payload is shorter than a code

VARIABLES
    \* struct websocket
    sockfd, connected, close_requested, destroy_requested, close_emitted,
    error_emitted, requested_close_code,
    mutex,          \* "free", or the thread that sends while holding it
    \* worker thread
    wpc, cc, frag, frag_text,
    fd_open,        \* the worker's descriptor is open
    early,          \* history: a close was requested before the connection opened
    \* application thread
    app, ret,       \* where it is; where it goes on after a call
    stores,         \* websocket_close's store to requested_close_code (0: none)
    \* the connection
    shut,           \* shutdown(SHUT_RDWR) was called
    pend,           \* pieces of a frame the holder of mutex has yet to send
    wire, nread,    \* pieces sent so far; how many of them the peer has read
    peer, inbox,    \* state of the peer's end; frames on their way to us
    peer_closed, peer_cur, peer_msgs,   \* what the peer has sent
    nsends, ncloses, nframes, nsignals

flags == <<close_requested, destroy_requested, requested_close_code>>
emits == <<close_emitted, error_emitted>>
sock == <<sockfd, connected, fd_open, shut>>
wlocal == <<cc, frag, frag_text, early>>
appvars == <<app, ret, stores>>
peersent == <<peer_closed, peer_cur, peer_msgs, nframes>>
peervars == <<peer, inbox, peersent>>
net == <<wire, nread, peervars, nsends, ncloses, nsignals>>
vars == <<qvars, flags, emits, sock, mutex, wpc, wlocal, appvars, pend, net>>

NoMessage == [text |-> FALSE, body |-> <<>>]

Event(t, code, msg) == [type |-> t, code |-> code, msg |-> msg]

Init ==
    /\ QInit
    /\ sockfd = "INVALID" /\ connected = FALSE /\ fd_open = FALSE
    /\ close_requested = FALSE /\ destroy_requested = FALSE
    /\ close_emitted = FALSE /\ error_emitted = FALSE
    /\ requested_close_code = WEBSOCKET_DEFAULT_CLOSE_CODE
    /\ mutex = "free"
    /\ wpc = "none" /\ cc = 0 /\ frag = <<>> /\ frag_text = FALSE
    /\ app = "none" /\ ret = "idle" /\ stores = 0 /\ early = FALSE
    /\ shut = FALSE /\ pend = <<>> /\ wire = <<>> /\ nread = 0
    /\ peer = "up" /\ inbox = <<>> /\ peer_closed = FALSE
    /\ peer_cur = NoMessage /\ peer_msgs = <<>>
    /\ nsends = 0 /\ ncloses = 0 /\ nframes = 0 /\ nsignals = 0

-----------------------------------------------------------------------------
(* Frames on the wire.                                                     *)

Header(op, code, more) ==
    [kind |-> "header", op |-> op, code |-> code, more |-> more]

Payload(op) == [kind |-> "payload", op |-> op, code |-> 0, more |-> FALSE]

\* Mutant: a code that is none is taken for one.
EffectiveAsGiven(code) == code

Effective(code) == IF code > 0 THEN code ELSE WEBSOCKET_DEFAULT_CLOSE_CODE

CanSend == sockfd # "INVALID" /\ connected

\* ws_send_frame_locked: the header, then the masked payload, in two calls of
\* send; nothing at all when there is no connection.
FramePieces(op, code, more) ==
    IF more THEN <<Header(op, code, TRUE), Payload(op)>>
            ELSE <<Header(op, code, FALSE)>>

ws_send_frame_locked(op, code, more) ==
    IF CanSend THEN FramePieces(op, code, more) ELSE <<>>

\* Texts and pings may be empty.
DataFrames == {ws_send_frame_locked("DATA", 0, more) : more \in BOOLEAN}
PongFrames == {ws_send_frame_locked("PONG", 0, more) : more \in BOOLEAN}
EchoFrame == ws_send_frame_locked("CLOSE", 0, FALSE)    \* echo close, no payload

\* ws_send_close_frame_locked: the code travels in 16 bits.
CloseFrame(code) == FramePieces("CLOSE", Effective(code) % 65536, TRUE)

\* ws_enqueue_error_locked and ws_enqueue_close_locked: once each.
ws_enqueue_error_locked ==
    IF error_emitted THEN UNCHANGED <<qvars, error_emitted>>
    ELSE /\ error_emitted' = TRUE
         /\ ws_enqueue_locked(Event("ERROR", 0, NoMessage))

\* Mutant: connected survives the report.
EnqueueCloseStaysConnected(code) ==
    /\ close_emitted' = TRUE
    /\ UNCHANGED connected
    /\ IF close_emitted THEN UNCHANGED qvars
       ELSE ws_enqueue_locked(Event("CLOSE", code, NoMessage))

ws_enqueue_close_locked(code) ==
    IF close_emitted THEN UNCHANGED <<qvars, close_emitted, connected>>
    ELSE /\ close_emitted' = TRUE
         /\ connected' = FALSE
         /\ ws_enqueue_locked(Event("CLOSE", code, NoMessage))

-----------------------------------------------------------------------------
(* The worker: websocket_worker_main.                                      *)

WorkerGoto(pc) ==
    /\ wpc' = pc
    /\ UNCHANGED <<qvars, flags, emits, sock, mutex, wlocal, appvars, pend, net>>

WorkerGotoFd(pc, open) ==
    /\ wpc' = pc /\ fd_open' = open
    /\ UNCHANGED <<qvars, flags, emits, sockfd, connected, shut, mutex, wlocal,
                   appvars, pend, net>>

\* URL, DNS, socket().
WorkerResolve ==
    wpc = "start" /\ (WorkerGoto("fail") \/ WorkerGotoFd("connect", TRUE))

WorkerConnect ==
    wpc = "connect" /\ (WorkerGotoFd("fail", FALSE) \/ WorkerGoto("handshake"))

\* ws_do_handshake: the answer must hold 101; a Sec-WebSocket-Accept header is
\* compared when there is one.  Anything else, or a lost connection, fails.
HandshakeOk(resp) == resp.has101 /\ resp.accept # "wrong"

Responses == [has101 : BOOLEAN, accept : {"absent", "right", "wrong"}]

WorkerHandshake ==
    /\ wpc = "handshake"
    /\ \E resp \in Responses :
         IF HandshakeOk(resp) THEN WorkerGoto("publish")
                              ELSE WorkerGotoFd("fail", FALSE)

\* Mutant: a close requested while connecting is forgotten.
PublishForgetsClose ==
    /\ wpc = "publish" /\ mutex = "free"
    /\ sockfd' = "FD" /\ connected' = TRUE
    /\ early' = close_requested
    /\ ws_enqueue_locked(Event("OPEN", 0, NoMessage))
    /\ wpc' = "top"
    /\ UNCHANGED <<flags, emits, fd_open, shut, mutex, cc, frag, frag_text,
                   appvars, pend, net>>

\* The section that makes the connection visible; a close requested while
\* connecting is sent before the lock is released.
WorkerPublish ==
    /\ wpc = "publish" /\ mutex = "free"
    /\ sockfd' = "FD" /\ connected' = TRUE
    /\ early' = close_requested
    /\ ws_enqueue_locked(Event("OPEN", 0, NoMessage))
    /\ IF close_requested
       THEN /\ pend' = CloseFrame(requested_close_code)
            /\ mutex' = "worker" /\ wpc' = "flush"
       ELSE wpc' = "top" /\ UNCHANGED <<pend, mutex>>
    /\ UNCHANGED <<flags, emits, fd_open, shut, cc, frag, frag_text, appvars, net>>

WorkerCheck ==
    /\ wpc = "top" /\ mutex = "free"
    /\ WorkerGoto(IF destroy_requested THEN "exit" ELSE "select")

Lost == peer \in {"fin", "rst"} \/ shut

\* select() without a timeout: readable on data or when the connection is lost.
WorkerSelect ==
    wpc = "select" /\ (inbox # <<>> \/ Lost) /\ WorkerGoto("recv")

WorkerInterrupted ==
    /\ wpc = "select" /\ nsignals < MaxSignals
    /\ nsignals' = nsignals + 1
    /\ wpc' = "top"
    /\ UNCHANGED <<qvars, flags, emits, sock, mutex, wlocal, appvars, pend, wire,
                   nread, peervars, nsends, ncloses>>

WorkerSelectFails == wpc = "select" /\ WorkerGoto("fail")

\* Mutant: the end of the connection is noticed before the data ahead of it.
RecvEndsEarly == wpc = "recv" /\ Lost /\ WorkerGoto("eof")

\* No header arrives: end of stream, or an error that discards what was queued.
WorkerRecvEnds ==
    /\ wpc = "recv"
    /\ IF inbox = <<>> THEN Lost ELSE peer = "rst" \/ shut
    /\ WorkerGoto("eof")

IsData(f) == f.op \in {"TEXT", "BINARY", "CONT"}

\* Mutant: a continuation frame sets the type of the message, too.
AddFragmentRetypes(f) ==
    /\ frag_text' = (f.op = "TEXT")
    /\ frag' = Append(IF f.op = "CONT" THEN frag ELSE <<>>, f.part)

\* The first frame of a message sets its type and empties the buffer.
AddFragment(f) ==
    /\ frag_text' = IF f.op = "CONT" THEN frag_text ELSE f.op = "TEXT"
    /\ frag' = Append(IF f.op = "CONT" THEN frag ELSE <<>>, f.part)

\* One frame is read whole and handled up to its first locked section.  A frame
\* over the 16 MB cap, or no memory for it, is a receive error.
WorkerRecvFrame ==
    /\ wpc = "recv" /\ inbox # <<>>
    /\ inbox' = Tail(inbox)
    /\ LET f == Head(inbox) IN
       \/ f.op = "PING" /\ wpc' = "ping" /\ UNCHANGED wlocal
       \/ f.op = "IGNORED" /\ wpc' = "top" /\ UNCHANGED wlocal
       \/ /\ f.op = "CLOSE"
          /\ IF f.code = NoCode
             THEN wpc' = "peek" /\ UNCHANGED cc
             ELSE wpc' = "closing" /\ cc' = f.code
          /\ UNCHANGED <<frag, frag_text, early>>
       \/ /\ IsData(f)
          /\ AddFragment(f)
          /\ wpc' = IF f.fin THEN "message" ELSE "top"
          /\ UNCHANGED <<cc, early>>
       \/ f.op = "CUT" /\ wpc' = "body" /\ UNCHANGED wlocal
       \/ (f.op = "BIG" \/ AllocMayFail) /\ wpc' = "fail" /\ UNCHANGED wlocal
    /\ UNCHANGED <<qvars, flags, emits, sock, mutex, appvars, pend, wire, nread,
                   peer, peersent, nsends, ncloses, nsignals>>

\* The rest of a frame cut short never comes; only the end of the connection
\* wakes the worker.
WorkerRecvCut == wpc = "body" /\ Lost /\ WorkerGoto("fail")

WorkerMessage ==
    /\ wpc = "message" /\ mutex = "free"
    /\ ws_enqueue_locked(Event("MESSAGE", 0, [text |-> frag_text, body |-> frag]))
    /\ frag' = <<>>
    /\ wpc' = "top"
    /\ UNCHANGED <<flags, emits, sock, mutex, cc, frag_text, early, appvars, pend,
                   net>>

\* Mutant: a frame is sent without taking the lock.
SendsUnlocked(pieces, pc) ==
    /\ mutex' = "worker"
    /\ pend' = pieces
    /\ wpc' = pc
    /\ UNCHANGED <<qvars, flags, emits, sock, wlocal, appvars, net>>

WorkerSends(pieces, pc) ==
    /\ mutex = "free" /\ mutex' = "worker"
    /\ pend' = pieces
    /\ wpc' = pc
    /\ UNCHANGED <<qvars, flags, emits, sock, wlocal, appvars, net>>

WorkerPong == wpc = "ping" /\ \E f \in PongFrames : WorkerSends(f, "flush")

\* A CLOSE frame without a code: close_requested and requested_close_code are
\* read without the lock.  While websocket_close is between its stores each
\* read returns the old or the new value.
WorkerPeek ==
    /\ wpc = "peek"
    /\ \E requested \in {close_requested, close_requested \/ stores # 0},
          code \in {requested_close_code}
                     \cup (IF stores # 0 THEN {stores} ELSE {}) :
         cc' = IF requested THEN code ELSE WEBSOCKET_DEFAULT_CLOSE_CODE
    /\ wpc' = "closing"
    /\ UNCHANGED <<qvars, flags, emits, sock, mutex, frag, frag_text, early,
                   appvars, pend, net>>

WorkerEcho == wpc = "closing" /\ WorkerSends(EchoFrame, "echo")

\* send() has returned: unlock, or go on to report the close.
WorkerSent ==
    /\ wpc \in {"flush", "echo"} /\ pend = <<>>
    /\ mutex' = IF wpc = "flush" THEN "free" ELSE mutex
    /\ wpc' = IF wpc = "flush" THEN "top" ELSE "report"
    /\ UNCHANGED <<qvars, flags, emits, sock, wlocal, appvars, pend, net>>

\* Every failure takes the lock, reports ERROR and then CLOSE 1006.
WorkerFail ==
    /\ wpc = "fail" /\ mutex = "free"
    /\ ws_enqueue_error_locked
    /\ cc' = ABNORMAL
    /\ mutex' = "worker" /\ wpc' = "report"
    /\ UNCHANGED <<flags, close_emitted, sock, frag, frag_text, early, appvars,
                   pend, net>>

\* Before the connection opened the descriptor is closed already and the
\* thread returns; afterwards it leaves the loop.
WorkerReport ==
    /\ wpc = "report"
    /\ ws_enqueue_close_locked(cc)
    /\ mutex' = "free"
    /\ wpc' = IF fd_open THEN "exit" ELSE "done"
    /\ UNCHANGED <<flags, error_emitted, sockfd, fd_open, shut, wlocal, appvars,
                   pend, net>>

\* Mutant: the requested code is reported whether or not one was requested.
EofReportsRequested ==
    /\ wpc = "eof" /\ mutex = "free"
    /\ ws_enqueue_close_locked(requested_close_code)
    /\ wpc' = "exit"
    /\ UNCHANGED <<flags, error_emitted, sockfd, fd_open, shut, mutex, wlocal,
                   appvars, pend, net>>

WorkerEof ==
    /\ wpc = "eof" /\ mutex = "free"
    /\ ws_enqueue_close_locked(IF close_requested THEN requested_close_code
                                                  ELSE ABNORMAL)
    /\ wpc' = "exit"
    /\ UNCHANGED <<flags, error_emitted, sockfd, fd_open, shut, mutex, wlocal,
                   appvars, pend, net>>

\* Mutant: no CLOSE for a loop left because of websocket_destroy.
ExitSilent ==
    /\ wpc = "exit" /\ mutex = "free"
    /\ connected' = FALSE /\ sockfd' = "INVALID" /\ wpc' = "closefd"
    /\ UNCHANGED <<qvars, flags, emits, fd_open, shut, mutex, wlocal, appvars,
                   pend, net>>

\* Mutant: CLOSE is reported on the way out even if it has been before.
ExitRepeatsClose ==
    /\ wpc = "exit" /\ mutex = "free"
    /\ connected' = FALSE /\ close_emitted' = TRUE
    /\ ws_enqueue_locked(Event("CLOSE", ABNORMAL, NoMessage))
    /\ sockfd' = "INVALID" /\ wpc' = "closefd"
    /\ UNCHANGED <<flags, error_emitted, fd_open, shut, mutex, wlocal, appvars,
                   pend, net>>

\* Mutant: sockfd keeps the number of the descriptor about to be closed.
ExitKeepsSockfd ==
    /\ wpc = "exit" /\ mutex = "free"
    /\ connected' = FALSE
    /\ IF close_emitted THEN UNCHANGED <<qvars, close_emitted>>
       ELSE /\ close_emitted' = TRUE
            /\ ws_enqueue_locked(Event("CLOSE", ABNORMAL, NoMessage))
    /\ wpc' = "closefd"
    /\ UNCHANGED <<flags, error_emitted, sockfd, fd_open, shut, mutex, wlocal,
                   appvars, pend, net>>

WorkerExit ==
    /\ wpc = "exit" /\ mutex = "free"
    /\ connected' = FALSE
    /\ IF close_emitted THEN UNCHANGED <<qvars, close_emitted>>
       ELSE /\ close_emitted' = TRUE
            /\ ws_enqueue_locked(Event("CLOSE", ABNORMAL, NoMessage))
    /\ sockfd' = "INVALID"
    /\ wpc' = "closefd"
    /\ UNCHANGED <<flags, error_emitted, fd_open, shut, mutex, wlocal, appvars,
                   pend, net>>

WorkerCloseFd == wpc = "closefd" /\ WorkerGotoFd("done", FALSE)

-----------------------------------------------------------------------------
(* The application thread: the public functions.                           *)

AppGoto(pc) ==
    /\ app' = pc
    /\ UNCHANGED <<flags, emits, sock, mutex, wpc, wlocal, ret, stores, pend, net>>

\* A creation that fails returns NULL and leaves nothing behind.
Create ==
    /\ app = "none"
    /\ app' = "idle" /\ wpc' = "start"
    /\ UNCHANGED <<qvars, flags, emits, sock, mutex, wlocal, ret, stores, pend,
                   net>>

\* One turn of websocket_poll's loop; the callback runs after the unlock.
PollEvent ==
    /\ app \in {"idle", "callback"} /\ mutex = "free"
    /\ PopEvent
    /\ AppGoto("callback")

\* The queue is empty: websocket_poll returns.
PollReturns ==
    /\ app = "callback" /\ mutex = "free"
    /\ event_head = 0
    /\ AppGoto("idle") /\ UNCHANGED qvars

\* websocket_send_text, websocket_send_binary, also from a callback.
Send ==
    /\ app \in {"idle", "callback"} /\ mutex = "free" /\ nsends < MaxSends
    /\ nsends' = nsends + 1
    /\ pend' \in DataFrames
    /\ mutex' = "app" /\ ret' = app /\ app' = "sending"
    /\ UNCHANGED <<qvars, flags, emits, sock, wpc, wlocal, stores, wire, nread,
                   peervars, ncloses, nsignals>>

\* websocket_close takes the lock ...
CloseLock(code, then) ==
    /\ mutex = "free" /\ mutex' = "app"
    /\ stores' = Effective(code)
    /\ ret' = then /\ app' = "closing"
    /\ UNCHANGED <<qvars, flags, emits, sock, wpc, wlocal, pend, wire, nread,
                   peervars, nsends, nsignals>>

Close(code) ==
    /\ app \in {"idle", "callback"} /\ ncloses < MaxCloses
    /\ ncloses' = ncloses + 1
    /\ CloseLock(code, app)

\* ... writes the request and, when connected, sends it.
CloseStore ==
    /\ app = "closing"
    /\ close_requested' = TRUE /\ requested_close_code' = stores
    /\ stores' = 0
    /\ pend' = IF CanSend THEN CloseFrame(stores) ELSE <<>>
    /\ app' = "sending"
    /\ UNCHANGED <<qvars, destroy_requested, emits, sock, mutex, wpc, wlocal, ret,
                   net>>

\* send() has returned: unlock and return to the caller.
AppSent ==
    /\ app = "sending" /\ pend = <<>>
    /\ mutex' = "free" /\ app' = ret
    /\ UNCHANGED <<qvars, flags, emits, sock, wpc, wlocal, ret, stores, pend, net>>

\* websocket_destroy: close with the default code, then stop the worker, wait
\* for it, and free what is left.
Destroy ==
    /\ app = "idle"
    /\ CloseLock(WEBSOCKET_DEFAULT_CLOSE_CODE, "destroy")
    /\ UNCHANGED ncloses

\* Mutant: the socket is not shut down, so nothing wakes the worker.
StopWithoutShutdown ==
    /\ app = "destroy" /\ mutex = "free"
    /\ destroy_requested' = TRUE
    /\ app' = "join"
    /\ UNCHANGED <<qvars, close_requested, requested_close_code, emits, sock,
                   mutex, wpc, wlocal, ret, stores, pend, net>>

DestroyStop ==
    /\ app = "destroy" /\ mutex = "free"
    /\ destroy_requested' = TRUE
    /\ shut' = (shut \/ sockfd # "INVALID")
    /\ app' = "join"
    /\ UNCHANGED <<qvars, close_requested, requested_close_code, emits, sockfd,
                   connected, fd_open, mutex, wpc, wlocal, ret, stores, pend, net>>

\* Mutant: the worker is not joined.
JoinSkipped ==
    /\ app = "join"
    /\ AppGoto("joined") /\ UNCHANGED qvars

\* pthread_join
DestroyJoin ==
    /\ app = "join" /\ wpc = "done"
    /\ AppGoto("joined") /\ UNCHANGED qvars

DestroyFree ==
    /\ app = "joined" /\ mutex = "free"
    /\ DrainEvents
    /\ AppGoto("freed")

-----------------------------------------------------------------------------
(* The socket and the peer (external).                                     *)

\* send() accepts a piece while there is room and the connection is there.
SendPiece ==
    /\ pend # <<>> /\ ~shut /\ peer # "rst"
    /\ Len(wire) - nread < SendRoom
    /\ wire' = Append(wire, Head(pend))
    /\ pend' = Tail(pend)
    /\ UNCHANGED <<qvars, flags, emits, sock, mutex, wpc, wlocal, appvars, nread,
                   peervars, nsends, ncloses, nsignals>>

\* send() fails once the connection is gone, and keeps failing; the rest of
\* the frame is abandoned.
SendFails ==
    /\ pend # <<>> /\ Lost
    /\ pend' = <<>>
    /\ peer' = IF shut THEN peer ELSE "rst"
    /\ UNCHANGED <<qvars, flags, emits, sock, mutex, wpc, wlocal, appvars, wire,
                   nread, inbox, peersent, nsends, ncloses, nsignals>>

\* No memory for the masked copy after the header has gone out.
SendNoMemory ==
    /\ AllocMayFail
    /\ pend # <<>> /\ Head(pend).kind = "payload"
    /\ pend' = <<>>
    /\ UNCHANGED <<qvars, flags, emits, sock, mutex, wpc, wlocal, appvars, net>>

\* The peer acts on a connection: after the handshake, until the worker closes.
PeerStep ==
    /\ peer = "up" /\ fd_open /\ wpc \notin {"connect", "handshake"}
    /\ UNCHANGED <<qvars, flags, emits, sock, mutex, wpc, wlocal, appvars, pend,
                   wire, nsends, ncloses, nsignals>>

PeerReads ==
    /\ nread < Len(wire)
    /\ nread' = nread + 1
    /\ PeerStep /\ UNCHANGED peervars

PeerSends(op, fin, part, code) ==
    /\ nframes < MaxFrames
    /\ StrictPeer => ~peer_closed
    /\ inbox # <<>> => inbox[Len(inbox)].op # "CUT"
    /\ nframes' = nframes + 1
    /\ inbox' = Append(inbox, [op |-> op, fin |-> fin, part |-> part, code |-> code])
    /\ PeerStep /\ UNCHANGED <<nread, peer>>

\* A data frame carries part nframes + 1.  A strict peer continues a message
\* it has begun, and only such a one.
PeerData(op, fin) ==
    LET part == nframes + 1
        cur == [text |-> IF op = "CONT" THEN peer_cur.text ELSE op = "TEXT",
                body |-> Append(IF op = "CONT" THEN peer_cur.body ELSE <<>>, part)]
    IN  /\ StrictPeer => (op = "CONT" <=> peer_cur.body # <<>>)
        /\ PeerSends(op, fin, part, 0)
        /\ peer_cur' = IF fin THEN NoMessage ELSE cur
        /\ peer_msgs' = IF fin THEN Append(peer_msgs, cur) ELSE peer_msgs
        /\ UNCHANGED peer_closed

\* PING; PONG and the reserved opcodes, which are ignored; a frame over the
\* size cap; a frame whose end is never sent.
PeerControl(op) ==
    PeerSends(op, TRUE, 0, 0) /\ UNCHANGED <<peer_cur, peer_msgs, peer_closed>>

PeerClose(code) ==
    /\ PeerSends("CLOSE", TRUE, 0, code)
    /\ peer_closed' = TRUE
    /\ UNCHANGED <<peer_cur, peer_msgs>>

\* The peer's end closes in order, or is reset.
PeerEnds ==
    /\ peer' \in {"fin", "rst"}
    /\ PeerStep /\ UNCHANGED <<nread, inbox, peersent>>

-----------------------------------------------------------------------------
Worker ==
    \/ WorkerResolve \/ WorkerConnect \/ WorkerHandshake \/ WorkerPublish
    \/ WorkerCheck \/ WorkerSelect \/ WorkerRecvEnds \/ WorkerRecvFrame
    \/ WorkerRecvCut \/ WorkerMessage \/ WorkerPong \/ WorkerPeek \/ WorkerEcho
    \/ WorkerSent \/ WorkerFail \/ WorkerReport \/ WorkerEof \/ WorkerExit
    \/ WorkerCloseFd

WorkerTrouble == WorkerInterrupted \/ WorkerSelectFails

\* Steps the application takes only if it wants to.
AppCalls ==
    \/ Create \/ Send \/ Destroy
    \/ \E code \in CloseCodes : Close(code)

\* Steps of calls it has made.
AppReturns ==
    PollReturns \/ CloseStore \/ AppSent \/ DestroyStop \/ DestroyJoin \/ DestroyFree

Socket == SendPiece \/ SendFails

Peer ==
    \/ \E op \in {"TEXT", "BINARY", "CONT"}, fin \in BOOLEAN : PeerData(op, fin)
    \/ \E op \in {"PING", "IGNORED", "BIG", "CUT"} : PeerControl(op)
    \/ \E code \in PeerCodes \cup {NoCode} : PeerClose(code)
    \/ PeerEnds

\* A destroyed object stays destroyed.
Terminated == app = "freed" /\ UNCHANGED vars

Next ==
    \/ Worker \/ WorkerTrouble
    \/ AppCalls \/ PollEvent \/ AppReturns
    \/ Socket \/ SendNoMemory \/ PeerReads \/ Peer
    \/ Terminated

Spec == Init /\ [][Next]_vars

\* The worker thread is scheduled and its blocking calls before the connection
\* opens return; a call the application has made goes on; the application
\* polls; a peer that is up reads what it is sent.
Fairness ==
    /\ WF_vars(Worker)
    /\ WF_vars(AppReturns)
    /\ WF_vars(PollEvent)
    /\ WF_vars(Socket)
    /\ WF_vars(PeerReads)

FairSpec == Spec /\ Fairness
=============================================================================
