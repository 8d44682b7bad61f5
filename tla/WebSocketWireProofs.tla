------------------------ MODULE WebSocketWireProofs ------------------------
(***************************************************************************)
(* More proofs about WebSocket, on top of the invariant of                 *)
(* WebSocketProofs: what the peer is sent, what on_close reports, that the *)
(* object's events are those of WebSocketEvents, and that the messages of  *)
(* a peer that keeps to the framing rules reach the application whole, in  *)
(* order and, when the connection ends in order, all of them: for any      *)
(* number of frames and fragments.                                         *)
(***************************************************************************)
EXTENDS WebSocketProofs

-----------------------------------------------------------------------------
(* What the peer is sent.                                                  *)

\* Nothing can be sent any more, and never will be.
Dead == shut \/ peer = "rst"

\* A header, and its payload if it announces one.
Whole(p) ==
    /\ p[1].kind = "header"
    /\ p[1].more => Len(p) = 2 /\ p[2].kind = "payload" /\ p[2].op = p[1].op
    /\ ~p[1].more => Len(p) = 1

\* The last piece sent announces a payload.
OpenHeader == wire # <<>> /\ wire[Len(wire)].kind = "header" /\ wire[Len(wire)].more

\* What is still to be sent continues the last frame, or is a frame.
Aligned ==
    IF OpenHeader
    THEN Len(pend) = 1 /\ pend[1].kind = "payload" /\ pend[1].op = wire[Len(wire)].op
    ELSE pend # <<>> => Whole(pend)

Framing == ~AllocMayFail => WireFramed /\ (Dead \/ Aligned)

\* The close requested while connecting is sent, or next to be sent, or nothing
\* will ever be sent.
EarlyClose ==
    /\ wpc \in Connecting => ~early /\ wire = <<>> /\ pend = <<>>
    /\ early /\ wire = <<>> =>
         Dead \/ (pend # <<>> /\ pend[1].kind = "header" /\ pend[1].op = "CLOSE")
    /\ EarlyCloseFirst

\* What a step does to the wire: nothing, begin a frame, publish the connection,
\* or what send() does.
BeginsFrame ==
    /\ pend = <<>> /\ UNCHANGED <<wire, early>>
    /\ pend' # <<>> => connected /\ Whole(pend')

Publishes ==
    /\ wpc = "publish" /\ wpc' \notin Connecting /\ UNCHANGED wire
    /\ early' => Whole(pend') /\ pend' # <<>> /\ pend'[1].op = "CLOSE"
    /\ ~early' => pend' = pend

WireStep ==
    \/ UNCHANGED <<pend, wire, early>> \/ BeginsFrame \/ Publishes
    \/ SendPiece \/ SendFails \/ SendNoMemory

\* The frames the library sends are whole.
LEMMA FramesWhole ==
    ASSUME NEW op, NEW code, NEW more \in BOOLEAN
    PROVE  LET p == FramePieces(op, code, more) IN
           Whole(p) /\ p # <<>> /\ p[1].op = op
<1>1. CASE more
  <2>. DEFINE p == <<Header(op, code, TRUE), Payload(op)>>
  <2>1. FramePieces(op, code, more) = p
    BY <1>1 DEF FramePieces
  <2>2. Whole(p) /\ p # <<>> /\ p[1].op = op
    BY DEF Whole, Header, Payload
  <2>. QED BY <2>1, <2>2, Zenon
<1>2. CASE ~more
  <2>. DEFINE p == <<Header(op, code, FALSE)>>
  <2>1. FramePieces(op, code, more) = p
    BY <1>2 DEF FramePieces
  <2>2. Whole(p) /\ p # <<>> /\ p[1].op = op
    BY DEF Whole, Header
  <2>. QED BY <2>1, <2>2, Zenon
<1>. QED BY <1>1, <1>2

\* Every step does one of these things to the wire.
LEMMA WireSteps ==
    ASSUME TypeOK, Control, [Next]_vars
    PROVE  WireStep /\ (Dead => Dead')
<1>. USE DEF WireStep, Dead, sock, wlocal, net, peervars
<1>a. /\ LockHeld /\ ThreadTypeOK /\ ObjectTypeOK
      /\ mutex = "free" => pend = <<>>
      /\ app = "closing" => pend = <<>>
  BY DEF TypeOK, Control, LockHeld, ThreadTypeOK, ObjectTypeOK
<1>b. ASSUME NEW op, NEW code, NEW more \in BOOLEAN
      PROVE  LET p == ws_send_frame_locked(op, code, more) IN
             p = <<>> \/ (connected /\ Whole(p))
  BY FramesWhole, Zenon DEF ws_send_frame_locked, CanSend
<1>c. ASSUME NEW code
      PROVE  LET p == CloseFrame(code) IN Whole(p) /\ p # <<>> /\ p[1].op = "CLOSE"
  <2>. DEFINE c == Effective(code) % 65536
  <2>1. TRUE \in BOOLEAN /\ CloseFrame(code) = FramePieces("CLOSE", c, TRUE)
    BY DEF CloseFrame
  <2>. HIDE DEF c
  <2>. QED BY <2>1, FramesWhole, Zenon
<1>1. CASE UNCHANGED vars
  BY <1>1 DEF vars
<1>2. CASE \/ WorkerResolve \/ WorkerConnect \/ WorkerHandshake \/ WorkerCheck
           \/ WorkerSelect \/ WorkerSelectFails \/ WorkerRecvEnds \/ WorkerRecvCut
           \/ WorkerCloseFd
  BY <1>2 DEF WorkerResolve, WorkerConnect, WorkerHandshake, WorkerCheck, WorkerSelect,
              WorkerSelectFails, WorkerRecvEnds, WorkerRecvCut, WorkerCloseFd, WorkerGoto,
              WorkerGotoFd
<1>3. CASE \/ WorkerInterrupted \/ WorkerRecvFrame \/ WorkerMessage \/ WorkerPeek
           \/ WorkerSent \/ WorkerFail \/ WorkerReport \/ WorkerEof \/ WorkerExit
  BY <1>3 DEF WorkerInterrupted, WorkerRecvFrame, WorkerMessage, WorkerPeek, WorkerSent,
              WorkerFail, WorkerReport, WorkerEof, WorkerExit
<1>4. CASE WorkerPublish
  <2>1. /\ wpc = "publish" /\ wpc' \notin Connecting /\ UNCHANGED <<wire, shut, peer>>
        /\ early' = close_requested
        /\ close_requested => pend' = CloseFrame(requested_close_code)
        /\ ~close_requested => pend' = pend
    BY <1>4 DEF WorkerPublish, Connecting
  <2>. QED BY <1>c, <2>1 DEF Publishes
<1>5. CASE WorkerPong
  <2>1. /\ pend' \in PongFrames /\ mutex = "free"
        /\ UNCHANGED <<wire, early, shut, peer>>
    BY <1>5 DEF WorkerPong, WorkerSends
  <2>2. pend' = <<>> \/ (connected /\ Whole(pend'))
    BY <1>b, <2>1, Zenon DEF PongFrames
  <2>. QED BY <1>a, <2>1, <2>2 DEF BeginsFrame
<1>6. CASE WorkerEcho
  <2>1. pend' = EchoFrame /\ mutex = "free" /\ UNCHANGED <<wire, early, shut, peer>>
    BY <1>6 DEF WorkerEcho, WorkerSends
  <2>2. pend' = <<>> \/ (connected /\ Whole(pend'))
    BY <1>b, <2>1, Zenon DEF EchoFrame
  <2>. QED BY <1>a, <2>1, <2>2 DEF BeginsFrame
<1>7. CASE Send
  <2>1. /\ pend' \in DataFrames /\ mutex = "free"
        /\ UNCHANGED <<wire, early, shut, peer>>
    BY <1>7 DEF Send
  <2>2. pend' = <<>> \/ (connected /\ Whole(pend'))
    BY <1>b, <2>1, Zenon DEF DataFrames
  <2>. QED BY <1>a, <2>1, <2>2 DEF BeginsFrame
<1>8. CASE CloseStore
  <2>1. /\ pend' = <<>> \/ (connected /\ pend' = CloseFrame(stores))
        /\ app = "closing" /\ UNCHANGED <<wire, early, shut, peer>>
    BY <1>8 DEF CloseStore, CanSend
  <2>. QED BY <1>a, <1>c, <2>1 DEF BeginsFrame
<1>9. CASE \/ Create \/ PollEvent \/ PollReturns \/ AppSent \/ Destroy
           \/ DestroyJoin \/ DestroyFree
  BY <1>9 DEF Create, PollEvent, PollReturns, AppSent, Destroy, DestroyJoin, DestroyFree,
              CloseLock, AppGoto
<1>12. CASE DestroyStop
  <2>1. shut => shut'
    BY <1>12, Zenon DEF DestroyStop
  <2>2. UNCHANGED <<pend, wire, early, peer>>
    BY <1>12 DEF DestroyStop
  <2>. QED BY <2>1, <2>2
<1>13. CASE \E code \in CloseCodes : Close(code)
  BY <1>13 DEF Close, CloseLock
<1>10. CASE SendPiece \/ SendFails \/ SendNoMemory
  BY <1>10 DEF SendPiece, SendFails, SendNoMemory
<1>11. CASE PeerReads \/ Peer
  <2>1. UNCHANGED <<pend, wire, early, shut>> /\ peer = "up"
    BY <1>11, Zenon DEF PeerReads, Peer, PeerData, PeerControl, PeerClose, PeerEnds,
                        PeerSends, PeerStep
  <2>. QED BY <2>1
<1>. QED
  BY <1>1, <1>2, <1>3, <1>4, <1>5, <1>6, <1>7, <1>8, <1>9, <1>10, <1>11,
     <1>12, <1>13
     DEF Next, Worker, WorkerTrouble, AppCalls, AppReturns, Socket, Terminated

\* Every step keeps the frames on the wire whole, and the early close first.
LEMMA WireInvStep ==
    ASSUME TypeOK, TypeOK', Control, Onward, Framing, EarlyClose, WireStep, Dead => Dead'
    PROVE  Framing' /\ EarlyClose'
<1>1. /\ wire \in Seq(Piece) /\ pend \in Seq(Piece) /\ Len(wire) \in Nat
      /\ Len(pend) \in Nat
  BY LenProperties DEF TypeOK, NetTypeOK
<1>2. connected => wpc \notin Connecting
  BY DEF Control, FdOwned, ConnectedWindow, Connecting
<1>3. CASE UNCHANGED <<pend, wire, early>>
  BY <1>3 DEF Framing, EarlyClose, WireFramed, Aligned, OpenHeader, EarlyCloseFirst,
              Onward, Dead, Whole
<1>4. CASE BeginsFrame
  <2>1. Framing'
    <3>1. Aligned => Aligned'
      BY <1>4 DEF BeginsFrame, Aligned, OpenHeader
    <3>. QED BY <1>4, <3>1 DEF BeginsFrame, Framing, WireFramed
  <2>2. wpc' \in Connecting => ~early' /\ wire' = <<>> /\ pend' = <<>>
    BY <1>2, <1>4 DEF BeginsFrame, EarlyClose, Onward
  <2>3. early' /\ wire' = <<>> => Dead'
    BY <1>4 DEF BeginsFrame, EarlyClose
  <2>4. EarlyCloseFirst'
    BY <1>4 DEF BeginsFrame, EarlyClose, EarlyCloseFirst
  <2>. QED BY <2>1, <2>2, <2>3, <2>4 DEF EarlyClose
<1>5. CASE Publishes
  <2>1. wire = <<>> /\ wire' = <<>> /\ pend = <<>>
    BY <1>5 DEF Publishes, EarlyClose, Connecting
  <2>2. Framing'
    <3>1. WireFramed'
      BY <2>1 DEF WireFramed
    <3>2. Aligned'
      BY <1>5, <2>1 DEF Publishes, Aligned, OpenHeader
    <3>. QED BY <3>1, <3>2 DEF Framing
  <2>. QED BY <1>5, <2>1, <2>2 DEF Publishes, EarlyClose, EarlyCloseFirst, Whole
<1>6. CASE SendPiece
  <2>. DEFINE n == Len(wire)
  <2>1. /\ pend # <<>> /\ ~Dead /\ wire' = Append(wire, Head(pend))
        /\ pend' = Tail(pend) /\ UNCHANGED <<early, wpc>>
    BY <1>6 DEF SendPiece, Dead, wlocal
  <2>2. /\ Len(wire') = n + 1 /\ wire'[n + 1] = pend[1]
        /\ \A i \in 1 .. n : wire'[i] = wire[i]
    BY <1>1, <2>1
  <2>3. /\ Len(pend') = Len(pend) - 1 /\ \A i \in 1 .. Len(pend) - 1 : pend'[i] = pend[i + 1]
        /\ Len(pend) = 1 => pend' = <<>>
    BY <1>1, <2>1
  <2>4. pend[1] \in Piece /\ (n # 0 => wire[n] \in Piece)
    BY <1>1, <2>1, ElementOfSeq
  <2>5. ASSUME ~AllocMayFail PROVE WireFramed' /\ Aligned'
    <3>1. WireFramed /\ Aligned
      BY <2>1, <2>5 DEF Framing
    <3>2. WireFramed'
      <4>1. wire'[1].kind = "header"
        BY <1>1, <2>1, <2>2, <2>5, <3>1 DEF WireFramed, Aligned, OpenHeader, Whole
      <4>2. ASSUME NEW i \in 1 .. n
            PROVE  IF wire'[i].kind = "header" /\ wire'[i].more
                   THEN wire'[i + 1].kind = "payload" /\ wire'[i + 1].op = wire'[i].op
                   ELSE wire'[i + 1].kind = "header"
        <5>1. CASE i = n
          BY <1>1, <2>1, <2>2, <3>1, <5>1 DEF Aligned, OpenHeader, Whole
        <5>2. CASE i # n
          <6>1. i \in 1 .. n - 1 /\ i + 1 \in 1 .. n
            BY <1>1, <5>2
          <6>. QED BY <2>2, <2>5, <3>1, <6>1 DEF WireFramed
        <5>. QED BY <5>1, <5>2
      <4>. QED BY <1>1, <2>2, <4>1, <4>2 DEF WireFramed
    <3>3. Aligned'
      <4>1. OpenHeader' <=> pend[1].kind = "header" /\ pend[1].more
        BY <1>1, <2>2 DEF OpenHeader
      <4>2. CASE OpenHeader
        BY <1>1, <2>1, <2>2, <2>3, <3>1, <4>1, <4>2 DEF Aligned
      <4>3. CASE ~OpenHeader
        BY <1>1, <2>1, <2>2, <2>3, <2>4, <3>1, <4>1, <4>3 DEF Aligned, Whole
      <4>. QED BY <4>2, <4>3
    <3>. QED BY <3>2, <3>3
  <2>6. EarlyClose'
    <3>1. wpc \notin Connecting
      BY <2>1 DEF EarlyClose
    <3>2. early => wire'[1].op = "CLOSE"
      <4>1. CASE n = 0
        <5>1. wire = <<>>
          BY <1>1, <4>1, EmptySeq
        <5>. QED BY <2>1, <2>2, <4>1, <5>1 DEF EarlyClose
      <4>2. CASE n # 0
        BY <1>1, <2>2, <4>2 DEF EarlyClose, EarlyCloseFirst
      <4>. QED BY <4>1, <4>2
    <3>3. wire' # <<>>
      BY <1>1, <2>2
    <3>. QED BY <2>1, <3>1, <3>2, <3>3 DEF EarlyClose, EarlyCloseFirst
  <2>. QED BY <2>5, <2>6 DEF Framing
<1>7. CASE SendFails
  <2>1. Dead' /\ UNCHANGED <<wire, early, wpc>> /\ pend' = <<>>
    BY <1>7 DEF SendFails, Dead, Lost, sock, wlocal
  <2>. QED BY <2>1 DEF Framing, EarlyClose, WireFramed, EarlyCloseFirst
<1>8. CASE SendNoMemory
  <2>1. /\ AllocMayFail /\ pend # <<>> /\ pend[1].kind = "payload"
        /\ UNCHANGED <<wire, early, wpc>> /\ pend' = <<>>
    BY <1>1, <1>8 DEF SendNoMemory, net, wlocal
  <2>. QED BY <2>1 DEF Framing, EarlyClose, EarlyCloseFirst
<1>. QED BY <1>3, <1>4, <1>5, <1>6, <1>7, <1>8 DEF WireStep

-----------------------------------------------------------------------------
(* The end is reported, and what is reported follows OPEN.                 *)

\* While the socket is published OPEN has been reported; a reported close is
\* the last event, and has OPEN or an error before it.
Opened ==
    ~AllocMayFail =>
        /\ sockfd = "FD" => events # <<>> /\ events[1].type = "OPEN"
        /\ close_emitted => events # <<>> /\ events[Len(events)].type = "CLOSE"
        /\ Typed("MESSAGE") # {} => events[1].type = "OPEN"
        /\ wpc = "report" => error_emitted \/ sockfd = "FD"
        /\ error_emitted => Typed("ERROR") # {}
        /\ close_emitted => error_emitted \/ events[1].type = "OPEN"

\* The steps that report something.
Reporter ==
    \/ WorkerPublish \/ WorkerMessage \/ WorkerFail \/ WorkerReport \/ WorkerEof
    \/ WorkerExit

\* Every other step leaves the events, the socket and the two flags alone, and
\* the worker comes to report a close only when it has echoed the peer's.
LEMMA Reporters ==
    ASSUME [Next]_vars
    PROVE  \/ Reporter
           \/ /\ UNCHANGED <<events, sockfd, close_emitted, error_emitted>>
              /\ wpc' = "report" => wpc \in {"echo", "report"}
<1>. USE DEF Reporter, qvars, emits, sock
<1>1. CASE UNCHANGED vars
  BY <1>1 DEF vars
<1>2. CASE \/ WorkerResolve \/ WorkerConnect \/ WorkerHandshake \/ WorkerCheck
           \/ WorkerSelect \/ WorkerSelectFails \/ WorkerRecvEnds \/ WorkerRecvCut
           \/ WorkerCloseFd
  BY <1>2 DEF WorkerResolve, WorkerConnect, WorkerHandshake, WorkerCheck, WorkerSelect,
              WorkerSelectFails, WorkerRecvEnds, WorkerRecvCut, WorkerCloseFd, WorkerGoto,
              WorkerGotoFd
<1>3. CASE \/ WorkerInterrupted \/ WorkerRecvFrame \/ WorkerPeek \/ WorkerSent
           \/ WorkerPong \/ WorkerEcho
  BY <1>3 DEF WorkerInterrupted, WorkerRecvFrame, WorkerPeek, WorkerSent, WorkerPong,
              WorkerEcho, WorkerSends
<1>4. CASE \/ Create \/ PollEvent \/ PollReturns \/ AppSent \/ Destroy \/ Send
           \/ DestroyStop \/ DestroyJoin \/ DestroyFree \/ CloseStore
  BY <1>4 DEF Create, PollEvent, PopEvent, PollReturns, AppSent, Destroy, Send,
              DestroyStop, DestroyJoin, DestroyFree, DrainEvents, CloseStore, CloseLock,
              AppGoto
<1>5. CASE \E code \in CloseCodes : Close(code)
  BY <1>5 DEF Close, CloseLock
<1>6. CASE SendPiece \/ SendFails \/ SendNoMemory
  BY <1>6 DEF SendPiece, SendFails, SendNoMemory
<1>7. CASE PeerReads \/ Peer
  BY <1>7, Zenon DEF PeerReads, Peer, PeerData, PeerControl, PeerClose, PeerEnds,
                     PeerSends, PeerStep
<1>. QED
  BY <1>1, <1>2, <1>3, <1>4, <1>5, <1>6, <1>7
     DEF Next, Worker, WorkerTrouble, AppCalls, AppReturns, Socket, Terminated

\* One more event.
LEMMA OpenedAppend ==
    ASSUME TypeOK, Opened, ~AllocMayFail, NEW ev, events' = Append(events, ev),
           ev.type = "MESSAGE" => sockfd = "FD",
           sockfd' = "FD" => sockfd = "FD" \/ (events = <<>> /\ ev.type = "OPEN"),
           close_emitted' => ev.type = "CLOSE",
           wpc' = "report" => error_emitted' \/ sockfd' = "FD",
           error_emitted' => error_emitted \/ ev.type = "ERROR",
           close_emitted' => error_emitted' \/ sockfd = "FD"
    PROVE  Opened'
<1>. DEFINE n == Len(events)
<1>1. n \in Nat /\ events \in Seq(EventRecord)
  BY LenProperties DEF TypeOK, QueueTypeOK, EventRecord
<1>2. /\ Len(events') = n + 1 /\ events'[n + 1] = ev
      /\ \A i \in 1 .. n : events'[i] = events[i]
      /\ events' # <<>>
  BY <1>1
<1>3. (events = <<>> <=> n = 0) /\ (n # 0 => events'[1] = events[1])
  BY <1>1, <1>2, EmptySeq
<1>4. close_emitted' => events' # <<>> /\ events'[Len(events')].type = "CLOSE"
  BY <1>1, <1>2
<1>5. sockfd' = "FD" => events' # <<>> /\ events'[1].type = "OPEN"
  BY <1>1, <1>2, <1>3 DEF Opened
<1>6. ASSUME NEW i \in 1 .. Len(events'), events'[i].type = "MESSAGE"
      PROVE  events'[1].type = "OPEN"
  <2>1. CASE i = n + 1
    BY <1>1, <1>2, <1>3, <1>6, <2>1 DEF Opened
  <2>2. CASE i # n + 1
    <3>1. i \in 1 .. n
      BY <1>1, <1>2, <2>2
    <3>2. Typed("MESSAGE") # {} /\ n # 0
      BY <1>1, <1>2, <1>6, <3>1 DEF Typed
    <3>. QED BY <1>3, <3>2 DEF Opened
  <2>. QED BY <2>1, <2>2
<1>7. error_emitted' => Typed("ERROR")' # {}
  <2>1. CASE ev.type = "ERROR"
    BY <1>1, <1>2, <2>1 DEF Typed
  <2>2. CASE error_emitted
    <3>1. PICK i \in 1 .. n : events[i].type = "ERROR"
      BY <2>2 DEF Opened, Typed
    <3>2. i \in 1 .. Len(events') /\ events'[i].type = "ERROR"
      BY <1>1, <1>2, <3>1
    <3>. QED BY <3>2 DEF Typed
  <2>. QED BY <2>1, <2>2
<1>8. close_emitted' => error_emitted' \/ events'[1].type = "OPEN"
  BY <1>1, <1>2, <1>3 DEF Opened
<1>. QED BY <1>4, <1>5, <1>6, <1>7, <1>8 DEF Opened, Typed

\* With memory for it, an event is appended.
LEMMA Enqueued ==
    ASSUME ~AllocMayFail, NEW ev, ws_enqueue_locked(ev)
    PROVE  events' = Append(events, ev)
  BY DEF ws_enqueue_locked, LinkEvent

\* Every step keeps it.
LEMMA OpenedStep ==
    ASSUME TypeOK, Control, EventsEmitted, Opened, [Next]_vars
    PROVE  Opened'
<1>. SUFFICES ASSUME ~AllocMayFail PROVE Opened'
  BY DEF Opened
<1>a. EmitPhase /\ FdOwned
  BY DEF Control
<1>b. \A t, code, msg : Event(t, code, msg).type = t
  BY DEF Event
<1>1. CASE /\ UNCHANGED <<events, sockfd, close_emitted, error_emitted>>
           /\ wpc' = "report" => wpc \in {"echo", "report"}
  <2>1. wpc' = "report" => error_emitted' \/ sockfd' = "FD"
    BY <1>a, <1>1 DEF Opened, FdOwned, Connecting
  <2>. QED BY <1>1, <2>1 DEF Opened, Typed
<1>2. CASE WorkerPublish
  <2>. DEFINE ev == Event("OPEN", 0, NoMessage)
  <2>1. /\ ws_enqueue_locked(ev) /\ wpc = "publish" /\ UNCHANGED <<close_emitted, error_emitted>>
        /\ wpc' # "report"
    BY <1>2 DEF WorkerPublish, emits
  <2>2. events = <<>> /\ ~close_emitted
    BY <1>a, <2>1 DEF EventsEmitted, Connecting, EmitPhase
  <2>3. ev.type = "OPEN"
    BY <1>b
  <2>. HIDE DEF ev
  <2>. QED BY <2>1, <2>2, <2>3, Enqueued, OpenedAppend
<1>3. CASE WorkerMessage
  <2>. DEFINE ev == Event("MESSAGE", 0, [text |-> frag_text, body |-> frag])
  <2>1. /\ ws_enqueue_locked(ev) /\ wpc = "message" /\ wpc' # "report"
        /\ UNCHANGED <<close_emitted, error_emitted, sockfd>>
    BY <1>3 DEF WorkerMessage, emits, sock
  <2>2. sockfd = "FD" /\ ~close_emitted
    BY <1>a, <2>1 DEF FdOwned, Connecting, EmitPhase
  <2>3. ev.type = "MESSAGE"
    BY <1>b
  <2>. HIDE DEF ev
  <2>. QED BY <2>1, <2>2, <2>3, Enqueued, OpenedAppend
<1>4. CASE WorkerFail
  <2>. DEFINE ev == Event("ERROR", 0, NoMessage)
  <2>1. wpc = "fail" /\ UNCHANGED <<close_emitted, sockfd>>
    BY <1>4 DEF WorkerFail, sock
  <2>2. ~error_emitted /\ ~close_emitted
    BY <1>a, <2>1 DEF EmitPhase
  <2>3. ws_enqueue_locked(ev) /\ error_emitted'
    BY <1>4, <2>2 DEF WorkerFail, ws_enqueue_error_locked
  <2>4. ev.type = "ERROR"
    BY <1>b
  <2>. HIDE DEF ev
  <2>. QED BY <2>1, <2>2, <2>3, <2>4, Enqueued, OpenedAppend
<1>5. ASSUME NEW code, ws_enqueue_locked(Event("CLOSE", code, NoMessage)),
             sockfd' = "FD" => sockfd = "FD", wpc' # "report",
             error_emitted' = error_emitted, error_emitted \/ sockfd = "FD"
      PROVE  Opened'
  BY <1>b, <1>5, Enqueued, OpenedAppend
<1>6. CASE WorkerReport \/ WorkerEof \/ WorkerExit
  <2>1. /\ sockfd' = "FD" => sockfd = "FD"
        /\ wpc' # "report" /\ error_emitted' = error_emitted
    BY <1>6 DEF WorkerReport, WorkerEof, WorkerExit
  <2>2. CASE close_emitted
    <3>1. UNCHANGED <<events, close_emitted>>
      BY <1>6, <2>2 DEF WorkerReport, WorkerEof, WorkerExit, ws_enqueue_close_locked, qvars
    <3>. QED BY <2>1, <3>1 DEF Opened, Typed
  <2>3. CASE ~close_emitted
    <3>1. error_emitted \/ sockfd = "FD"
      BY <1>a, <1>6 DEF WorkerReport, WorkerEof, WorkerExit, Opened, FdOwned, Connecting, EmitPhase
    <3>. QED
      BY <1>5, <1>6, <2>1, <2>3, <3>1
         DEF WorkerReport, WorkerEof, WorkerExit, ws_enqueue_close_locked
  <2>. QED BY <2>2, <2>3
<1>. QED BY <1>1, <1>2, <1>3, <1>4, <1>6, Reporters DEF Reporter

-----------------------------------------------------------------------------
(* The code that on_close reports.                                         *)

\* The worker is at one of the places behind a CLOSE frame only when the peer
\* has sent one; what it will report after an error is 1006.
ClosePhase ==
    /\ \A i \in 1 .. Len(inbox) : inbox[i].op = "CLOSE" => peer_closed
    /\ wpc \in {"peek", "closing", "echo"} => peer_closed
    /\ wpc = "report" => cc = ABNORMAL \/ (peer_closed /\ ~error_emitted)
    /\ CloseCodeHonest

\* Requests and the peer's CLOSE are not taken back.
LEMMA Asked ==
    ASSUME [Next]_vars
    PROVE  (close_requested => close_requested') /\ (peer_closed => peer_closed')
<1>. USE DEF flags, net, peervars, peersent
<1>1. CASE UNCHANGED vars
  BY <1>1 DEF vars
<1>2. CASE \/ WorkerResolve \/ WorkerConnect \/ WorkerHandshake \/ WorkerCheck
           \/ WorkerSelect \/ WorkerSelectFails \/ WorkerRecvEnds \/ WorkerRecvCut
           \/ WorkerCloseFd
  BY <1>2 DEF WorkerResolve, WorkerConnect, WorkerHandshake, WorkerCheck, WorkerSelect,
              WorkerSelectFails, WorkerRecvEnds, WorkerRecvCut, WorkerCloseFd, WorkerGoto,
              WorkerGotoFd
<1>3. CASE \/ WorkerInterrupted \/ WorkerRecvFrame \/ WorkerPeek \/ WorkerSent
           \/ WorkerPong \/ WorkerEcho \/ Reporter
  BY <1>3 DEF WorkerInterrupted, WorkerRecvFrame, WorkerPeek, WorkerSent, WorkerPong,
              WorkerEcho, WorkerSends, Reporter, WorkerPublish, WorkerMessage, WorkerFail,
              WorkerReport, WorkerEof, WorkerExit
<1>4. CASE \/ Create \/ PollEvent \/ PollReturns \/ AppSent \/ Destroy \/ Send
           \/ DestroyStop \/ DestroyJoin \/ DestroyFree \/ CloseStore
  BY <1>4 DEF Create, PollEvent, PollReturns, AppSent, Destroy, Send, DestroyStop,
              DestroyJoin, DestroyFree, CloseStore, CloseLock, AppGoto
<1>5. CASE \E code \in CloseCodes : Close(code)
  BY <1>5 DEF Close, CloseLock
<1>6. CASE SendPiece \/ SendFails \/ SendNoMemory
  BY <1>6 DEF SendPiece, SendFails, SendNoMemory
<1>7. CASE PeerReads \/ Peer
  <2>1. close_requested' = close_requested
    BY <1>7, Zenon DEF PeerReads, Peer, PeerData, PeerControl, PeerClose, PeerEnds,
                       PeerSends, PeerStep
  <2>2. peer_closed => peer_closed'
    BY <1>7 DEF PeerReads, Peer, PeerData, PeerControl, PeerClose, PeerEnds
  <2>. QED BY <2>1, <2>2
<1>. QED
  BY <1>1, <1>2, <1>3, <1>4, <1>5, <1>6, <1>7
     DEF Next, Worker, WorkerTrouble, AppCalls, AppReturns, Socket, Terminated, Reporter

\* What a step does on the way to a close: the frames still to read, the place
\* of the worker and its code.
CloseStep ==
    /\ \A i \in 1 .. Len(inbox') :
         inbox'[i].op = "CLOSE" =>
             peer_closed' \/ \E j \in 1 .. Len(inbox) : inbox[j].op = "CLOSE"
    /\ wpc' \in {"peek", "closing", "echo"} =>
         \/ wpc \in {"peek", "closing", "echo"}
         \/ \E j \in 1 .. Len(inbox) : inbox[j].op = "CLOSE"
    /\ wpc' = "report" =>
         \/ cc' = ABNORMAL
         \/ wpc = "echo" /\ UNCHANGED error_emitted
         \/ wpc = "report" /\ UNCHANGED <<cc, error_emitted>>

\* Every step is such a step.
LEMMA CloseSteps ==
    ASSUME TypeOK, [Next]_vars
    PROVE  CloseStep
<1>. USE DEF CloseStep, wlocal, net, peervars, peersent, emits
<1>a. inbox \in Seq(PeerFrame) /\ Len(inbox) \in Nat
  BY LenProperties DEF TypeOK, NetTypeOK
<1>1. CASE UNCHANGED vars
  BY <1>1 DEF vars
<1>2. CASE \/ WorkerResolve \/ WorkerConnect \/ WorkerHandshake \/ WorkerCheck
           \/ WorkerSelect \/ WorkerSelectFails \/ WorkerRecvEnds \/ WorkerRecvCut
           \/ WorkerCloseFd
  BY <1>2 DEF WorkerResolve, WorkerConnect, WorkerHandshake, WorkerCheck, WorkerSelect,
              WorkerSelectFails, WorkerRecvEnds, WorkerRecvCut, WorkerCloseFd, WorkerGoto,
              WorkerGotoFd
<1>3. CASE \/ WorkerInterrupted \/ WorkerPeek \/ WorkerSent \/ WorkerPong \/ WorkerEcho
           \/ Reporter
  BY <1>3 DEF WorkerInterrupted, WorkerPeek, WorkerSent, WorkerPong, WorkerEcho,
              WorkerSends, Reporter, WorkerPublish, WorkerMessage, WorkerFail,
              WorkerReport, WorkerEof, WorkerExit
<1>4. CASE WorkerRecvFrame
  <2>1. /\ inbox # <<>> /\ inbox' = Tail(inbox) /\ wpc' # "report" /\ wpc' # "echo"
        /\ wpc' \in {"peek", "closing"} => Head(inbox).op = "CLOSE"
    BY <1>4 DEF WorkerRecvFrame
  <2>2. /\ Len(inbox') = Len(inbox) - 1 /\ 1 \in 1 .. Len(inbox) /\ Head(inbox) = inbox[1]
        /\ \A i \in 1 .. Len(inbox') : inbox'[i] = inbox[i + 1] /\ i + 1 \in 1 .. Len(inbox)
    BY <1>a, <2>1
  <2>. QED BY <2>1, <2>2
<1>5. CASE \/ Create \/ PollEvent \/ PollReturns \/ AppSent \/ Destroy \/ Send
           \/ DestroyStop \/ DestroyJoin \/ DestroyFree \/ CloseStore
  BY <1>5 DEF Create, PollEvent, PollReturns, AppSent, Destroy, Send, DestroyStop,
              DestroyJoin, DestroyFree, CloseStore, CloseLock, AppGoto
<1>6. CASE \E code \in CloseCodes : Close(code)
  BY <1>6 DEF Close, CloseLock
<1>7. CASE SendPiece \/ SendFails \/ SendNoMemory
  BY <1>7 DEF SendPiece, SendFails, SendNoMemory
<1>8. CASE PeerReads \/ PeerEnds
  BY <1>8 DEF PeerReads, PeerEnds, PeerStep
<1>9. ASSUME NEW op, NEW fin, NEW part, NEW code, PeerSends(op, fin, part, code),
             op = "CLOSE" => peer_closed'
      PROVE  CloseStep
  <2>. DEFINE f == [op |-> op, fin |-> fin, part |-> part, code |-> code]
  <2>1. UNCHANGED <<wpc, cc, error_emitted>> /\ inbox' = Append(inbox, f)
    BY <1>9 DEF PeerSends, PeerStep
  <2>2. f.op = op
    OBVIOUS
  <2>. HIDE DEF f
  <2>3. /\ Len(inbox') = Len(inbox) + 1 /\ inbox'[Len(inbox) + 1] = f
        /\ \A i \in 1 .. Len(inbox) : inbox'[i] = inbox[i]
    BY <1>a, <2>1
  <2>. QED BY <1>a, <1>9, <2>1, <2>2, <2>3
<1>10. CASE \E op \in {"TEXT", "BINARY", "CONT"}, fin \in BOOLEAN : PeerData(op, fin)
  BY <1>9, <1>10 DEF PeerData
<1>11. CASE \E op \in {"PING", "IGNORED", "BIG", "CUT"} : PeerControl(op)
  BY <1>9, <1>11 DEF PeerControl
<1>12. CASE \E code \in PeerCodes \cup {NoCode} : PeerClose(code)
  BY <1>9, <1>12 DEF PeerClose
<1>. QED
  BY <1>1, <1>2, <1>3, <1>4, <1>5, <1>6, <1>7, <1>8, <1>10, <1>11, <1>12
     DEF Next, Worker, WorkerTrouble, AppCalls, AppReturns, Socket, Peer, Terminated,
         Reporter

\* Every step keeps the codes honest.
LEMMA ClosePhaseStep ==
    ASSUME TypeOK, Control, EventsEmitted, ClosePhase, [Next]_vars
    PROVE  ClosePhase'
<1>a. EmitPhase /\ CloseStep
      /\ (close_requested => close_requested') /\ (peer_closed => peer_closed')
  BY Asked, CloseSteps DEF Control
<1>b. Len(events) \in Nat /\ events \in Seq(EventRecord)
  BY LenProperties DEF TypeOK, QueueTypeOK, EventRecord
<1>1. \A i \in 1 .. Len(inbox') : inbox'[i].op = "CLOSE" => peer_closed'
  BY <1>a DEF CloseStep, ClosePhase
<1>2. wpc' \in {"peek", "closing", "echo"} => peer_closed'
  BY <1>a DEF CloseStep, ClosePhase
<1>3. wpc' = "report" => cc' = ABNORMAL \/ (peer_closed' /\ ~error_emitted')
  BY <1>a DEF CloseStep, ClosePhase, EmitPhase
<1>4. CloseCodeHonest'
  <2>1. CASE UNCHANGED <<events, error_emitted>>
    BY <1>a, <2>1 DEF ClosePhase, CloseCodeHonest, Typed
  <2>2. ASSUME NEW ev, ws_enqueue_locked(ev), ~close_emitted,
               ev.type = "CLOSE" =>
                   /\ error_emitted' => ev.code = ABNORMAL
                   /\ ev.code # ABNORMAL => close_requested \/ peer_closed
        PROVE  CloseCodeHonest'
    <3>0. \A i \in 1 .. Len(events) : events[i].type # "CLOSE"
      BY <2>2 DEF EventsEmitted
    <3>1. CASE events' = events
      BY <3>0, <3>1 DEF CloseCodeHonest, Typed
    <3>2. CASE events' = Append(events, ev)
      <4>1. /\ Len(events') = Len(events) + 1 /\ events'[Len(events) + 1] = ev
            /\ \A i \in 1 .. Len(events) : events'[i] = events[i]
        BY <1>b, <3>2
      <4>. QED BY <1>a, <1>b, <2>2, <3>0, <4>1 DEF CloseCodeHonest, Typed
    <3>. QED BY <2>2, <3>1, <3>2 DEF ws_enqueue_locked, LinkEvent, qvars
  <2>3. \A t, code, msg : Event(t, code, msg).type = t /\ Event(t, code, msg).code = code
    BY DEF Event
  <2>4. CASE WorkerPublish
    BY <1>a, <2>2, <2>3, <2>4 DEF WorkerPublish, EmitPhase
  <2>5. CASE WorkerMessage
    BY <1>a, <2>2, <2>3, <2>5 DEF WorkerMessage, EmitPhase
  <2>6. CASE WorkerFail
    <3>1. ~error_emitted /\ ~close_emitted
      BY <1>a, <2>6 DEF WorkerFail, EmitPhase
    <3>. QED BY <2>2, <2>3, <2>6, <3>1 DEF WorkerFail, ws_enqueue_error_locked
  <2>7. CASE (WorkerReport \/ WorkerEof \/ WorkerExit) /\ close_emitted
    <3>1. UNCHANGED <<events, error_emitted>>
      BY <2>7 DEF WorkerReport, WorkerEof, WorkerExit, ws_enqueue_close_locked, qvars
    <3>. QED BY <2>1, <3>1
  <2>8. CASE WorkerReport /\ ~close_emitted
    <3>1. /\ wpc = "report" /\ error_emitted' = error_emitted
          /\ ws_enqueue_locked(Event("CLOSE", cc, NoMessage))
      BY <2>8 DEF WorkerReport, ws_enqueue_close_locked
    <3>. QED BY <2>2, <2>3, <2>8, <3>1 DEF ClosePhase
  <2>9. CASE WorkerEof /\ ~close_emitted
    <3>. DEFINE code == IF close_requested THEN requested_close_code ELSE ABNORMAL
    <3>1. /\ wpc = "eof" /\ error_emitted' = error_emitted
          /\ ws_enqueue_locked(Event("CLOSE", code, NoMessage))
      BY <2>9 DEF WorkerEof, ws_enqueue_close_locked
    <3>2. ~error_emitted /\ (code # ABNORMAL => close_requested)
      BY <1>a, <3>1 DEF EmitPhase
    <3>. HIDE DEF code
    <3>. QED BY <2>2, <2>3, <2>9, <3>1, <3>2
  <2>10. CASE WorkerExit /\ ~close_emitted
    <3>1. ws_enqueue_locked(Event("CLOSE", ABNORMAL, NoMessage))
      BY <2>10 DEF WorkerExit
    <3>. QED BY <2>2, <2>3, <2>10, <3>1
  <2>. QED BY <2>1, <2>4, <2>5, <2>6, <2>7, <2>8, <2>9, <2>10, Reporters DEF Reporter
<1>. QED BY <1>1, <1>2, <1>3, <1>4 DEF ClosePhase

-----------------------------------------------------------------------------
(* The theorems.                                                           *)

\* All of it, with the invariant of WebSocketProofs.
WireIInv == IInv /\ Framing /\ EarlyClose /\ Opened /\ ClosePhase

\* Initially nothing has been sent or reported.
LEMMA WireIInvInit == Init => WireIInv
<1>. SUFFICES ASSUME Init PROVE WireIInv
  OBVIOUS
<1>1. /\ events = <<>> /\ wire = <<>> /\ pend = <<>> /\ inbox = <<>> /\ wpc = "none"
      /\ ~early /\ ~close_emitted /\ ~error_emitted /\ sockfd = "INVALID"
  BY Zenon DEF Init, QInit
<1>2. Framing /\ EarlyClose
  BY <1>1 DEF Framing, EarlyClose, WireFramed, Aligned, OpenHeader, EarlyCloseFirst
<1>3. Opened /\ ClosePhase
  BY <1>1 DEF Opened, ClosePhase, CloseCodeHonest, Typed
<1>. QED BY <1>2, <1>3, IInvInit DEF WireIInv

\* Every step keeps the invariant.
LEMMA WireIInvStep ==
    ASSUME WireIInv, [Next]_vars
    PROVE  WireIInv'
<1>. USE DEF WireIInv
<1>1. IInv'
  BY IInvStep
<1>2. TypeOK /\ Control /\ EventsEmitted /\ TypeOK'
  BY <1>1 DEF IInv
<1>3. Framing' /\ EarlyClose'
  BY <1>2, OnwardStep, WireSteps, WireInvStep
<1>4. Opened' /\ ClosePhase'
  BY <1>2, OpenedStep, ClosePhaseStep
<1>. QED BY <1>1, <1>3, <1>4

\* The invariant of this module holds in every reachable state.
THEOREM WireInvariant == Spec => []WireIInv
<1>. QED BY WireIInvInit, WireIInvStep, PTL DEF Spec

\* The peer is sent whole frames, whichever threads send, close and fail.
THEOREM FramesStayWhole == Spec => []WireFramed
<1>1. WireIInv => WireFramed
  BY DEF WireIInv, Framing, WireFramed
<1>. QED BY <1>1, WireInvariant, PTL

\* A close requested while connecting is the first thing the peer is sent.
THEOREM EarlyCloseIsFirst == Spec => []EarlyCloseFirst
<1>1. WireIInv => EarlyCloseFirst
  BY DEF WireIInv, EarlyClose
<1>. QED BY <1>1, WireInvariant, PTL

\* However the worker ends, its last event is CLOSE; messages, and an end without
\* an error, follow OPEN.
THEOREM EndIsReported == Spec => []EndReported
<1>1. WireIInv => EndReported
  <2>1. ASSUME WireIInv, ~AllocMayFail, Typed("CLOSE") # {}, Typed("ERROR") = {}
        PROVE  events[1].type = "OPEN"
    <3>1. close_emitted
      BY <2>1 DEF WireIInv, IInv, EventsEmitted, Typed
    <3>. QED BY <2>1, <3>1 DEF WireIInv, Opened
  <2>. QED BY <2>1 DEF WireIInv, IInv, Control, EmitPhase, Opened, EndReported
<1>. QED BY <1>1, WireInvariant, PTL

\* on_close reports 1006 after an error, and another code only when a close was
\* asked for by one side.
THEOREM CloseCodeIsHonest == Spec => []CloseCodeHonest
<1>1. WireIInv => CloseCodeHonest
  BY DEF WireIInv, ClosePhase
<1>. QED BY <1>1, WireInvariant, PTL

\* An event that fits is one WebSocketEvents allows next.
LEMMA ReportsAllowed ==
    ASSUME WireIInv, ~AllocMayFail, NEW ev \in EventRecord, LinkEvent(ev), Fits(ev)
    PROVE  Stream!Next
<1>. DEFINE n == Len(events)
            r == SubSeq(events', 1, n)
<1>1. n \in Nat /\ events \in Seq(EventRecord) /\ ev.type \in EventType
  BY LenProperties DEF WireIInv, IInv, TypeOK, QueueTypeOK, EventRecord
<1>2. events' = Append(events, ev) /\ delivered' = delivered
  BY DEF LinkEvent
<1>3. /\ events' \in Seq(EventRecord) /\ Len(events') = n + 1 /\ events'[n + 1] = ev
      /\ \A i \in 1 .. n : events'[i] = events[i]
  BY <1>1, <1>2, AppendProperties
<1>4. events = r
  <2>1. \A i \in 1 .. n : events'[i] \in EventRecord
    BY <1>1, <1>3, ElementOfSeq
  <2>2. /\ r \in Seq(EventRecord) /\ Len(r) = (IF 1 <= n THEN n - 1 + 1 ELSE 0)
        /\ \A i \in 1 .. n - 1 + 1 : r[i] = events'[1 + i - 1]
    BY <1>1, <1>3, <2>1, SubSeqProperties
  <2>3. Len(r) = n /\ \A i \in 1 .. n : events[i] = r[i]
    BY <1>1, <1>3, <2>2
  <2>. HIDE DEF r
  <2>. QED BY <1>1, <2>2, <2>3, SeqEqual
<1>5. Stream!Report(ev.type)
  BY <1>1, <1>2, <1>3, <1>4 DEF Stream!Report
<1>6. /\ ~error_emitted => ~Stream!OfType("ERROR")
      /\ ~close_emitted => ~Stream!Ended
  BY DEF WireIInv, IInv, EventsEmitted, Stream!OfType, Stream!Ended
<1>7. sockfd = "FD" => Stream!OfType("OPEN")
  <2>1. sockfd = "FD" => events # <<>> /\ events[1].type = "OPEN"
    BY DEF WireIInv, Opened
  <2>2. events # <<>> => 1 \in 1 .. Len(events)
    BY <1>1, EmptySeq
  <2>. QED BY <2>1, <2>2 DEF Stream!OfType
<1>. HIDE DEF r, n
<1>8. CASE ev.type = "OPEN"
  BY <1>5, <1>8 DEF Fits, Stream!Next, Stream!Opens
<1>9. CASE ev.type = "MESSAGE"
  BY <1>5, <1>6, <1>7, <1>9 DEF Fits, Stream!Next, Stream!Receives
<1>10. CASE ev.type = "ERROR"
  BY <1>5, <1>6, <1>10 DEF Fits, Stream!Next, Stream!Errs
<1>11. CASE ev.type = "CLOSE"
  BY <1>5, <1>6, <1>11 DEF Fits, Stream!Next, Stream!Closes
<1>. QED BY <1>1, <1>8, <1>9, <1>10, <1>11 DEF EventType

\* With memory for the events, the two threads and the linked list of a native
\* websocket_t implement WebSocketEvents: each callback comes in its order, and
\* websocket_poll hands the events over one by one.
THEOREM NativeImplementsEvents ==
    ASSUME ~AllocMayFail
    PROVE  Spec => StreamSpec
<1>1. Init => Stream!Init
  BY DEF Init, QInit, Stream!Init
<1>2. ASSUME WireIInv, [Next]_vars
      PROVE  [Stream!Next]_(Stream!vars)
  <2>. USE DEF Stream!vars
  <2>1. ListStep
    BY <1>2, ListSteps DEF WireIInv, IInv
  <2>2. CASE UNCHANGED qvars \/ DrainEvents
    BY <2>2 DEF qvars, DrainEvents
  <2>3. ASSUME NEW ev \in EventRecord, LinkEvent(ev), Fits(ev)
        PROVE  Stream!Next
    BY <1>2, <2>3, ReportsAllowed
  <2>4. CASE PopEvent
    <3>1. QueueTypeOK /\ QueueLinked /\ Len(delivered) \in Nat /\ Len(events) \in Nat
      BY <1>2, LenProperties DEF WireIInv, IInv, TypeOK, QueueTypeOK
    <3>2. Len(delivered) < Len(events)
      BY <2>4, <3>1 DEF PopEvent, QueueLinked
    <3>3. Len(delivered') = Len(delivered) + 1 /\ events' = events
      BY <2>4, <3>1 DEF PopEvent, QueueTypeOK
    <3>. QED BY <3>2, <3>3 DEF Stream!Next, Stream!Delivers
  <2>. QED BY <2>1, <2>2, <2>3, <2>4 DEF ListStep, Reported
<1>. QED BY <1>1, <1>2, WireInvariant, PTL DEF Spec, StreamSpec, Stream!Spec

-----------------------------------------------------------------------------
(* Where each frame on its way belongs.                                    *)

\* A place in the peer's output: so many messages completed, and so many parts
\* of the next one.
Place == [msg : Nat, at : Nat]

\* The n-th message of the peer, as far as it has been sent.
Sent(n, msgs, cur) == IF n <= Len(msgs) THEN msgs[n] ELSE cur

\* A data frame read at place p carries the part of message s that comes there.
Carries(f, p, s, whole) ==
    /\ p.at < Len(s.body) /\ f.part = s.body[p.at + 1]
    /\ f.op = "CONT" <=> p.at # 0
    /\ p.at = 0 => (s.text <=> f.op = "TEXT")
    /\ f.fin => whole /\ Len(s.body) = p.at + 1

\* The place after frame f.
Beyond(f, p) ==
    IF ~IsData(f) THEN p
    ELSE IF f.fin THEN [msg |-> p.msg + 1, at |-> 0]
    ELSE [msg |-> p.msg, at |-> p.at + 1]

\* g[i] is the place before the i-th frame of box; after the last one comes what
\* the peer has not sent yet.
Route(g, box, msgs, cur) ==
    /\ g \in Seq(Place) /\ Len(g) = Len(box) + 1
    /\ g[Len(g)] = [msg |-> Len(msgs), at |-> Len(cur.body)]
    /\ \A i \in 1 .. Len(g) : g[i].msg <= Len(msgs)
    /\ \A i \in 1 .. Len(box) :
         /\ IsData(box[i]) =>
              Carries(box[i], g[i], Sent(g[i].msg + 1, msgs, cur), g[i].msg < Len(msgs))
         /\ g[i + 1] = Beyond(box[i], g[i])

\* A receiver that holds the parts of message s before place p.
Holds(parts, text, p, s) ==
    /\ Len(parts) = p.at /\ p.at <= Len(s.body)
    /\ \A i \in 1 .. p.at : parts[i] = s.body[i]
    /\ p.at # 0 => (text <=> s.text)

\* The worker stands at place p: it has reported the messages before p and holds
\* the parts that precede p, or it is about to report the last message before p.
Stands(p) ==
    IF wpc = "message"
    THEN /\ p.msg # 0 /\ p.at = 0
         /\ Typed("MESSAGE") = 2 .. p.msg
         /\ frag = peer_msgs[p.msg].body
         /\ frag_text <=> peer_msgs[p.msg].text
    ELSE /\ Typed("MESSAGE") = 2 .. p.msg + 1
         /\ Holds(frag, frag_text, p, Sent(p.msg + 1, peer_msgs, peer_cur))

Reassembles ==
    \E g \in Seq(Place) : Route(g, inbox, peer_msgs, peer_cur) /\ Stands(g[1])

Messages == StrictPeer /\ ~AllocMayFail => Reassembles /\ MessagesIntact

-----------------------------------------------------------------------------
(* Lemmas about routes.                                                    *)

\* Every element of a route is a place.
LEMMA RoutePlaces ==
    ASSUME NEW g, NEW box \in Seq(PeerFrame), NEW msgs, NEW cur,
           Route(g, box, msgs, cur)
    PROVE  /\ Len(box) \in Nat /\ Len(g) = Len(box) + 1
           /\ \A i \in 1 .. Len(g) : g[i] \in Place
           /\ \A i \in 1 .. Len(box) : box[i] \in PeerFrame
<1>1. Len(box) \in Nat /\ g \in Seq(Place) /\ Len(g) = Len(box) + 1
  BY LenProperties DEF Route
<1>. QED BY <1>1, ElementOfSeq

\* The place after a frame is a place.
LEMMA BeyondTyped ==
    ASSUME NEW p \in Place, NEW f
    PROVE  Beyond(f, p) \in Place
  BY DEF Beyond, Place

\* Reading the first frame leaves the route of the others.
LEMMA RouteTail ==
    ASSUME NEW g, NEW box \in Seq(PeerFrame), box # <<>>, NEW msgs, NEW cur,
           Route(g, box, msgs, cur)
    PROVE  /\ Route(Tail(g), Tail(box), msgs, cur)
           /\ Tail(g)[1] = Beyond(box[1], g[1])
<1>1. /\ Len(box) \in Nat \ {0} /\ Len(g) = Len(box) + 1 /\ g \in Seq(Place)
      /\ g # <<>>
  BY RoutePlaces, EmptySeq DEF Route
<1>2. /\ Tail(box) \in Seq(PeerFrame) /\ Len(Tail(box)) = Len(box) - 1
      /\ \A i \in 1 .. Len(Tail(box)) : Tail(box)[i] = box[i + 1]
  BY <1>1, HeadTailProperties
<1>3. /\ Tail(g) \in Seq(Place) /\ Len(Tail(g)) = Len(g) - 1
      /\ \A i \in 1 .. Len(Tail(g)) : Tail(g)[i] = g[i + 1]
  BY <1>1, HeadTailProperties
<1>. DEFINE h == Tail(g)
            b == Tail(box)
<1>4. Len(h) = Len(b) + 1 /\ h[Len(h)] = g[Len(g)] /\ h[1] = g[2]
  BY <1>1, <1>2, <1>3
<1>. HIDE DEF h, b
<1>5. \A i \in 1 .. Len(h) : h[i].msg <= Len(msgs)
  <2>. TAKE i \in 1 .. Len(h)
  <2>1. i + 1 \in 1 .. Len(g) /\ h[i] = g[i + 1]
    BY <1>1, <1>3 DEF h
  <2>. QED BY <2>1 DEF Route
<1>6. ASSUME NEW i \in 1 .. Len(b)
      PROVE  /\ IsData(b[i]) =>
                  Carries(b[i], h[i], Sent(h[i].msg + 1, msgs, cur), h[i].msg < Len(msgs))
             /\ h[i + 1] = Beyond(b[i], h[i])
  <2>1. /\ i + 1 \in 1 .. Len(box) /\ b[i] = box[i + 1] /\ h[i] = g[i + 1]
        /\ h[i + 1] = g[(i + 1) + 1]
    BY <1>1, <1>2, <1>3 DEF h, b
  <2>. QED BY <2>1 DEF Route
<1>7. g[2] = Beyond(box[1], g[1])
  <2>1. 1 \in 1 .. Len(box)
    BY <1>1
  <2>. QED BY <2>1 DEF Route
<1>. QED BY <1>3, <1>4, <1>5, <1>6, <1>7 DEF Route, h, b

\* A frame that is no data frame goes to the place the peer is at.
LEMMA RouteOther ==
    ASSUME NEW g, NEW box \in Seq(PeerFrame), NEW msgs, NEW cur,
           Route(g, box, msgs, cur), NEW f \in PeerFrame, ~IsData(f)
    PROVE  LET h == Append(g, g[Len(g)]) IN
           Route(h, Append(box, f), msgs, cur) /\ h[1] = g[1]
<1>. DEFINE n == Len(box)
            last == g[n + 1]
            h == Append(g, last)
            b == Append(box, f)
<1>1. n \in Nat /\ Len(g) = n + 1 /\ g \in Seq(Place) /\ last \in Place
  BY RoutePlaces DEF Route
<1>2. /\ h \in Seq(Place) /\ Len(h) = n + 2 /\ h[n + 2] = last
      /\ \A i \in 1 .. n + 1 : h[i] = g[i]
  BY <1>1, AppendProperties
<1>3. /\ Len(b) = n + 1 /\ b[n + 1] = f /\ \A i \in 1 .. n : b[i] = box[i]
  BY <1>1
<1>. HIDE DEF h, b
<1>4. ASSUME NEW i \in 1 .. n + 1
      PROVE  /\ IsData(b[i]) =>
                  Carries(b[i], h[i], Sent(h[i].msg + 1, msgs, cur), h[i].msg < Len(msgs))
             /\ h[i + 1] = Beyond(b[i], h[i])
  <2>1. CASE i = n + 1
    BY <1>1, <1>2, <1>3, <2>1 DEF Beyond
  <2>2. CASE i # n + 1
    <3>1. i \in 1 .. n /\ b[i] = box[i] /\ h[i] = g[i] /\ h[i + 1] = g[i + 1]
      BY <1>1, <1>2, <1>3, <2>2
    <3>. QED BY <3>1 DEF Route
  <2>. QED BY <2>1, <2>2
<1>5. \A i \in 1 .. Len(h) : h[i].msg <= Len(msgs)
  BY <1>1, <1>2 DEF Route
<1>6. h[Len(h)] = [msg |-> Len(msgs), at |-> Len(cur.body)] /\ h[1] = g[1]
  BY <1>1, <1>2 DEF Route
<1>7. Len(h) = Len(b) + 1
  BY <1>1, <1>2, <1>3
<1>8. Route(h, b, msgs, cur)
  BY <1>2, <1>3, <1>4, <1>5, <1>6, <1>7 DEF Route
<1>. QED BY <1>1, <1>6, <1>8 DEF h, b

\* Message s has become r: the same, or with more parts at its end.
Longer(s, r) ==
    /\ Len(s.body) <= Len(r.body)
    /\ \A i \in 1 .. Len(s.body) : r.body[i] = s.body[i]
    /\ Len(s.body) # 0 => (r.text <=> s.text)

\* What the peer has sent after data frame f, when the message it belongs to is
\* then new.
Adds(f, new, msgs, cur, msgs2, cur2) ==
    /\ new.body = Append(cur.body, f.part)
    /\ f.op = "CONT" <=> Len(cur.body) # 0
    /\ f.op = "CONT" => (new.text <=> cur.text)
    /\ f.op # "CONT" => (new.text <=> f.op = "TEXT")
    /\ f.fin => msgs2 = Append(msgs, new) /\ cur2 = NoMessage
    /\ ~f.fin => msgs2 = msgs /\ cur2 = new

\* A data frame lengthens only the message that is not complete.
LEMMA SentLonger ==
    ASSUME NEW f \in PeerFrame, NEW new \in Message, NEW cur \in Message,
           NEW msgs \in Seq(Message), NEW msgs2, NEW cur2,
           Adds(f, new, msgs, cur, msgs2, cur2)
    PROVE  /\ msgs2 \in Seq(Message) /\ Len(msgs) \in Nat /\ Len(cur.body) \in Nat
           /\ Len(msgs2) = IF f.fin THEN Len(msgs) + 1 ELSE Len(msgs)
           /\ Len(cur2.body) = IF f.fin THEN 0 ELSE Len(cur.body) + 1
           /\ Len(new.body) = Len(cur.body) + 1 /\ new.body[Len(cur.body) + 1] = f.part
           /\ Sent(Len(msgs) + 1, msgs2, cur2) = new
           /\ \A n \in 1 .. Len(msgs) : msgs2[n] = msgs[n]
           /\ \A n \in 1 .. Len(msgs) + 1 :
                Longer(Sent(n, msgs, cur), Sent(n, msgs2, cur2))
<1>1. /\ Len(msgs) \in Nat /\ cur.body \in Seq(Nat) /\ Len(cur.body) \in Nat
      /\ f.part \in Nat /\ f.fin \in BOOLEAN
  BY LenProperties DEF Message, PeerFrame
<1>2. /\ Len(new.body) = Len(cur.body) + 1 /\ new.body[Len(cur.body) + 1] = f.part
      /\ \A i \in 1 .. Len(cur.body) : new.body[i] = cur.body[i]
  BY <1>1 DEF Adds
<1>3. Longer(cur, new)
  BY <1>1, <1>2 DEF Longer, Adds
<1>4. CASE f.fin
  <2>1. msgs2 = Append(msgs, new) /\ cur2 = NoMessage
    BY <1>4 DEF Adds
  <2>2. /\ msgs2 \in Seq(Message) /\ Len(msgs2) = Len(msgs) + 1
        /\ msgs2[Len(msgs) + 1] = new /\ \A n \in 1 .. Len(msgs) : msgs2[n] = msgs[n]
    BY <1>1, <2>1, AppendProperties
  <2>3. Len(cur2.body) = 0
    BY <2>1 DEF NoMessage
  <2>4. ASSUME NEW n \in 1 .. Len(msgs) + 1
        PROVE  Longer(Sent(n, msgs, cur), Sent(n, msgs2, cur2))
    <3>1. CASE n = Len(msgs) + 1
      BY <1>1, <1>3, <2>2, <3>1 DEF Sent
    <3>2. CASE n # Len(msgs) + 1
      <4>1. n \in 1 .. Len(msgs) /\ msgs[n] \in Message
        BY <1>1, <3>2, ElementOfSeq
      <4>2. Len(msgs[n].body) \in Nat
        BY <4>1, LenProperties DEF Message
      <4>3. Sent(n, msgs, cur) = msgs[n] /\ Sent(n, msgs2, cur2) = msgs[n]
        BY <1>1, <2>2, <4>1 DEF Sent
      <4>. QED BY <4>2, <4>3 DEF Longer
    <3>. QED BY <3>1, <3>2
  <2>. QED BY <1>1, <1>2, <1>4, <2>2, <2>3, <2>4 DEF Sent
<1>5. CASE ~f.fin
  <2>1. msgs2 = msgs /\ cur2 = new
    BY <1>5 DEF Adds
  <2>2. ASSUME NEW n \in 1 .. Len(msgs) + 1
        PROVE  Longer(Sent(n, msgs, cur), Sent(n, msgs2, cur2))
    <3>1. CASE n = Len(msgs) + 1
      BY <1>1, <1>3, <2>1, <3>1 DEF Sent
    <3>2. CASE n # Len(msgs) + 1
      <4>1. n \in 1 .. Len(msgs) /\ msgs[n] \in Message
        BY <1>1, <3>2, ElementOfSeq
      <4>2. Len(msgs[n].body) \in Nat
        BY <4>1, LenProperties DEF Message
      <4>3. Sent(n, msgs, cur) = msgs[n] /\ Sent(n, msgs2, cur2) = msgs[n]
        BY <1>1, <2>1, <4>1 DEF Sent
      <4>. QED BY <4>2, <4>3 DEF Longer
    <3>. QED BY <3>1, <3>2
  <2>. QED BY <1>1, <1>2, <1>5, <2>1, <2>2 DEF Sent
<1>. QED BY <1>1, <1>4, <1>5

\* The frames already on their way keep their places, and the new one has the
\* place the peer was at.
LEMMA RouteData ==
    ASSUME NEW g, NEW box \in Seq(PeerFrame), NEW msgs \in Seq(Message),
           NEW cur \in Message, Route(g, box, msgs, cur),
           NEW f \in PeerFrame, IsData(f), NEW new \in Message, NEW msgs2, NEW cur2,
           Adds(f, new, msgs, cur, msgs2, cur2)
    PROVE  LET h == Append(g, Beyond(f, g[Len(g)])) IN
           Route(h, Append(box, f), msgs2, cur2) /\ h[1] = g[1]
<1>. DEFINE n == Len(box)
            last == g[n + 1]
            end == Beyond(f, last)
            h == Append(g, end)
            b == Append(box, f)
            L == Len(msgs)
<1>0. /\ L \in Nat /\ Len(cur.body) \in Nat
      /\ Len(msgs2) = IF f.fin THEN L + 1 ELSE L
      /\ Len(cur2.body) = IF f.fin THEN 0 ELSE Len(cur.body) + 1
      /\ Len(new.body) = Len(cur.body) + 1 /\ new.body[Len(cur.body) + 1] = f.part
      /\ Sent(L + 1, msgs2, cur2) = new
      /\ \A m \in 1 .. L : msgs2[m] = msgs[m]
      /\ \A m \in 1 .. L + 1 : Longer(Sent(m, msgs, cur), Sent(m, msgs2, cur2))
  BY SentLonger
<1>1. n \in Nat /\ Len(g) = n + 1 /\ g \in Seq(Place) /\ last \in Place
  BY RoutePlaces DEF Route
<1>2. last = [msg |-> L, at |-> Len(cur.body)]
  BY <1>1 DEF Route
<1>3. end \in Place
  BY <1>1, BeyondTyped
<1>4. end = [msg |-> Len(msgs2), at |-> Len(cur2.body)]
  BY <1>0, <1>2 DEF Beyond
<1>. HIDE DEF end
<1>5. /\ h \in Seq(Place) /\ Len(h) = n + 2 /\ h[n + 2] = end
      /\ \A i \in 1 .. n + 1 : h[i] = g[i]
  BY <1>1, <1>3, AppendProperties
<1>6. /\ Len(b) = n + 1 /\ b[n + 1] = f /\ \A i \in 1 .. n : b[i] = box[i]
  BY <1>1
<1>. HIDE DEF h, b
<1>7. ASSUME NEW i \in 1 .. n + 1
      PROVE  /\ IsData(b[i]) =>
                  Carries(b[i], h[i], Sent(h[i].msg + 1, msgs2, cur2),
                          h[i].msg < Len(msgs2))
             /\ h[i + 1] = Beyond(b[i], h[i])
  <2>1. CASE i = n + 1
    <3>1. b[i] = f /\ h[i] = last /\ h[i + 1] = end
      BY <1>1, <1>5, <1>6, <2>1
    <3>2. last.msg = L /\ last.at = Len(cur.body)
      BY <1>2
    <3>3. Carries(f, last, new, L < Len(msgs2))
      BY <1>0, <3>2 DEF Carries, Adds
    <3>. QED BY <1>0, <3>1, <3>2, <3>3 DEF end
  <2>2. CASE i # n + 1
    <3>1. i \in 1 .. n /\ b[i] = box[i] /\ h[i] = g[i] /\ h[i + 1] = g[i + 1]
      BY <1>1, <1>5, <1>6, <2>2
    <3>2. g[i + 1] = Beyond(box[i], g[i])
      BY <3>1 DEF Route
    <3>3. ASSUME IsData(box[i])
          PROVE  Carries(box[i], g[i], Sent(g[i].msg + 1, msgs2, cur2),
                         g[i].msg < Len(msgs2))
      <4>. DEFINE q == g[i]
                  s == Sent(q.msg + 1, msgs, cur)
                  r == Sent(q.msg + 1, msgs2, cur2)
      <4>1. Carries(box[i], q, s, q.msg < L) /\ q.msg <= L
        BY <1>1, <3>1, <3>3 DEF Route
      <4>2. q.msg \in Nat /\ q.at \in Nat
        BY <1>1, <3>1, RoutePlaces DEF Place
      <4>3. Longer(s, r)
        BY <1>0, <4>1, <4>2
      <4>4. q.msg < L => s = r /\ q.msg < Len(msgs2)
        <5>. SUFFICES ASSUME q.msg < L PROVE s = r /\ q.msg < Len(msgs2)
          OBVIOUS
        <5>0. \A x, y \in Nat : x < y => x + 1 \in 1 .. y /\ x + 1 <= y
          OBVIOUS
        <5>1. q.msg + 1 \in 1 .. L /\ q.msg + 1 <= L
          BY <1>0, <4>2, <5>0
        <5>2. L <= Len(msgs2) /\ q.msg < Len(msgs2) /\ q.msg + 1 <= Len(msgs2)
          BY <1>0, <4>2
        <5>3. msgs2[q.msg + 1] = msgs[q.msg + 1]
          BY <1>0, <5>1
        <5>. QED BY <5>1, <5>2, <5>3 DEF Sent
      <4>5. Len(s.body) \in Nat /\ Len(r.body) \in Nat
        <5>1. s \in Message
          BY <1>0, <4>1, <4>2, ElementOfSeq DEF Sent
        <5>2. r \in Message
          <6>1. msgs2 \in Seq(Message) /\ cur2 \in Message
            <7>1. msgs2 \in Seq(Message)
              BY SentLonger
            <7>2. cur2 \in {NoMessage, new}
              BY DEF Adds
            <7>. QED BY <7>1, <7>2, NoMessageTyped
          <6>2. Len(msgs2) \in Nat
            BY <1>0
          <6>. QED BY <4>2, <6>1, <6>2, ElementOfSeq DEF Sent
        <5>. QED BY <5>1, <5>2, LenProperties DEF Message
      <4>. HIDE DEF q, s, r
      <4>6. q.at + 1 \in 1 .. Len(s.body)
        BY <4>1, <4>2, <4>5 DEF Carries
      <4>7. Carries(box[i], q, r, q.msg < Len(msgs2))
        <5>1. q.at < Len(r.body) /\ Len(s.body) # 0
          BY <4>2, <4>3, <4>5, <4>6 DEF Longer
        <5>2. r.body[q.at + 1] = s.body[q.at + 1] /\ (r.text <=> s.text)
          BY <4>3, <4>6, <5>1 DEF Longer
        <5>3. box[i].fin => q.msg < L
          BY <4>1 DEF Carries
        <5>4. box[i].fin => q.msg < Len(msgs2) /\ Len(r.body) = q.at + 1
          BY <4>1, <4>4, <5>3 DEF Carries
        <5>. QED BY <4>1, <5>1, <5>2, <5>4 DEF Carries
      <4>. QED BY <4>7 DEF q, r
    <3>. QED BY <3>1, <3>2, <3>3
  <2>. QED BY <2>1, <2>2
<1>8. \A i \in 1 .. Len(h) : h[i].msg <= Len(msgs2)
  <2>. TAKE i \in 1 .. Len(h)
  <2>1. CASE i = n + 2
    BY <1>0, <1>4, <1>5, <2>1
  <2>2. CASE i # n + 2
    <3>1. i \in 1 .. n + 1 /\ h[i] = g[i]
      BY <1>1, <1>5, <2>2
    <3>2. g[i].msg <= L /\ g[i].msg \in Nat
      BY <1>1, <3>1, RoutePlaces DEF Route, Place
    <3>. QED BY <1>0, <3>1, <3>2
  <2>. QED BY <2>1, <2>2
<1>9. h[Len(h)] = [msg |-> Len(msgs2), at |-> Len(cur2.body)] /\ h[1] = g[1]
  BY <1>1, <1>4, <1>5
<1>10. Len(h) = Len(b) + 1
  BY <1>1, <1>5, <1>6
<1>11. Route(h, b, msgs2, cur2)
  BY <1>5, <1>6, <1>7, <1>8, <1>9, <1>10 DEF Route
<1>. QED BY <1>1, <1>9, <1>11 DEF h, b, end
-----------------------------------------------------------------------------
(* What the steps do.                                                      *)

SameMessages ==
    /\ Typed("MESSAGE")' = Typed("MESSAGE")
    /\ \A i \in Typed("MESSAGE") : events'[i] = events[i]

\* A step that moves no frame and reports no message.
Still ==
    /\ UNCHANGED <<inbox, peer_msgs, peer_cur, frag, frag_text>>
    /\ wpc' = "message" <=> wpc = "message"
    /\ SameMessages

\* The peer sends a frame without data.
OtherFrame ==
    /\ \E f \in PeerFrame : ~IsData(f) /\ inbox' = Append(inbox, f)
    /\ UNCHANGED <<peer_msgs, peer_cur, frag, frag_text, wpc, events>>

DataFrame == \E op \in {"TEXT", "BINARY", "CONT"}, fin \in BOOLEAN : PeerData(op, fin)

\* Reporting something else changes no message.
LEMMA OtherEvent ==
    ASSUME TypeOK, NEW ev, ev.type # "MESSAGE", ws_enqueue_locked(ev)
    PROVE  SameMessages
<1>1. Len(events) \in Nat /\ events \in Seq(EventRecord)
  BY LenProperties DEF TypeOK, QueueTypeOK, EventRecord
<1>2. CASE events' = events
  BY <1>2 DEF SameMessages, Typed
<1>3. CASE events' = Append(events, ev)
  <2>1. /\ Len(events') = Len(events) + 1 /\ events'[Len(events) + 1] = ev
        /\ \A i \in 1 .. Len(events) : events'[i] = events[i]
    BY <1>1, <1>3
  <2>2. \A i : i \in Typed("MESSAGE")' <=> i \in Typed("MESSAGE")
    BY <1>1, <2>1 DEF Typed
  <2>. QED BY <2>1, <2>2 DEF SameMessages, Typed
<1>. QED BY <1>2, <1>3 DEF ws_enqueue_locked, LinkEvent, qvars

\* Every step is one of these.
LEMMA MessageSteps ==
    ASSUME TypeOK, AppPhase, [Next]_vars
    PROVE  Still \/ OtherFrame \/ DataFrame \/ WorkerRecvFrame \/ WorkerMessage
<1>. USE DEF Still, qvars, wlocal, net, peervars, peersent
<1>a. events' = events => SameMessages
  BY DEF SameMessages, Typed
<1>1. CASE UNCHANGED vars
  BY <1>a, <1>1 DEF vars
<1>2. CASE \/ WorkerResolve \/ WorkerConnect \/ WorkerHandshake \/ WorkerCheck
           \/ WorkerSelect \/ WorkerSelectFails \/ WorkerRecvEnds \/ WorkerRecvCut
           \/ WorkerCloseFd
  BY <1>a, <1>2 DEF WorkerResolve, WorkerConnect, WorkerHandshake, WorkerCheck,
              WorkerSelect, WorkerSelectFails, WorkerRecvEnds, WorkerRecvCut,
              WorkerCloseFd, WorkerGoto, WorkerGotoFd
<1>3. CASE \/ WorkerInterrupted \/ WorkerPeek \/ WorkerSent \/ WorkerPong \/ WorkerEcho
  BY <1>a, <1>3 DEF WorkerInterrupted, WorkerPeek, WorkerSent, WorkerPong, WorkerEcho,
                    WorkerSends
<1>4. CASE WorkerPublish \/ WorkerFail \/ WorkerReport \/ WorkerEof \/ WorkerExit
  <2>1. \A t, code, msg : Event(t, code, msg).type = t
    BY DEF Event
  <2>2. SameMessages
    <3>1. CASE WorkerPublish
      BY <2>1, <3>1, OtherEvent DEF WorkerPublish
    <3>2. CASE WorkerFail
      BY <1>a, <2>1, <3>2, OtherEvent DEF WorkerFail, ws_enqueue_error_locked
    <3>3. CASE WorkerReport \/ WorkerEof
      BY <1>a, <2>1, <3>3, OtherEvent DEF WorkerReport, WorkerEof, ws_enqueue_close_locked
    <3>4. CASE WorkerExit
      BY <1>a, <2>1, <3>4, OtherEvent DEF WorkerExit
    <3>. QED BY <1>4, <3>1, <3>2, <3>3, <3>4
  <2>3. UNCHANGED <<inbox, peer_msgs, peer_cur, frag, frag_text>>
    BY <1>4 DEF WorkerPublish, WorkerFail, WorkerReport, WorkerEof, WorkerExit
  <2>4. wpc # "message" /\ wpc' # "message"
    BY <1>4 DEF WorkerPublish, WorkerFail, WorkerReport, WorkerEof, WorkerExit
  <2>. QED BY <2>2, <2>3, <2>4
<1>5. CASE \/ Create \/ PollEvent \/ PollReturns \/ AppSent \/ Destroy \/ Send
           \/ DestroyStop \/ DestroyJoin \/ DestroyFree \/ CloseStore
  BY <1>a, <1>5 DEF Create, PollEvent, PopEvent, PollReturns, AppSent, Destroy, Send,
              DestroyStop, DestroyJoin, DestroyFree, DrainEvents, CloseStore, CloseLock,
              AppGoto, AppPhase
<1>6. CASE \E code \in CloseCodes : Close(code)
  BY <1>a, <1>6 DEF Close, CloseLock
<1>7. CASE SendPiece \/ SendFails \/ SendNoMemory
  BY <1>a, <1>7 DEF SendPiece, SendFails, SendNoMemory
<1>8. CASE PeerReads \/ PeerEnds
  BY <1>a, <1>8 DEF PeerReads, PeerEnds, PeerStep
<1>9. CASE \E op \in {"PING", "IGNORED", "BIG", "CUT"} : PeerControl(op)
  <2>1. PICK op \in {"PING", "IGNORED", "BIG", "CUT"} : PeerControl(op)
    BY <1>9
  <2>. DEFINE f == [op |-> op, fin |-> TRUE, part |-> 0, code |-> 0]
  <2>2. f \in PeerFrame /\ ~IsData(f)
    BY DEF PeerFrame, IsData
  <2>3. inbox' = Append(inbox, f)
    BY <2>1 DEF PeerControl, PeerSends
  <2>4. UNCHANGED <<peer_msgs, peer_cur, frag, frag_text, wpc, events>>
    BY <2>1 DEF PeerControl, PeerSends, PeerStep
  <2>. QED BY <2>2, <2>3, <2>4 DEF OtherFrame
<1>10. CASE \E code \in PeerCodes \cup {NoCode} : PeerClose(code)
  <2>1. PICK code \in PeerCodes \cup {NoCode} : PeerClose(code)
    BY <1>10
  <2>. DEFINE f == [op |-> "CLOSE", fin |-> TRUE, part |-> 0, code |-> code]
  <2>2. f \in PeerFrame /\ ~IsData(f)
    BY WebSocketAssumption DEF PeerFrame, IsData, NoCode
  <2>3. inbox' = Append(inbox, f)
    BY <2>1 DEF PeerClose, PeerSends
  <2>4. UNCHANGED <<peer_msgs, peer_cur, frag, frag_text, wpc, events>>
    BY <2>1 DEF PeerClose, PeerSends, PeerStep
  <2>. QED BY <2>2, <2>3, <2>4 DEF OtherFrame
<1>. QED
  BY <1>1, <1>2, <1>3, <1>4, <1>5, <1>6, <1>7, <1>8, <1>9, <1>10
     DEF Next, Worker, WorkerTrouble, AppCalls, AppReturns, Socket, Peer, Terminated,
         DataFrame

\* Types of what the messages are made of.
LEMMA MessageTypes ==
    ASSUME TypeOK
    PROVE  /\ inbox \in Seq(PeerFrame) /\ peer_cur \in Message
           /\ peer_msgs \in Seq(Message) /\ Len(peer_msgs) \in Nat
           /\ frag \in Seq(Nat) /\ Len(frag) \in Nat /\ frag_text \in BOOLEAN
           /\ Len(events) \in Nat /\ events \in Seq(EventRecord)
           /\ \A n \in Nat \ {0} :
                LET s == Sent(n, peer_msgs, peer_cur) IN
                s \in Message /\ Len(s.body) \in Nat /\ s.body \in Seq(Nat)
<1>1. /\ inbox \in Seq(PeerFrame) /\ peer_cur \in Message
      /\ peer_msgs \in Seq(Message) /\ Len(peer_msgs) \in Nat
      /\ frag \in Seq(Nat) /\ Len(frag) \in Nat /\ frag_text \in BOOLEAN
      /\ Len(events) \in Nat /\ events \in Seq(EventRecord)
  BY LenProperties DEF TypeOK, NetTypeOK, ThreadTypeOK, QueueTypeOK, EventRecord
<1>2. ASSUME NEW n \in Nat \ {0}
      PROVE  LET s == Sent(n, peer_msgs, peer_cur) IN
             s \in Message /\ Len(s.body) \in Nat /\ s.body \in Seq(Nat)
  <2>. DEFINE s == Sent(n, peer_msgs, peer_cur)
  <2>1. s \in Message
    BY <1>1, ElementOfSeq DEF Sent
  <2>. QED BY <2>1, LenProperties DEF Message
<1>. QED BY <1>1, <1>2

\* The frames without data, and the steps that move none.
LEMMA StillKeeps ==
    ASSUME TypeOK, Reassembles, MessagesIntact, StrictPeer, ~AllocMayFail,
           Still \/ OtherFrame
    PROVE  Reassembles' /\ MessagesIntact'
<1>1. PICK g \in Seq(Place) : Route(g, inbox, peer_msgs, peer_cur) /\ Stands(g[1])
  BY DEF Reassembles
<1>2. CASE Still
  <2>1. Route(g, inbox', peer_msgs', peer_cur')
    BY <1>1, <1>2 DEF Still
  <2>2. Stands(g[1])'
    BY <1>1, <1>2 DEF Still, SameMessages, Stands
  <2>3. MessagesIntact'
    BY <1>2 DEF Still, SameMessages, MessagesIntact
  <2>. QED BY <2>1, <2>2, <2>3 DEF Reassembles
<1>3. CASE OtherFrame
  <2>1. PICK f \in PeerFrame : ~IsData(f) /\ inbox' = Append(inbox, f)
    BY <1>3 DEF OtherFrame
  <2>. DEFINE h == Append(g, g[Len(g)])
  <2>2. Route(h, inbox', peer_msgs, peer_cur) /\ h[1] = g[1]
    BY <1>1, <2>1, RouteOther, MessageTypes
  <2>3. h \in Seq(Place)
    BY <2>2 DEF Route
  <2>4. UNCHANGED <<peer_msgs, peer_cur, frag, frag_text, wpc, events>>
    BY <1>3 DEF OtherFrame
  <2>. HIDE DEF h
  <2>5. Stands(h[1])'
    BY <1>1, <2>2, <2>4 DEF Stands, Typed
  <2>6. MessagesIntact'
    BY <2>4 DEF MessagesIntact, Typed
  <2>. QED BY <2>2, <2>3, <2>4, <2>5, <2>6 DEF Reassembles
<1>. QED BY <1>2, <1>3

\* The peer sends a part of a message.
LEMMA DataKeeps ==
    ASSUME TypeOK, Reassembles, MessagesIntact, StrictPeer, ~AllocMayFail, DataFrame
    PROVE  Reassembles' /\ MessagesIntact'
<1>1. PICK g \in Seq(Place) : Route(g, inbox, peer_msgs, peer_cur) /\ Stands(g[1])
  BY DEF Reassembles
<1>2. PICK op \in {"TEXT", "BINARY", "CONT"}, fin \in BOOLEAN : PeerData(op, fin)
  BY DEF DataFrame
<1>. DEFINE part == nframes + 1
            f == [op |-> op, fin |-> fin, part |-> part, code |-> 0]
            new == [text |-> IF op = "CONT" THEN peer_cur.text ELSE op = "TEXT",
                    body |-> Append(IF op = "CONT" THEN peer_cur.body ELSE <<>>, part)]
<1>3. /\ peer_cur.body \in Seq(Nat) /\ Len(peer_cur.body) \in Nat
      /\ peer_cur.text \in BOOLEAN /\ part \in Nat /\ nframes \in Nat
  BY MessageTypes, LenProperties, WebSocketAssumption DEF TypeOK, NetTypeOK, Message
<1>4. /\ op = "CONT" <=> peer_cur.body # <<>>
      /\ inbox' = Append(inbox, f)
      /\ UNCHANGED <<frag, frag_text, wpc, events>>
      /\ peer_cur' = IF fin THEN NoMessage ELSE new
      /\ peer_msgs' = IF fin THEN Append(peer_msgs, new) ELSE peer_msgs
  BY <1>2 DEF PeerData, PeerSends, PeerStep, wlocal, qvars
<1>5. f \in PeerFrame /\ IsData(f) /\ f.part = part /\ f.op = op /\ (f.fin <=> fin)
  BY <1>3 DEF PeerFrame, IsData
<1>6. new.body = Append(peer_cur.body, part)
  BY <1>3, <1>4
<1>7. (op = "CONT" => new.text = peer_cur.text) /\ (op # "CONT" => new.text = (op = "TEXT"))
  OBVIOUS
<1>8. new \in Message
  <2>. DEFINE text == IF op = "CONT" THEN peer_cur.text ELSE op = "TEXT"
              body == Append(IF op = "CONT" THEN peer_cur.body ELSE <<>>, part)
  <2>1. text \in BOOLEAN
    BY <1>3, Zenon
  <2>2. body \in Seq(Nat)
    BY <1>3
  <2>. HIDE DEF text, body
  <2>3. [text |-> text, body |-> body] \in Message
    BY <2>1, <2>2 DEF Message
  <2>. QED BY <2>3 DEF text, body
<1>. HIDE DEF new, f
<1>9. Adds(f, new, peer_msgs, peer_cur, peer_msgs', peer_cur')
  <2>1. (op = "CONT" => (new.text <=> peer_cur.text))
          /\ (op # "CONT" => (new.text <=> op = "TEXT"))
    BY <1>7, Zenon
  <2>2. op = "CONT" <=> Len(peer_cur.body) # 0
    BY <1>3, <1>4, EmptySeq
  <2>. QED BY <1>4, <1>5, <1>6, <2>1, <2>2 DEF Adds
<1>10. PICK h \in Seq(Place) : Route(h, inbox', peer_msgs', peer_cur') /\ h[1] = g[1]
  <2>. DEFINE k == Append(g, Beyond(f, g[Len(g)]))
  <2>1. Route(k, inbox', peer_msgs', peer_cur') /\ k[1] = g[1]
    BY <1>1, <1>4, <1>5, <1>8, <1>9, RouteData, MessageTypes
  <2>2. k \in Seq(Place)
    BY <2>1 DEF Route
  <2>. QED BY <2>1, <2>2
<1>11. /\ Len(peer_msgs) \in Nat /\ Len(peer_msgs') >= Len(peer_msgs)
       /\ \A n \in 1 .. Len(peer_msgs) : peer_msgs'[n] = peer_msgs[n]
       /\ \A n \in 1 .. Len(peer_msgs) + 1 :
            Longer(Sent(n, peer_msgs, peer_cur), Sent(n, peer_msgs', peer_cur'))
  BY <1>5, <1>8, <1>9, SentLonger, MessageTypes
<1>13. Stands(h[1])'
  <2>. DEFINE p == g[1]
              s == Sent(p.msg + 1, peer_msgs, peer_cur)
              r == Sent(p.msg + 1, peer_msgs', peer_cur')
  <2>1. p \in Place /\ p.msg \in Nat /\ p.at \in Nat /\ p.msg <= Len(peer_msgs)
    <3>1. 1 \in 1 .. Len(g)
      BY <1>1, RoutePlaces, MessageTypes
    <3>. QED BY <1>1, <3>1, RoutePlaces, MessageTypes DEF Route, Place
  <2>2. CASE wpc = "message"
    <3>1. p.msg \in 1 .. Len(peer_msgs)
      BY <1>1, <1>11, <2>1, <2>2 DEF Stands
    <3>. QED BY <1>1, <1>4, <1>10, <1>11, <2>2, <3>1 DEF Stands, Typed
  <2>3. CASE wpc # "message"
    <3>1. Typed("MESSAGE") = 2 .. p.msg + 1 /\ Holds(frag, frag_text, p, s)
      BY <1>1, <2>3 DEF Stands
    <3>2. Longer(s, r)
      BY <1>11, <2>1
    <3>3. Len(s.body) \in Nat
      BY <2>1, MessageTypes
    <3>. HIDE DEF s, r
    <3>4. Holds(frag, frag_text, p, r)
      <4>1. Len(frag) = p.at /\ p.at <= Len(s.body) /\ Len(s.body) <= Len(r.body)
        BY <3>1, <3>2 DEF Holds, Longer
      <4>2. p.at <= Len(r.body)
        <5>1. Len(r.body) \in Int
          <6>1. new.body \in Seq(Nat) /\ NoMessage.body \in Seq(Nat)
            BY <1>8, NoMessageTyped DEF Message
          <6>2. peer_cur' \in {new, NoMessage}
            BY <1>4
          <6>3. peer_msgs' \in Seq(Message) /\ Len(peer_msgs') \in Nat
            BY <1>5, <1>8, <1>9, SentLonger, MessageTypes, LenProperties
          <6>4. r \in Message
            BY <1>8, <2>1, <6>2, <6>3, NoMessageTyped, ElementOfSeq DEF Sent, r
          <6>. QED BY <6>4, LenProperties DEF Message
        <5>. QED BY <2>1, <3>3, <4>1, <5>1
      <4>. QED BY <2>1, <3>1, <3>2, <3>3, <4>1, <4>2 DEF Holds, Longer
    <3>. QED BY <1>4, <1>10, <2>3, <3>1, <3>4 DEF Stands, Typed, r
  <2>. QED BY <2>2, <2>3
<1>14. MessagesIntact'
  BY <1>4, <1>11 DEF MessagesIntact, Typed
<1>. QED BY <1>10, <1>13, <1>14 DEF Reassembles

\* The worker reads a frame: it moves to the next place, with the frame's part.
LEMMA RecvKeeps ==
    ASSUME TypeOK, Reassembles, MessagesIntact, StrictPeer, ~AllocMayFail, WorkerRecvFrame
    PROVE  Reassembles' /\ MessagesIntact'
<1>1. PICK g \in Seq(Place) : Route(g, inbox, peer_msgs, peer_cur) /\ Stands(g[1])
  BY DEF Reassembles
<1>. DEFINE p == g[1]
<1>2. PICK f : f = Head(inbox)
  OBVIOUS
<1>3. /\ wpc = "recv" /\ inbox # <<>> /\ inbox' = Tail(inbox)
      /\ UNCHANGED <<events, peer_msgs, peer_cur>>
  BY DEF WorkerRecvFrame, qvars, peersent
<1>4. /\ 1 \in 1 .. Len(inbox) /\ f = inbox[1] /\ f \in PeerFrame
  BY <1>2, <1>3, MessageTypes, EmptySeq, HeadTailProperties, ElementOfSeq, LenProperties
<1>5. PICK h \in Seq(Place) :
        Route(h, inbox', peer_msgs', peer_cur') /\ h[1] = Beyond(f, p)
  <2>1. Route(Tail(g), inbox', peer_msgs', peer_cur') /\ Tail(g)[1] = Beyond(f, p)
    BY <1>1, <1>3, <1>4, RouteTail, MessageTypes
  <2>2. Tail(g) \in Seq(Place)
    BY <2>1 DEF Route
  <2>. QED BY <2>1, <2>2
<1>6. /\ p \in Place /\ p.msg \in Nat /\ p.at \in Nat /\ p.msg <= Len(peer_msgs)
  <2>1. 1 \in 1 .. Len(g)
    BY <1>1, RoutePlaces, MessageTypes
  <2>. QED BY <1>1, <2>1, RoutePlaces, MessageTypes DEF Route, Place
<1>. HIDE DEF p
<1>7. MessagesIntact' /\ Typed("MESSAGE")' = Typed("MESSAGE")
  BY <1>3 DEF MessagesIntact, Typed
<1>8. PICK s : s = Sent(p.msg + 1, peer_msgs, peer_cur)
  OBVIOUS
<1>9. Typed("MESSAGE") = 2 .. p.msg + 1 /\ Holds(frag, frag_text, p, s)
  BY <1>1, <1>3, <1>8 DEF Stands, p
<1>10. Len(s.body) \in Nat /\ s.body \in Seq(Nat) /\ s.text \in BOOLEAN
  BY <1>6, <1>8, MessageTypes DEF Message
<1>11. CASE ~IsData(f)
  <2>1. UNCHANGED <<frag, frag_text>> /\ wpc' # "message"
    BY <1>2, <1>11 DEF WorkerRecvFrame, wlocal
  <2>2. h[1] = p
    BY <1>5, <1>11 DEF Beyond
  <2>3. Stands(p)'
    BY <1>3, <1>7, <1>8, <1>9, <2>1 DEF Stands
  <2>. QED BY <1>5, <1>7, <2>2, <2>3 DEF Reassembles
<1>12. CASE IsData(f)
  <2>1. /\ p.at < Len(s.body) /\ f.part = s.body[p.at + 1]
        /\ f.op = "CONT" <=> p.at # 0
        /\ p.at = 0 => (s.text <=> f.op = "TEXT")
        /\ f.fin => p.msg < Len(peer_msgs) /\ Len(s.body) = p.at + 1
    BY <1>1, <1>4, <1>8, <1>12 DEF Route, Carries, p
  <2>2. /\ frag' = Append(IF f.op = "CONT" THEN frag ELSE <<>>, f.part)
        /\ wpc' = IF f.fin THEN "message" ELSE "top"
    BY <1>2, <1>12 DEF WorkerRecvFrame, IsData, AddFragment
  <2>3. frag_text' = IF f.op = "CONT" THEN frag_text ELSE f.op = "TEXT"
    BY <1>2, <1>12 DEF WorkerRecvFrame, IsData, AddFragment
  <2>4. /\ Len(frag) = p.at /\ \A i \in 1 .. p.at : frag[i] = s.body[i]
        /\ p.at # 0 => (frag_text <=> s.text)
    BY <1>9 DEF Holds
  <2>5. frag' = Append(frag, f.part) /\ f.part \in Nat /\ frag \in Seq(Nat)
    <3>1. f.op # "CONT" => frag = <<>>
      BY <2>1, <2>4, MessageTypes, EmptySeq
    <3>. QED BY <1>4, <2>2, <3>1, MessageTypes DEF PeerFrame
  <2>6. /\ Len(frag') = p.at + 1 /\ frag' \in Seq(Nat)
        /\ \A i \in 1 .. p.at + 1 : frag'[i] = s.body[i]
    BY <1>6, <2>1, <2>4, <2>5
  <2>7. frag_text' <=> s.text
    <3>1. CASE f.op = "CONT"
      BY <2>1, <2>3, <2>4, <3>1, Zenon
    <3>2. CASE f.op # "CONT"
      BY <2>1, <2>3, <3>2, Zenon
    <3>. QED BY <3>1, <3>2
  <2>8. CASE f.fin
    <3>1. h[1] = [msg |-> p.msg + 1, at |-> 0] /\ wpc' = "message"
      BY <1>5, <1>12, <2>2, <2>8 DEF Beyond
    <3>2. s = peer_msgs[p.msg + 1]
      BY <1>6, <1>8, <2>1, <2>8, MessageTypes DEF Sent
    <3>3. frag' = s.body
      BY <1>6, <1>10, <2>1, <2>6, <2>8, SeqEqual
    <3>4. PICK q : q = h[1]
      OBVIOUS
    <3>5. q.msg = p.msg + 1 /\ q.at = 0
      BY <3>1, <3>4
    <3>6. Stands(q)'
      BY <1>3, <1>6, <1>7, <1>9, <2>7, <3>1, <3>2, <3>3, <3>5 DEF Stands
    <3>. QED BY <1>5, <1>7, <3>4, <3>6 DEF Reassembles
  <2>9. CASE ~f.fin
    <3>1. h[1] = [msg |-> p.msg, at |-> p.at + 1] /\ wpc' = "top"
      BY <1>5, <1>12, <2>2, <2>9 DEF Beyond
    <3>2. PICK q : q = h[1]
      OBVIOUS
    <3>3. q.msg = p.msg /\ q.at = p.at + 1
      BY <3>1, <3>2
    <3>4. Holds(frag', frag_text', q, s)
      BY <1>6, <1>10, <2>1, <2>6, <2>7, <3>3 DEF Holds
    <3>5. Stands(q)'
      BY <1>3, <1>7, <1>8, <1>9, <3>1, <3>3, <3>4 DEF Stands
    <3>. QED BY <1>5, <1>7, <3>2, <3>5 DEF Reassembles
  <2>. QED BY <2>8, <2>9
<1>. QED BY <1>11, <1>12

\* Until a message is reported, only OPEN and messages have been.
LEMMA EventsSoFar ==
    ASSUME WireIInv, ~AllocMayFail, wpc = "message"
    PROVE  Len(events) \in Nat \ {0} /\ Typed("MESSAGE") = 2 .. Len(events)
<1>1. Len(events) \in Nat /\ events \in Seq(EventRecord)
  BY MessageTypes DEF WireIInv, IInv
<1>2. events # <<>> /\ events[1].type = "OPEN" /\ ~error_emitted /\ ~close_emitted
  BY DEF WireIInv, IInv, Control, FdOwned, EmitPhase, Connecting, Opened
<1>3. Len(events) # 0
  BY <1>1, <1>2, EmptySeq
<1>4. ASSUME NEW i \in 2 .. Len(events)
      PROVE  events[i].type = "MESSAGE"
  <2>1. i \in 1 .. Len(events) /\ 1 \in 1 .. Len(events) /\ 1 < i
    BY <1>1, <1>3
  <2>2. events[i].type \in {"OPEN", "MESSAGE"}
    <3>1. events[i] \in EventRecord
      BY <1>1, <2>1, ElementOfSeq
    <3>2. events[i].type \notin {"ERROR", "CLOSE"}
      BY <1>2, <2>1 DEF WireIInv, IInv, EventsEmitted
    <3>. QED BY <3>1, <3>2 DEF EventRecord, EventType
  <2>3. Rank(events[1].type) < Rank(events[i].type)
    BY <1>2, <2>1 DEF WireIInv, IInv, EventOrder
  <2>. QED BY <1>2, <2>2, <2>3 DEF Rank
<1>5. \A i : i \in Typed("MESSAGE") <=> i \in 2 .. Len(events)
  BY <1>1, <1>2, <1>3, <1>4 DEF Typed
<1>. QED BY <1>1, <1>3, <1>5

\* The worker reports a message.
LEMMA ReportKeeps ==
    ASSUME WireIInv, Reassembles, MessagesIntact, StrictPeer, ~AllocMayFail, WorkerMessage
    PROVE  Reassembles' /\ MessagesIntact'
<1>. DEFINE msg == [text |-> frag_text, body |-> frag]
            n == Len(events)
<1>1. PICK g \in Seq(Place) : Route(g, inbox, peer_msgs, peer_cur) /\ Stands(g[1])
  BY DEF Reassembles
<1>2. /\ wpc = "message" /\ wpc' = "top" /\ frag' = <<>>
      /\ UNCHANGED <<frag_text, inbox, peer_msgs, peer_cur>>
  BY DEF WorkerMessage, net, peervars, peersent
<1>3. events' = Append(events, Event("MESSAGE", 0, msg))
  BY Enqueued DEF WorkerMessage
<1>4. PICK p : p = g[1]
  OBVIOUS
<1>5. TypeOK
  BY DEF WireIInv, IInv
<1>6. /\ p \in Place /\ p.msg \in Nat /\ p.at \in Nat /\ p.msg <= Len(peer_msgs)
  <2>1. 1 \in 1 .. Len(g)
    BY <1>1, <1>5, RoutePlaces, MessageTypes
  <2>. QED BY <1>1, <1>4, <1>5, <2>1, RoutePlaces, MessageTypes DEF Route, Place
<1>7. /\ p.msg # 0 /\ p.at = 0 /\ Typed("MESSAGE") = 2 .. p.msg
      /\ frag = peer_msgs[p.msg].body
  BY <1>1, <1>2, <1>4 DEF Stands
<1>8. n \in Nat \ {0} /\ Typed("MESSAGE") = 2 .. n /\ events \in Seq(EventRecord)
  BY <1>2, <1>5, EventsSoFar, MessageTypes
<1>9. n = p.msg
  <2>1. \A i \in Int : i \in 2 .. n <=> i \in 2 .. p.msg
    BY <1>7, <1>8
  <2>2. n \in 2 .. n <=> n \in 2 .. p.msg
    BY <1>8, <2>1
  <2>3. p.msg \in 2 .. n <=> p.msg \in 2 .. p.msg
    BY <1>6, <2>1
  <2>. QED BY <1>6, <1>7, <1>8, <2>2, <2>3
<1>10. peer_msgs[p.msg] \in Message /\ p.msg \in 1 .. Len(peer_msgs)
  BY <1>5, <1>6, <1>7, MessageTypes, ElementOfSeq
<1>11. msg = peer_msgs[p.msg]
  <2>1. frag_text = peer_msgs[p.msg].text
    <3>1. frag_text <=> peer_msgs[p.msg].text
      BY <1>1, <1>2, <1>4, Zenon DEF Stands
    <3>2. frag_text \in BOOLEAN /\ peer_msgs[p.msg].text \in BOOLEAN
      BY <1>5, <1>10, MessageTypes DEF Message
    <3>. QED BY <3>1, <3>2, Zenon
  <2>. QED BY <1>7, <1>10, <2>1 DEF Message
<1>. HIDE DEF msg
<1>12. Event("MESSAGE", 0, msg).type = "MESSAGE" /\ Event("MESSAGE", 0, msg).msg = msg
  BY DEF Event
<1>13. /\ Len(events') = n + 1 /\ \A i \in 1 .. n : events'[i] = events[i]
       /\ events'[n + 1].type = "MESSAGE" /\ events'[n + 1].msg = msg
  BY <1>3, <1>8, <1>12
<1>14. Typed("MESSAGE")' = 2 .. p.msg + 1
  <2>1. \A i \in 1 .. n + 1 :
          events'[i].type = "MESSAGE" <=> i = n + 1 \/ i \in Typed("MESSAGE")
    BY <1>8, <1>13 DEF Typed
  <2>2. \A i : i \in Typed("MESSAGE")' <=> i \in 2 .. n + 1
    BY <1>8, <1>13, <2>1 DEF Typed
  <2>. QED BY <1>9, <2>2
<1>15. MessagesIntact'
  <2>1. ASSUME NEW i \in 2 .. p.msg + 1
        PROVE  i - 1 \in 1 .. Len(peer_msgs') /\ events'[i].msg = peer_msgs'[i - 1]
    <3>1. CASE i = p.msg + 1
      BY <1>2, <1>6, <1>9, <1>10, <1>11, <1>13, <3>1
    <3>2. CASE i # p.msg + 1
      <4>1. i \in Typed("MESSAGE") /\ i \in 1 .. n
        BY <1>6, <1>7, <1>9, <3>2
      <4>. QED BY <1>2, <1>13, <4>1 DEF MessagesIntact
    <3>. QED BY <3>1, <3>2
  <2>. QED BY <1>14, <2>1 DEF MessagesIntact
<1>16. Stands(p)'
  BY <1>2, <1>5, <1>6, <1>7, <1>14, MessageTypes DEF Stands, Holds
<1>. QED BY <1>1, <1>2, <1>4, <1>15, <1>16 DEF Reassembles

-----------------------------------------------------------------------------
(* Every message reported is one the peer sent.                            *)

\* Nothing is on its way at the start.
LEMMA MessagesInit == Init => Messages
<1>. SUFFICES ASSUME Init PROVE Reassembles /\ MessagesIntact
  BY DEF Messages
<1>1. /\ inbox = <<>> /\ peer_msgs = <<>> /\ peer_cur = NoMessage /\ frag = <<>>
      /\ events = <<>> /\ wpc = "none"
  BY DEF Init, QInit
<1>. DEFINE o == [msg |-> 0, at |-> 0]
            g == <<o>>
<1>2. o \in Place /\ g \in Seq(Place) /\ Len(g) = 1 /\ g[1] = o
  BY DEF Place
<1>3. NoMessage.body = <<>>
  BY DEF NoMessage
<1>4. Route(g, <<>>, <<>>, NoMessage)
  BY <1>2, <1>3 DEF Route
<1>5. Typed("MESSAGE") = {}
  BY <1>1 DEF Typed
<1>6. Stands(o)
  BY <1>1, <1>3, <1>5 DEF Stands, Holds, Sent
<1>. QED BY <1>1, <1>2, <1>4, <1>5, <1>6 DEF Reassembles, MessagesIntact

\* Every step keeps them.
LEMMA MessagesStep ==
    ASSUME WireIInv, Messages, [Next]_vars
    PROVE  Messages'
<1>. SUFFICES ASSUME StrictPeer, ~AllocMayFail PROVE Reassembles' /\ MessagesIntact'
  BY DEF Messages
<1>1. TypeOK /\ AppPhase /\ Reassembles /\ MessagesIntact
  BY DEF WireIInv, IInv, Control, Messages
<1>. QED BY <1>1, MessageSteps, StillKeeps, DataKeeps, RecvKeeps, ReportKeeps

\* The whole of it is an invariant.
THEOREM MessageInvariant == Spec => [](WireIInv /\ Messages)
<1>1. Init => WireIInv /\ Messages
  BY WireIInvInit, MessagesInit
<1>2. WireIInv /\ Messages /\ [Next]_vars => (WireIInv /\ Messages)'
  BY WireIInvStep, MessagesStep
<1>. QED BY <1>1, <1>2, PTL DEF Spec

\* Every message on_message reports is, in order, one that the peer completed,
\* with its parts and its type, however it was fragmented and whatever came in
\* between (476-512).
THEOREM MessagesArriveIntact == Spec => []MessagesIntact
<1>1. WireIInv /\ Messages => MessagesIntact
  BY DEF Messages, MessagesIntact
<1>. QED BY <1>1, MessageInvariant, PTL

-----------------------------------------------------------------------------
(* An orderly end loses none of them.                                      *)

\* All that the peer sent has been read, and it will send no more.
Spent == inbox = <<>> /\ (peer # "up" \/ peer_closed)

\* The connection was cut from one of the ends.
CutOff == destroy_requested \/ peer = "rst"

\* The worker comes to report an end without an error only when nothing is left
\* to read, or the connection was cut.
OrderlyEnd ==
    StrictPeer =>
        /\ shut => destroy_requested
        /\ \A i \in 1 .. Len(inbox) : inbox[i].op = "CLOSE" => i = Len(inbox)
        /\ wpc \in {"peek", "closing", "echo"} => Spent
        /\ wpc = "report" => error_emitted \/ Spent
        /\ wpc = "eof" => CutOff \/ Spent
        /\ wpc = "exit" /\ ~close_emitted => destroy_requested
        /\ close_emitted => error_emitted \/ CutOff \/ Spent

PeerFrameSent == \E op, fin, part, code : PeerSends(op, fin, part, code)

\* A step that is none of those the end depends on.
Quiet ==
    /\ UNCHANGED <<inbox, shut, close_emitted>>
    /\ wpc' = wpc \/ wpc' \notin {"peek", "closing", "echo", "report", "eof", "exit"}

\* What is over stays over.
Lasting ==
    /\ Spent => Spent'
    /\ destroy_requested => destroy_requested'
    /\ peer = "rst" => peer' = "rst"
    /\ error_emitted => error_emitted'

\* The steps by what they may do to the end of a connection.
LEMMA EndSteps ==
    ASSUME [Next]_vars, StrictPeer
    PROVE  /\ Lasting
           /\ \/ Quiet \/ WorkerCheck \/ WorkerRecvEnds \/ WorkerRecvFrame \/ WorkerPeek
              \/ WorkerEcho \/ WorkerSent \/ WorkerFail \/ WorkerReport \/ WorkerEof
              \/ WorkerExit \/ DestroyStop \/ PeerFrameSent
<1>. USE DEF Quiet, Lasting, Spent, qvars, flags, emits, sock, wlocal, net, peervars,
             peersent
<1>1. CASE UNCHANGED vars
  BY <1>1 DEF vars
<1>2. CASE \/ WorkerResolve \/ WorkerConnect \/ WorkerHandshake \/ WorkerSelect
           \/ WorkerSelectFails \/ WorkerRecvCut \/ WorkerCloseFd
  BY <1>2 DEF WorkerResolve, WorkerConnect, WorkerHandshake, WorkerSelect,
              WorkerSelectFails, WorkerRecvCut, WorkerCloseFd, WorkerGoto, WorkerGotoFd
<1>3. CASE WorkerInterrupted \/ WorkerPublish \/ WorkerMessage \/ WorkerPong
  BY <1>3 DEF WorkerInterrupted, WorkerPublish, WorkerMessage, WorkerPong, WorkerSends
<1>4. CASE WorkerCheck \/ WorkerRecvEnds \/ WorkerPeek \/ WorkerEcho \/ WorkerSent
  BY <1>4 DEF WorkerCheck, WorkerRecvEnds, WorkerPeek, WorkerEcho, WorkerSent,
              WorkerGoto, WorkerSends
<1>5. CASE WorkerRecvFrame
  BY <1>5 DEF WorkerRecvFrame
<1>6. CASE WorkerFail \/ WorkerReport \/ WorkerEof \/ WorkerExit
  BY <1>6 DEF WorkerFail, WorkerReport, WorkerEof, WorkerExit, ws_enqueue_error_locked
<1>7. CASE \/ Create \/ PollEvent \/ PollReturns \/ AppSent \/ Destroy \/ Send
           \/ DestroyJoin \/ DestroyFree \/ CloseStore
  BY <1>7 DEF Create, PollEvent, PollReturns, AppSent, Destroy, Send, DestroyJoin,
              DestroyFree, CloseStore, CloseLock, AppGoto
<1>8. CASE DestroyStop
  BY <1>8 DEF DestroyStop
<1>9. CASE \E code \in CloseCodes : Close(code)
  BY <1>9 DEF Close, CloseLock
<1>10. CASE SendPiece \/ SendFails \/ SendNoMemory
  BY <1>10 DEF SendPiece, SendFails, SendNoMemory, Lost
<1>11. CASE PeerReads \/ PeerEnds
  BY <1>11 DEF PeerReads, PeerEnds, PeerStep
<1>12. ASSUME NEW op, NEW fin, NEW part, NEW code, PeerSends(op, fin, part, code)
       PROVE  Lasting /\ PeerFrameSent
  BY <1>12 DEF PeerSends, PeerStep, PeerFrameSent
<1>13. CASE \E op \in {"TEXT", "BINARY", "CONT"}, fin \in BOOLEAN : PeerData(op, fin)
  BY <1>12, <1>13 DEF PeerData
<1>14. CASE \E op \in {"PING", "IGNORED", "BIG", "CUT"} : PeerControl(op)
  BY <1>12, <1>14 DEF PeerControl
<1>15. CASE \E code \in PeerCodes \cup {NoCode} : PeerClose(code)
  BY <1>12, <1>15 DEF PeerClose
<1>. QED
  BY <1>1, <1>2, <1>3, <1>4, <1>5, <1>6, <1>7, <1>8, <1>9, <1>10, <1>11, <1>13,
     <1>14, <1>15
     DEF Next, Worker, WorkerTrouble, AppCalls, AppReturns, Socket, Peer, Terminated

\* Every step keeps it.
LEMMA OrderlyEndStep ==
    ASSUME TypeOK, EmitPhase, ClosePhase, OrderlyEnd, [Next]_vars
    PROVE  OrderlyEnd'
<1>. SUFFICES ASSUME StrictPeer PROVE OrderlyEnd'
  BY DEF OrderlyEnd
<1>a. Lasting
  BY EndSteps
<1>b. inbox \in Seq(PeerFrame) /\ Len(inbox) \in Nat
  BY MessageTypes
<1>. USE DEF Lasting, OrderlyEnd, CutOff, qvars, flags, emits, sock, net, peervars,
             peersent
<1>1. CASE Quiet
  BY <1>a, <1>1 DEF Quiet
<1>2. CASE WorkerCheck
  BY <1>a, <1>2 DEF WorkerCheck, WorkerGoto
<1>3. CASE WorkerRecvEnds
  <2>1. CutOff \/ Spent
    BY <1>3 DEF WorkerRecvEnds, Lost, Spent
  <2>. QED BY <1>a, <1>3, <2>1 DEF WorkerRecvEnds, WorkerGoto
<1>4. CASE WorkerRecvFrame
  <2>1. /\ inbox # <<>> /\ inbox' = Tail(inbox) /\ wpc = "recv"
        /\ wpc' \notin {"echo", "report", "eof", "exit"}
        /\ wpc' \in {"peek", "closing"} => Head(inbox).op = "CLOSE"
        /\ UNCHANGED <<shut, close_emitted, peer_closed>>
    BY <1>4 DEF WorkerRecvFrame
  <2>2. /\ Len(inbox') = Len(inbox) - 1 /\ 1 \in 1 .. Len(inbox) /\ Head(inbox) = inbox[1]
        /\ inbox' \in Seq(PeerFrame)
        /\ \A i \in 1 .. Len(inbox') : inbox'[i] = inbox[i + 1] /\ i + 1 \in 1 .. Len(inbox)
    BY <1>b, <2>1
  <2>3. wpc' \in {"peek", "closing"} => Spent'
    <3>1. SUFFICES ASSUME inbox[1].op = "CLOSE" PROVE Spent'
      BY <2>1, <2>2
    <3>2. Len(inbox) = 1 /\ peer_closed
      BY <2>2, <3>1 DEF ClosePhase
    <3>3. inbox' = <<>>
      BY <2>2, <3>2, EmptySeq
    <3>. QED BY <2>1, <3>2, <3>3 DEF Spent
  <2>4. \A i \in 1 .. Len(inbox') : inbox'[i].op = "CLOSE" => i = Len(inbox')
    BY <1>b, <2>2
  <2>. QED BY <1>a, <2>1, <2>3, <2>4
<1>5. CASE WorkerPeek \/ WorkerEcho \/ WorkerSent
  BY <1>a, <1>5 DEF WorkerPeek, WorkerEcho, WorkerSent, WorkerSends
<1>6. CASE WorkerFail
  <2>1. error_emitted'
    BY <1>6 DEF WorkerFail, ws_enqueue_error_locked
  <2>. QED BY <1>a, <1>6, <2>1 DEF WorkerFail
<1>7. CASE WorkerReport
  <2>1. close_emitted' /\ (error_emitted \/ Spent)
    BY <1>7 DEF WorkerReport, ws_enqueue_close_locked
  <2>. QED BY <1>a, <1>7, <2>1 DEF WorkerReport
<1>8. CASE WorkerEof
  <2>1. close_emitted' /\ (CutOff \/ Spent)
    BY <1>8 DEF WorkerEof, ws_enqueue_close_locked
  <2>. QED BY <1>a, <1>8, <2>1 DEF WorkerEof
<1>9. CASE WorkerExit
  BY <1>a, <1>9 DEF WorkerExit
<1>10. CASE DestroyStop
  BY <1>a, <1>10 DEF DestroyStop
<1>11. CASE PeerFrameSent
  <2>1. PICK op, fin, part, code : PeerSends(op, fin, part, code)
    BY <1>11 DEF PeerFrameSent
  <2>. DEFINE f == [op |-> op, fin |-> fin, part |-> part, code |-> code]
  <2>2. /\ inbox' = Append(inbox, f) /\ ~peer_closed
        /\ UNCHANGED <<wpc, shut, close_emitted, error_emitted, destroy_requested, peer>>
    BY <2>1 DEF PeerSends, PeerStep
  <2>. HIDE DEF f
  <2>3. /\ Len(inbox') = Len(inbox) + 1
        /\ \A i \in 1 .. Len(inbox) : inbox'[i] = inbox[i]
    BY <1>b, <2>2
  <2>4. \A i \in 1 .. Len(inbox') : inbox'[i].op = "CLOSE" => i = Len(inbox')
    BY <1>b, <2>2, <2>3 DEF ClosePhase
  <2>. QED BY <1>a, <2>2, <2>4
<1>. QED
  BY <1>1, <1>2, <1>3, <1>4, <1>5, <1>6, <1>7, <1>8, <1>9, <1>10, <1>11, EndSteps

\* A connection that ended in order has had all its messages reported.
LEMMA AllReported ==
    ASSUME WireIInv, Messages, OrderlyEnd
    PROVE  OrderlyEndLosesNothing
<1>. SUFFICES ASSUME StrictPeer, ~AllocMayFail, close_emitted, ~error_emitted,
                     ~destroy_requested, peer # "rst"
              PROVE  \A i \in 1 .. Len(peer_msgs) : i + 1 \in Typed("MESSAGE")
  BY DEF OrderlyEndLosesNothing
<1>1. TypeOK /\ EmitPhase
  BY DEF WireIInv, IInv, Control
<1>2. inbox = <<>> /\ wpc # "message"
  BY <1>1 DEF OrderlyEnd, CutOff, Spent, EmitPhase
<1>3. PICK g \in Seq(Place) : Route(g, inbox, peer_msgs, peer_cur) /\ Stands(g[1])
  BY DEF Messages, Reassembles
<1>4. g[1].msg = Len(peer_msgs)
  BY <1>2, <1>3 DEF Route
<1>5. Typed("MESSAGE") = 2 .. Len(peer_msgs) + 1
  BY <1>2, <1>3, <1>4 DEF Stands
<1>. QED BY <1>1, <1>5, MessageTypes

\* When the connection ends without an error, a reset or websocket_destroy,
\* every message the peer completed has been reported before CLOSE: neither the
\* end of the stream nor the peer's CLOSE frame overtakes the frames before it.
THEOREM OrderlyEndKeepsAll == Spec => []OrderlyEndLosesNothing
<1>1. Init => OrderlyEnd
  BY DEF Init, OrderlyEnd
<1>2. WireIInv /\ OrderlyEnd /\ [Next]_vars => OrderlyEnd'
  BY OrderlyEndStep DEF WireIInv, IInv, Control
<1>3. WireIInv /\ Messages /\ OrderlyEnd => OrderlyEndLosesNothing
  BY AllReported
<1>. QED BY <1>1, <1>2, <1>3, MessageInvariant, PTL DEF Spec
=============================================================================
