-------------------------- MODULE WebSocketProofs --------------------------
(***************************************************************************)
(* Machine-checked proofs about WebSocket, for every value of its          *)
(* constants.                                                              *)
(***************************************************************************)
EXTENDS WebSocketProps, SequenceTheorems, TLAPS

-----------------------------------------------------------------------------
(* Types.                                                                  *)

EventRecord == [type : EventType, code : Int, msg : Message]

\* Linking a typed event keeps the list typed.
LEMMA EnqueueTyped ==
    ASSUME QueueTypeOK, NEW ev \in EventRecord, ws_enqueue_locked(ev)
    PROVE  QueueTypeOK'
<1>1. CASE UNCHANGED qvars
  BY <1>1 DEF QueueTypeOK, qvars
<1>2. CASE LinkEvent(ev)
  <2>1. events' \in Seq(EventRecord)
    BY <1>2 DEF LinkEvent, QueueTypeOK, EventRecord
  <2>2. event_head' \in Nat /\ event_tail' \in Nat
    BY <1>2 DEF LinkEvent, QueueTypeOK
  <2>3. next' \in Seq(Nat)
    <3>1. Len(next) \in Nat /\ next \in [1 .. Len(next) -> Nat]
      BY LenProperties DEF QueueTypeOK
    <3>2. Len(events) + 1 \in Nat
      BY LenProperties DEF QueueTypeOK
    <3>3. [next EXCEPT ![event_tail] = Len(events) + 1] \in [1 .. Len(next) -> Nat]
      BY <3>1, <3>2
    <3>4. [next EXCEPT ![event_tail] = Len(events) + 1] \in Seq(Nat)
      BY <3>1, <3>3, SeqDef
    <3>. QED BY <1>2, <3>4 DEF LinkEvent, QueueTypeOK
  <2>4. delivered' = delivered /\ drained' = drained
    BY <1>2 DEF LinkEvent
  <2>. QED BY <2>1, <2>2, <2>3, <2>4 DEF QueueTypeOK, EventRecord
<1>. QED BY <1>1, <1>2 DEF ws_enqueue_locked

\* The events the worker makes are typed.
LEMMA EventTyped ==
    ASSUME NEW t \in EventType, NEW code \in Int, NEW msg \in Message
    PROVE  Event(t, code, msg) \in EventRecord
  BY DEF Event, EventRecord

\* The message of an event that has none.
LEMMA NoMessageTyped == NoMessage \in Message
  BY DEF NoMessage, Message

\* Short sequences.
LEMMA ShortSeqs ==
    ASSUME NEW S, NEW a \in S, NEW b \in S
    PROVE  <<>> \in Seq(S) /\ <<a>> \in Seq(S) /\ <<a, b>> \in Seq(S)
  OBVIOUS

\* The pieces of a frame are typed.
LEMMA PiecesTyped ==
    ASSUME NEW op \in {"DATA", "PONG", "CLOSE"}, NEW code \in Int, NEW more
    PROVE  /\ FramePieces(op, code, more) \in Seq(Piece)
           /\ ws_send_frame_locked(op, code, more) \in Seq(Piece)
<1>1. Header(op, code, TRUE) \in Piece /\ Header(op, code, FALSE) \in Piece
  BY DEF Header, Piece
<1>2. Payload(op) \in Piece
  BY DEF Payload, Piece
<1>3. <<Header(op, code, TRUE), Payload(op)>> \in Seq(Piece)
  BY <1>1, <1>2, ShortSeqs, Zenon
<1>4. <<Header(op, code, FALSE)>> \in Seq(Piece)
  BY <1>1, ShortSeqs, Zenon
<1>5. FramePieces(op, code, more) \in Seq(Piece)
  BY <1>3, <1>4, Zenon DEF FramePieces
<1>6. <<>> \in Seq(Piece)
  OBVIOUS
<1>. QED BY <1>5, <1>6, Zenon DEF ws_send_frame_locked

\* The close code that is sent and reported is a number.
LEMMA EffectiveTyped ==
    ASSUME NEW code \in Int
    PROVE  Effective(code) \in Nat \ {0}
  BY DEF Effective, WEBSOCKET_DEFAULT_CLOSE_CODE

\* The close frame is made of pieces.
LEMMA CloseFrameTyped ==
    ASSUME NEW code \in Int
    PROVE  CloseFrame(code) \in Seq(Piece)
<1>. DEFINE c == Effective(code) % 65536
<1>1. c \in Int
  BY EffectiveTyped
<1>. HIDE DEF c
<1>2. FramePieces("CLOSE", c, TRUE) \in Seq(Piece)
  BY <1>1, PiecesTyped, Zenon
<1>3. CloseFrame(code) = FramePieces("CLOSE", c, TRUE)
  BY DEF CloseFrame, c
<1>. QED BY <1>2, <1>3, Zenon

\* Initially everything has its type.
LEMMA TypeInit == Init => TypeOK
<1>. SUFFICES ASSUME Init PROVE TypeOK
  OBVIOUS
<1>1. /\ drained \in BOOLEAN /\ connected \in BOOLEAN /\ fd_open \in BOOLEAN
      /\ shut \in BOOLEAN /\ close_requested \in BOOLEAN
      /\ destroy_requested \in BOOLEAN /\ close_emitted \in BOOLEAN
      /\ error_emitted \in BOOLEAN /\ frag_text \in BOOLEAN /\ early \in BOOLEAN
      /\ peer_closed \in BOOLEAN /\ sockfd \in {"INVALID", "FD"}
      /\ mutex \in {"free", "app", "worker"} /\ wpc \in WorkerPc /\ app \in AppPc
      /\ ret \in {"idle", "callback", "destroy"} /\ peer \in {"up", "fin", "rst"}
      /\ peer_cur \in Message
  BY NoMessageTyped, Zenon DEF Init, QInit, WorkerPc, AppPc
<1>2. /\ events = <<>> /\ next = <<>> /\ delivered = <<>> /\ frag = <<>>
      /\ pend = <<>> /\ wire = <<>> /\ inbox = <<>> /\ peer_msgs = <<>>
      /\ event_head = 0 /\ event_tail = 0 /\ cc = 0 /\ stores = 0 /\ nread = 0
      /\ nsends = 0 /\ ncloses = 0 /\ nframes = 0 /\ nsignals = 0
      /\ requested_close_code = 1000
  BY Zenon DEF Init, QInit, WEBSOCKET_DEFAULT_CLOSE_CODE
<1>3. app # "closing"
  BY DEF Init
<1>4. QueueTypeOK /\ ObjectTypeOK
  BY <1>1, <1>2 DEF QueueTypeOK, ObjectTypeOK
<1>5. ThreadTypeOK /\ NetTypeOK
  BY <1>1, <1>2, <1>3, WebSocketAssumption DEF ThreadTypeOK, NetTypeOK
<1>. QED BY <1>4, <1>5 DEF TypeOK

\* Reporting an event of any kind keeps the list typed.
LEMMA ReportTyped ==
    ASSUME QueueTypeOK, NEW t \in EventType, NEW code \in Int,
           NEW msg \in Message, ws_enqueue_locked(Event(t, code, msg))
    PROVE  QueueTypeOK'
<1>1. Event(t, code, msg) \in EventRecord
  BY EventTyped
<1>. QED BY <1>1, EnqueueTyped, Zenon

\* A step that leaves the list alone leaves it typed.
LEMMA QueueKept == ASSUME QueueTypeOK, UNCHANGED qvars PROVE QueueTypeOK'
  BY DEF QueueTypeOK, qvars

\* The frames without a close code.
LEMMA FramesTyped ==
    /\ DataFrames \subseteq Seq(Piece) /\ PongFrames \subseteq Seq(Piece)
    /\ EchoFrame \in Seq(Piece)
<1>1. 0 \in Int
  OBVIOUS
<1>. QED BY <1>1, PiecesTyped, Zenon DEF DataFrames, PongFrames, EchoFrame

\* Steps that only move the worker, or open or close its descriptor.
LEMMA GotoTyped ==
    ASSUME TypeOK, NEW pc \in WorkerPc, NEW open \in BOOLEAN,
           WorkerGoto(pc) \/ WorkerGotoFd(pc, open)
    PROVE  TypeOK'
<1>1. QueueTypeOK'
  BY QueueKept DEF TypeOK, WorkerGoto, WorkerGotoFd
<1>2. ObjectTypeOK'
  BY DEF TypeOK, ObjectTypeOK, WorkerGoto, WorkerGotoFd, flags, emits, sock
<1>3. ThreadTypeOK'
  BY DEF TypeOK, ThreadTypeOK, WorkerGoto, WorkerGotoFd, wlocal, appvars
<1>4. NetTypeOK'
  BY DEF TypeOK, NetTypeOK, WorkerGoto, WorkerGotoFd, net, peervars, peersent
<1>. QED BY <1>1, <1>2, <1>3, <1>4 DEF TypeOK

\* Reporting the error and the close keeps the list typed.
LEMMA ErrorTyped ==
    ASSUME QueueTypeOK, ws_enqueue_error_locked, error_emitted \in BOOLEAN
    PROVE  QueueTypeOK' /\ error_emitted' \in BOOLEAN
<1>1. CASE error_emitted
  BY <1>1 DEF ws_enqueue_error_locked, QueueTypeOK, qvars
<1>2. CASE ~error_emitted
  <2>1. ws_enqueue_locked(Event("ERROR", 0, NoMessage)) /\ error_emitted' = TRUE
    BY <1>2 DEF ws_enqueue_error_locked
  <2>2. "ERROR" \in EventType /\ 0 \in Int
    BY DEF EventType
  <2>. QED BY <2>1, <2>2, NoMessageTyped, ReportTyped, Zenon
<1>. QED BY <1>1, <1>2

\* Reporting CLOSE keeps the types.
LEMMA CloseTyped ==
    ASSUME QueueTypeOK, NEW code \in Int, ws_enqueue_close_locked(code),
           close_emitted \in BOOLEAN, connected \in BOOLEAN
    PROVE  QueueTypeOK' /\ close_emitted' \in BOOLEAN /\ connected' \in BOOLEAN
<1>1. CASE close_emitted
  BY <1>1 DEF ws_enqueue_close_locked, QueueTypeOK, qvars
<1>2. CASE ~close_emitted
  <2>1. /\ ws_enqueue_locked(Event("CLOSE", code, NoMessage))
        /\ close_emitted' = TRUE /\ connected' = FALSE
    BY <1>2 DEF ws_enqueue_close_locked
  <2>2. "CLOSE" \in EventType
    BY DEF EventType
  <2>. QED BY <2>1, <2>2, NoMessageTyped, ReportTyped, Zenon
<1>. QED BY <1>1, <1>2

\* Every step keeps every type.
LEMMA TypeStep ==
    ASSUME TypeOK, QueueLinked, [Next]_vars
    PROVE  TypeOK'
<1>. USE DEF ObjectTypeOK, ThreadTypeOK, NetTypeOK, flags, emits, sock, wlocal,
             appvars, net, peervars, peersent
<1>q. QueueTypeOK /\ ObjectTypeOK /\ ThreadTypeOK /\ NetTypeOK
  BY DEF TypeOK
<1>1. CASE UNCHANGED vars
  BY <1>1, QueueKept DEF vars, TypeOK
<1>2. CASE WorkerResolve
  BY <1>2, GotoTyped DEF WorkerResolve, WorkerPc
<1>3. CASE WorkerConnect
  BY <1>3, GotoTyped DEF WorkerConnect, WorkerPc
<1>4. CASE WorkerHandshake
  BY <1>4, GotoTyped DEF WorkerHandshake, WorkerPc
<1>5. CASE WorkerCheck
  BY <1>5, GotoTyped DEF WorkerCheck, WorkerPc
<1>6. CASE WorkerSelect
  BY <1>6, GotoTyped DEF WorkerSelect, WorkerPc
<1>7. CASE WorkerSelectFails
  BY <1>7, GotoTyped DEF WorkerSelectFails, WorkerPc
<1>8. CASE WorkerRecvEnds
  BY <1>8, GotoTyped DEF WorkerRecvEnds, WorkerPc
<1>9. CASE WorkerRecvCut
  BY <1>9, GotoTyped DEF WorkerRecvCut, WorkerPc
<1>10. CASE WorkerCloseFd
  BY <1>10, GotoTyped DEF WorkerCloseFd, WorkerPc
<1>11. CASE WorkerPublish
  <2>1. ws_enqueue_locked(Event("OPEN", 0, NoMessage)) /\ "OPEN" \in EventType
    BY <1>11 DEF WorkerPublish, EventType
  <2>2. QueueTypeOK'
    BY <1>q, <2>1, NoMessageTyped, ReportTyped
  <2>3. pend' \in Seq(Piece)
    <3>1. requested_close_code \in Int /\ pend \in Seq(Piece)
      BY <1>q
    <3>. QED BY <1>11, <3>1, CloseFrameTyped DEF WorkerPublish
  <2>. QED BY <1>q, <1>11, <2>2, <2>3 DEF WorkerPublish, WorkerPc, TypeOK
<1>12. CASE WorkerInterrupted
  BY <1>q, <1>12, QueueKept, WebSocketAssumption
     DEF WorkerInterrupted, WorkerPc, TypeOK
<1>13. CASE WorkerRecvFrame
  <2>1. Head(inbox) \in PeerFrame /\ Tail(inbox) \in Seq(PeerFrame)
    BY <1>q, <1>13, HeadTailProperties DEF WorkerRecvFrame
  <2>2. Head(inbox).part \in Nat /\ Head(inbox).code \in Int
    BY <2>1 DEF PeerFrame
  <2>a. /\ frag' \in {frag, Append(frag, Head(inbox).part),
                      Append(<<>>, Head(inbox).part)}
        /\ cc' \in {cc, Head(inbox).code}
    BY <1>13, Zenon DEF WorkerRecvFrame, AddFragment
  <2>b. /\ Append(frag, Head(inbox).part) \in Seq(Nat)
        /\ Append(<<>>, Head(inbox).part) \in Seq(Nat)
    BY <1>q, <2>2
  <2>3. frag' \in Seq(Nat) /\ cc' \in Int
    BY <1>q, <2>2, <2>a, <2>b, Zenon
  <2>5. frag_text' \in BOOLEAN
    BY <1>q, <1>13, Zenon DEF WorkerRecvFrame, AddFragment
  <2>4. wpc' \in WorkerPc /\ early' = early
    BY <1>13 DEF WorkerRecvFrame, WorkerPc
  <2>. QED BY <1>q, <1>13, <2>1, <2>3, <2>4, <2>5, QueueKept DEF WorkerRecvFrame, TypeOK
<1>14. CASE WorkerMessage
  <2>1. /\ ws_enqueue_locked(Event("MESSAGE", 0, [text |-> frag_text, body |-> frag]))
        /\ "MESSAGE" \in EventType
    BY <1>14 DEF WorkerMessage, EventType
  <2>2. [text |-> frag_text, body |-> frag] \in Message
    BY <1>q DEF Message
  <2>3. QueueTypeOK'
    BY <1>q, <2>1, <2>2, ReportTyped
  <2>. QED BY <1>q, <1>14, <2>3 DEF WorkerMessage, WorkerPc, TypeOK
<1>15. CASE WorkerPong
  BY <1>q, <1>15, FramesTyped, QueueKept DEF WorkerPong, WorkerSends, WorkerPc, TypeOK
<1>16. CASE WorkerEcho
  BY <1>q, <1>16, FramesTyped, QueueKept DEF WorkerEcho, WorkerSends, WorkerPc, TypeOK
<1>17. CASE WorkerPeek
  <2>1. cc' \in Int
    BY <1>q, <1>17 DEF WorkerPeek, WEBSOCKET_DEFAULT_CLOSE_CODE
  <2>. QED BY <1>q, <1>17, <2>1, QueueKept DEF WorkerPeek, WorkerPc, TypeOK
<1>18. CASE WorkerSent
  BY <1>q, <1>18, QueueKept DEF WorkerSent, WorkerPc, TypeOK
<1>19. CASE WorkerFail
  <2>1. QueueTypeOK' /\ error_emitted' \in BOOLEAN
    BY <1>q, <1>19, ErrorTyped DEF WorkerFail
  <2>. QED BY <1>q, <1>19, <2>1 DEF WorkerFail, WorkerPc, ABNORMAL, TypeOK
<1>20. CASE WorkerReport
  <2>1. QueueTypeOK' /\ close_emitted' \in BOOLEAN /\ connected' \in BOOLEAN
    BY <1>q, <1>20, CloseTyped DEF WorkerReport
  <2>. QED BY <1>q, <1>20, <2>1 DEF WorkerReport, WorkerPc, TypeOK
<1>21. CASE WorkerEof
  <2>1. QueueTypeOK' /\ close_emitted' \in BOOLEAN /\ connected' \in BOOLEAN
    BY <1>q, <1>21, CloseTyped DEF WorkerEof, ABNORMAL
  <2>. QED BY <1>q, <1>21, <2>1 DEF WorkerEof, WorkerPc, TypeOK
<1>22. CASE WorkerExit
  <2>1. QueueTypeOK' /\ close_emitted' \in BOOLEAN
    <3>1. CASE close_emitted
      <4>1. UNCHANGED qvars /\ close_emitted' = close_emitted
        BY <1>22, <3>1, Zenon DEF WorkerExit
      <4>. QED BY <1>q, <3>1, <4>1, QueueKept
    <3>2. CASE ~close_emitted
      <4>1. /\ ws_enqueue_locked(Event("CLOSE", ABNORMAL, NoMessage))
            /\ close_emitted' = TRUE
        BY <1>22, <3>2, Zenon DEF WorkerExit
      <4>2. "CLOSE" \in EventType /\ ABNORMAL \in Int
        BY DEF EventType, ABNORMAL
      <4>3. QueueTypeOK'
        BY <1>q, <4>1, <4>2, NoMessageTyped, ReportTyped
      <4>. QED BY <4>1, <4>3, Zenon
    <3>. QED BY <3>1, <3>2
  <2>2. /\ connected' = FALSE /\ sockfd' = "INVALID" /\ wpc' = "closefd"
        /\ UNCHANGED <<flags, error_emitted, fd_open, shut, mutex, wlocal, appvars,
                       pend, net>>
    BY <1>22, Zenon DEF WorkerExit
  <2>3. ObjectTypeOK'
    BY <1>q, <2>1, <2>2
  <2>4. ThreadTypeOK'
    BY <1>q, <2>2 DEF WorkerPc
  <2>5. NetTypeOK'
    BY <1>q, <2>2
  <2>. QED BY <2>1, <2>3, <2>4, <2>5, Zenon DEF TypeOK
<1>23. CASE Create
  BY <1>q, <1>23, QueueKept DEF Create, WorkerPc, AppPc, TypeOK
<1>24. CASE PollEvent
  <2>1. QueueTypeOK'
    <3>1. event_head \in 1 .. Len(next)
      BY <1>q, <1>24, LenProperties DEF PollEvent, PopEvent, QueueTypeOK, QueueLinked
    <3>2. next[event_head] \in Nat
      BY <1>q, <3>1, ElementOfSeq DEF QueueTypeOK
    <3>. QED BY <1>q, <1>24, <3>2 DEF PollEvent, PopEvent, QueueTypeOK
  <2>. QED BY <1>q, <1>24, <2>1 DEF PollEvent, AppGoto, AppPc, TypeOK
<1>25. CASE PollReturns
  BY <1>q, <1>25, QueueKept DEF PollReturns, AppGoto, AppPc, TypeOK
<1>26. CASE Send
  BY <1>q, <1>26, FramesTyped, QueueKept, WebSocketAssumption DEF Send, AppPc, TypeOK
<1>27. CASE \E code \in CloseCodes : Close(code)
  <2>1. PICK code \in CloseCodes : Close(code)
    BY <1>27
  <2>2. Effective(code) \in Nat \ {0}
    BY EffectiveTyped, WebSocketAssumption
  <2>. QED BY <1>q, <2>1, <2>2, QueueKept, WebSocketAssumption
         DEF Close, CloseLock, AppPc, TypeOK
<1>28. CASE CloseStore
  <2>1. pend' \in Seq(Piece)
    BY <1>q, <1>28, CloseFrameTyped DEF CloseStore
  <2>. QED BY <1>q, <1>28, <2>1, QueueKept DEF CloseStore, AppPc, TypeOK
<1>29. CASE AppSent
  BY <1>q, <1>29, QueueKept DEF AppSent, AppPc, TypeOK
<1>30. CASE Destroy
  <2>1. Effective(WEBSOCKET_DEFAULT_CLOSE_CODE) \in Nat \ {0}
    BY EffectiveTyped DEF WEBSOCKET_DEFAULT_CLOSE_CODE
  <2>. QED BY <1>q, <1>30, <2>1, QueueKept DEF Destroy, CloseLock, AppPc, TypeOK
<1>31. CASE DestroyStop
  BY <1>q, <1>31, QueueKept DEF DestroyStop, AppPc, TypeOK
<1>32. CASE DestroyJoin
  BY <1>q, <1>32, QueueKept DEF DestroyJoin, AppGoto, AppPc, TypeOK
<1>33. CASE DestroyFree
  <2>1. QueueTypeOK'
    BY <1>q, <1>33 DEF DestroyFree, DrainEvents, QueueTypeOK
  <2>. QED BY <1>q, <1>33, <2>1 DEF DestroyFree, AppGoto, AppPc, TypeOK
<1>34. CASE SendPiece
  <2>1. Head(pend) \in Piece /\ Tail(pend) \in Seq(Piece)
    BY <1>q, <1>34, HeadTailProperties DEF SendPiece
  <2>. QED BY <1>q, <1>34, <2>1, QueueKept DEF SendPiece, TypeOK
<1>35. CASE SendFails
  BY <1>q, <1>35, QueueKept DEF SendFails, TypeOK
<1>36. CASE SendNoMemory
  BY <1>q, <1>36, QueueKept DEF SendNoMemory, TypeOK
<1>37. CASE PeerReads
  BY <1>q, <1>37, QueueKept DEF PeerReads, PeerStep, TypeOK
<1>38. CASE \E op \in {"TEXT", "BINARY", "CONT"}, fin \in BOOLEAN : PeerData(op, fin)
  <2>1. PICK op \in {"TEXT", "BINARY", "CONT"}, fin \in BOOLEAN : PeerData(op, fin)
    BY <1>38
  <2>. DEFINE part == nframes + 1
              text == IF op = "CONT" THEN peer_cur.text ELSE op = "TEXT"
              body == Append(IF op = "CONT" THEN peer_cur.body ELSE <<>>, part)
              f == [op |-> op, fin |-> fin, part |-> part, code |-> 0]
  <2>2. peer_cur.text \in BOOLEAN /\ peer_cur.body \in Seq(Nat) /\ part \in Nat
    BY <1>q, WebSocketAssumption DEF Message
  <2>t. text \in BOOLEAN
    BY <2>2, Zenon
  <2>b. body \in Seq(Nat)
    BY <2>2
  <2>3. [text |-> text, body |-> body] \in Message
    <3>. HIDE DEF text, body
    <3>. QED BY <2>t, <2>b DEF Message
  <2>4. f \in PeerFrame
    BY <2>2 DEF PeerFrame
  <2>5. inbox' \in Seq(PeerFrame)
    BY <1>q, <2>1, <2>4 DEF PeerData, PeerSends
  <2>6. peer_cur' \in Message /\ peer_msgs' \in Seq(Message)
    BY <1>q, <2>1, <2>3, NoMessageTyped DEF PeerData
  <2>. QED BY <1>q, <2>1, <2>5, <2>6, QueueKept, WebSocketAssumption
         DEF PeerData, PeerSends, PeerStep, TypeOK
<1>39. CASE \E op \in {"PING", "IGNORED", "BIG", "CUT"} : PeerControl(op)
  <2>1. PICK op \in {"PING", "IGNORED", "BIG", "CUT"} : PeerControl(op)
    BY <1>39
  <2>2. [op |-> op, fin |-> TRUE, part |-> 0, code |-> 0] \in PeerFrame
    BY DEF PeerFrame
  <2>3. inbox' \in Seq(PeerFrame)
    BY <1>q, <2>1, <2>2 DEF PeerControl, PeerSends
  <2>. QED BY <1>q, <2>1, <2>3, QueueKept, WebSocketAssumption
         DEF PeerControl, PeerSends, PeerStep, TypeOK
<1>40. CASE \E code \in PeerCodes \cup {NoCode} : PeerClose(code)
  <2>1. PICK code \in PeerCodes \cup {NoCode} : PeerClose(code)
    BY <1>40
  <2>2. [op |-> "CLOSE", fin |-> TRUE, part |-> 0, code |-> code] \in PeerFrame
    BY WebSocketAssumption DEF PeerFrame, NoCode
  <2>3. inbox' \in Seq(PeerFrame)
    BY <1>q, <2>1, <2>2 DEF PeerClose, PeerSends
  <2>. QED BY <1>q, <2>1, <2>3, QueueKept, WebSocketAssumption
         DEF PeerClose, PeerSends, PeerStep, TypeOK
<1>41. CASE PeerEnds
  BY <1>q, <1>41, QueueKept DEF PeerEnds, PeerStep, TypeOK
<1>. QED
  BY <1>1, <1>2, <1>3, <1>4, <1>5, <1>6, <1>7, <1>8, <1>9, <1>10, <1>11,
     <1>12, <1>13, <1>14, <1>15, <1>16, <1>17, <1>18, <1>19, <1>20, <1>21,
     <1>22, <1>23, <1>24, <1>25, <1>26, <1>27, <1>28, <1>29, <1>30, <1>31,
     <1>32, <1>33, <1>34, <1>35, <1>36, <1>37, <1>38, <1>39, <1>40, <1>41
     DEF Next, Worker, WorkerTrouble, AppCalls, AppReturns, Socket, Peer, Terminated

-----------------------------------------------------------------------------
(* Who is where: the lock, the descriptor, the two threads.                *)

\* Every step keeps the control part of the invariant.
LEMMA ControlStep ==
    ASSUME TypeOK, Control, [Next]_vars
    PROVE  Control'
<1>. USE DEF Control, LockHeld, FdOwned, EmitPhase, AppPhase, ConnectedWindow,
             Connecting, flags, emits, sock, wlocal, appvars
<1>a. Control /\ ObjectTypeOK /\ ThreadTypeOK
  BY DEF TypeOK
<1>. USE DEF ObjectTypeOK, ThreadTypeOK, WorkerPc, AppPc
<1>1. CASE UNCHANGED vars
  BY <1>a, <1>1 DEF vars
<1>2. CASE WorkerResolve
  BY <1>a, <1>2 DEF WorkerResolve, WorkerGoto, WorkerGotoFd
<1>3. CASE WorkerConnect
  <2>1. CASE WorkerGotoFd("fail", FALSE)
    BY <1>a, <1>3, <2>1 DEF WorkerConnect, WorkerGotoFd
  <2>2. CASE WorkerGoto("handshake")
    BY <1>a, <1>3, <2>2 DEF WorkerConnect, WorkerGoto
  <2>. QED BY <1>3, <2>1, <2>2 DEF WorkerConnect
<1>4. CASE WorkerHandshake
  BY <1>a, <1>4 DEF WorkerHandshake, WorkerGoto, WorkerGotoFd
<1>5. CASE WorkerPublish
  BY <1>a, <1>5 DEF WorkerPublish
<1>6. CASE WorkerCheck
  BY <1>a, <1>6 DEF WorkerCheck, WorkerGoto
<1>7. CASE WorkerSelect
  BY <1>a, <1>7 DEF WorkerSelect, WorkerGoto
<1>8. CASE WorkerInterrupted
  BY <1>a, <1>8 DEF WorkerInterrupted
<1>9. CASE WorkerSelectFails
  BY <1>a, <1>9 DEF WorkerSelectFails, WorkerGoto
<1>10. CASE WorkerRecvEnds
  BY <1>a, <1>10 DEF WorkerRecvEnds, WorkerGoto
<1>11. CASE WorkerRecvFrame
  BY <1>a, <1>11 DEF WorkerRecvFrame
<1>12. CASE WorkerRecvCut
  BY <1>a, <1>12 DEF WorkerRecvCut, WorkerGoto
<1>13. CASE WorkerMessage
  BY <1>a, <1>13 DEF WorkerMessage
<1>14. CASE WorkerPong
  BY <1>a, <1>14 DEF WorkerPong, WorkerSends
<1>15. CASE WorkerPeek
  BY <1>a, <1>15 DEF WorkerPeek
<1>16. CASE WorkerEcho
  BY <1>a, <1>16 DEF WorkerEcho, WorkerSends
<1>17. CASE WorkerSent
  BY <1>a, <1>17 DEF WorkerSent
<1>18. CASE WorkerFail
  BY <1>a, <1>18 DEF WorkerFail, ws_enqueue_error_locked
<1>19. CASE WorkerReport
  BY <1>a, <1>19 DEF WorkerReport, ws_enqueue_close_locked
<1>20. CASE WorkerEof
  BY <1>a, <1>20 DEF WorkerEof, ws_enqueue_close_locked
<1>21. CASE WorkerExit
  BY <1>a, <1>21 DEF WorkerExit
<1>22. CASE WorkerCloseFd
  BY <1>a, <1>22 DEF WorkerCloseFd, WorkerGotoFd
<1>23. CASE Create
  BY <1>a, <1>23 DEF Create
<1>24. CASE PollEvent
  BY <1>a, <1>24 DEF PollEvent, AppGoto
<1>25. CASE PollReturns
  BY <1>a, <1>25 DEF PollReturns, AppGoto
<1>26. CASE Send
  BY <1>a, <1>26 DEF Send
<1>27. CASE \E code \in CloseCodes : Close(code)
  BY <1>a, <1>27 DEF Close, CloseLock
<1>28. CASE CloseStore
  BY <1>a, <1>28 DEF CloseStore
<1>29. CASE AppSent
  BY <1>a, <1>29 DEF AppSent
<1>30. CASE Destroy
  BY <1>a, <1>30 DEF Destroy, CloseLock
<1>31. CASE DestroyStop
  BY <1>a, <1>31 DEF DestroyStop
<1>32. CASE DestroyJoin
  BY <1>a, <1>32 DEF DestroyJoin, AppGoto
<1>33. CASE DestroyFree
  BY <1>a, <1>33 DEF DestroyFree, AppGoto
<1>34. CASE SendPiece
  BY <1>a, <1>34 DEF SendPiece
<1>35. CASE SendFails
  BY <1>a, <1>35 DEF SendFails
<1>36. CASE SendNoMemory
  BY <1>a, <1>36 DEF SendNoMemory
<1>37. CASE PeerReads
  BY <1>a, <1>37 DEF PeerReads, PeerStep
<1>38. CASE \E op \in {"TEXT", "BINARY", "CONT"}, fin \in BOOLEAN : PeerData(op, fin)
  BY <1>a, <1>38 DEF PeerData, PeerSends, PeerStep
<1>39. CASE \E op \in {"PING", "IGNORED", "BIG", "CUT"} : PeerControl(op)
  BY <1>a, <1>39 DEF PeerControl, PeerSends, PeerStep
<1>40. CASE \E code \in PeerCodes \cup {NoCode} : PeerClose(code)
  BY <1>a, <1>40 DEF PeerClose, PeerSends, PeerStep
<1>41. CASE PeerEnds
  BY <1>a, <1>41 DEF PeerEnds, PeerStep
<1>. QED
  BY <1>1, <1>2, <1>3, <1>4, <1>5, <1>6, <1>7, <1>8, <1>9, <1>10, <1>11,
     <1>12, <1>13, <1>14, <1>15, <1>16, <1>17, <1>18, <1>19, <1>20, <1>21,
     <1>22, <1>23, <1>24, <1>25, <1>26, <1>27, <1>28, <1>29, <1>30, <1>31,
     <1>32, <1>33, <1>34, <1>35, <1>36, <1>37, <1>38, <1>39, <1>40, <1>41
     DEF Next, Worker, WorkerTrouble, AppCalls, AppReturns, Socket, Peer, Terminated

-----------------------------------------------------------------------------
(* The list of events.                                                     *)

\* When the worker may report ev, and what it records with it.
Fits(ev) ==
    /\ ~drained /\ wpc' \notin Connecting
    /\ ev.type = "OPEN" => events = <<>> /\ ~close_emitted
    /\ ev.type = "MESSAGE" => ~error_emitted /\ ~close_emitted /\ sockfd = "FD"
    /\ ev.type = "ERROR" => ~error_emitted /\ ~close_emitted /\ error_emitted'
    /\ ev.type = "CLOSE" => ~close_emitted /\ close_emitted'

\* What a step leaves alone that the list does not depend on.
Onward ==
    /\ wpc' \in Connecting => wpc \in Connecting
    /\ error_emitted => error_emitted'
    /\ close_emitted => close_emitted'

\* The worker's place, the flags and the freed object never go back.
LEMMA OnwardStep ==
    ASSUME TypeOK, Control, [Next]_vars
    PROVE  Onward
<1>. USE DEF Onward, Connecting, emits
<1>a. Control /\ ObjectTypeOK /\ ThreadTypeOK
  BY DEF TypeOK
<1>. USE DEF ObjectTypeOK, ThreadTypeOK, WorkerPc, AppPc
<1>1. CASE UNCHANGED vars
  BY <1>a, <1>1 DEF vars
<1>2. CASE WorkerResolve
  BY <1>a, <1>2 DEF WorkerResolve, WorkerGoto, WorkerGotoFd
<1>3. CASE WorkerConnect
  BY <1>a, <1>3 DEF WorkerConnect, WorkerGoto, WorkerGotoFd
<1>4. CASE WorkerHandshake
  BY <1>a, <1>4 DEF WorkerHandshake, WorkerGoto, WorkerGotoFd
<1>5. CASE WorkerPublish
  BY <1>a, <1>5 DEF WorkerPublish
<1>6. CASE WorkerCheck
  BY <1>a, <1>6 DEF WorkerCheck, WorkerGoto
<1>7. CASE WorkerSelect
  BY <1>a, <1>7 DEF WorkerSelect, WorkerGoto
<1>8. CASE WorkerInterrupted
  BY <1>a, <1>8 DEF WorkerInterrupted
<1>9. CASE WorkerSelectFails
  BY <1>a, <1>9 DEF WorkerSelectFails, WorkerGoto
<1>10. CASE WorkerRecvEnds
  BY <1>a, <1>10 DEF WorkerRecvEnds, WorkerGoto
<1>11. CASE WorkerRecvFrame
  BY <1>a, <1>11 DEF WorkerRecvFrame
<1>12. CASE WorkerRecvCut
  BY <1>a, <1>12 DEF WorkerRecvCut, WorkerGoto
<1>13. CASE WorkerMessage
  BY <1>a, <1>13 DEF WorkerMessage
<1>14. CASE WorkerPong
  BY <1>a, <1>14 DEF WorkerPong, WorkerSends
<1>15. CASE WorkerPeek
  BY <1>a, <1>15 DEF WorkerPeek
<1>16. CASE WorkerEcho
  BY <1>a, <1>16 DEF WorkerEcho, WorkerSends
<1>17. CASE WorkerSent
  BY <1>a, <1>17 DEF WorkerSent
<1>18. CASE WorkerFail
  BY <1>a, <1>18 DEF WorkerFail, ws_enqueue_error_locked
<1>19. CASE WorkerReport
  BY <1>a, <1>19 DEF WorkerReport, ws_enqueue_close_locked
<1>20. CASE WorkerEof
  BY <1>a, <1>20 DEF WorkerEof, ws_enqueue_close_locked
<1>21. CASE WorkerExit
  BY <1>a, <1>21 DEF WorkerExit
<1>22. CASE WorkerCloseFd
  BY <1>a, <1>22 DEF WorkerCloseFd, WorkerGotoFd
<1>23. CASE Create
  BY <1>a, <1>23 DEF Create, Control, AppPhase
<1>24. CASE PollEvent
  BY <1>a, <1>24 DEF PollEvent, AppGoto
<1>25. CASE PollReturns
  BY <1>a, <1>25 DEF PollReturns, AppGoto
<1>26. CASE Send
  BY <1>a, <1>26 DEF Send
<1>27. CASE \E code \in CloseCodes : Close(code)
  BY <1>a, <1>27 DEF Close, CloseLock
<1>28. CASE CloseStore
  BY <1>a, <1>28 DEF CloseStore
<1>29. CASE AppSent
  BY <1>a, <1>29 DEF AppSent
<1>30. CASE Destroy
  BY <1>a, <1>30 DEF Destroy, CloseLock
<1>31. CASE DestroyStop
  BY <1>a, <1>31 DEF DestroyStop
<1>32. CASE DestroyJoin
  BY <1>a, <1>32 DEF DestroyJoin, AppGoto
<1>33. CASE DestroyFree
  BY <1>a, <1>33 DEF DestroyFree, AppGoto
<1>34. CASE SendPiece
  BY <1>a, <1>34 DEF SendPiece
<1>35. CASE SendFails
  BY <1>a, <1>35 DEF SendFails
<1>36. CASE SendNoMemory
  BY <1>a, <1>36 DEF SendNoMemory
<1>37. CASE PeerReads
  BY <1>a, <1>37 DEF PeerReads, PeerStep
<1>38. CASE \E op \in {"TEXT", "BINARY", "CONT"}, fin \in BOOLEAN : PeerData(op, fin)
  BY <1>a, <1>38 DEF PeerData, PeerSends, PeerStep
<1>39. CASE \E op \in {"PING", "IGNORED", "BIG", "CUT"} : PeerControl(op)
  BY <1>a, <1>39 DEF PeerControl, PeerSends, PeerStep
<1>40. CASE \E code \in PeerCodes \cup {NoCode} : PeerClose(code)
  BY <1>a, <1>40 DEF PeerClose, PeerSends, PeerStep
<1>41. CASE PeerEnds
  BY <1>a, <1>41 DEF PeerEnds, PeerStep
<1>. QED
  BY <1>1, <1>2, <1>3, <1>4, <1>5, <1>6, <1>7, <1>8, <1>9, <1>10, <1>11,
     <1>12, <1>13, <1>14, <1>15, <1>16, <1>17, <1>18, <1>19, <1>20, <1>21,
     <1>22, <1>23, <1>24, <1>25, <1>26, <1>27, <1>28, <1>29, <1>30, <1>31,
     <1>32, <1>33, <1>34, <1>35, <1>36, <1>37, <1>38, <1>39, <1>40, <1>41
     DEF Next, Worker, WorkerTrouble, AppCalls, AppReturns, Socket, Peer, Terminated

\* What a step does to the list.
Reported ==
    \/ UNCHANGED qvars
    \/ \E ev \in EventRecord : LinkEvent(ev) /\ Fits(ev)

ListStep ==
    \/ Reported /\ (app' = "freed" <=> app = "freed")
    \/ PopEvent /\ app # "freed" /\ app' # "freed"
    \/ DrainEvents /\ app' = "freed"

\* An event that fits, once linked, is an event reported.
LEMMA ReportFits ==
    ASSUME NEW t \in EventType, NEW code \in Int, NEW msg \in Message,
           ws_enqueue_locked(Event(t, code, msg)), Fits(Event(t, code, msg))
    PROVE  Reported
<1>1. Event(t, code, msg) \in EventRecord
  BY EventTyped
<1>. QED BY <1>1, Zenon DEF ws_enqueue_locked, Reported

\* When an event fits.
LEMMA FitsWhen ==
    ASSUME ~drained, wpc' \notin Connecting, NEW code, NEW msg
    PROVE  /\ events = <<>> /\ ~close_emitted => Fits(Event("OPEN", code, msg))
           /\ ~error_emitted /\ ~close_emitted /\ sockfd = "FD" =>
                Fits(Event("MESSAGE", code, msg))
           /\ ~error_emitted /\ ~close_emitted /\ error_emitted' =>
                Fits(Event("ERROR", code, msg))
           /\ ~close_emitted /\ close_emitted' => Fits(Event("CLOSE", code, msg))
  BY DEF Fits, Event

\* Every step is one of the list's own steps or leaves it alone.
LEMMA ListSteps ==
    ASSUME TypeOK, Control, Drained, EventsEmitted, [Next]_vars
    PROVE  ListStep
<1>a. Control /\ ObjectTypeOK /\ ThreadTypeOK /\ EventsEmitted
  BY DEF TypeOK
<1>b. /\ "OPEN" \in EventType /\ "MESSAGE" \in EventType
      /\ "ERROR" \in EventType /\ "CLOSE" \in EventType
      /\ 0 \in Int /\ ABNORMAL \in Int
  BY DEF EventType, ABNORMAL
<1>c. wpc # "done" => ~drained /\ app # "freed"
  BY DEF Drained, Control, AppPhase
<1>. USE DEF ListStep, appvars
<1>1. CASE UNCHANGED vars
  BY <1>1 DEF vars, Reported
<1>2. CASE WorkerResolve
  BY <1>2 DEF WorkerResolve, WorkerGoto, WorkerGotoFd, Reported
<1>3. CASE WorkerConnect
  BY <1>3 DEF WorkerConnect, WorkerGoto, WorkerGotoFd, Reported
<1>4. CASE WorkerHandshake
  BY <1>4 DEF WorkerHandshake, WorkerGoto, WorkerGotoFd, Reported
<1>5. CASE WorkerPublish
  <2>1. ws_enqueue_locked(Event("OPEN", 0, NoMessage)) /\ app' = app
    BY <1>5 DEF WorkerPublish
  <2>2. Fits(Event("OPEN", 0, NoMessage))
    BY <1>a, <1>c, <1>5, FitsWhen
       DEF WorkerPublish, EventsEmitted, Connecting, Control, EmitPhase
  <2>. QED BY <1>b, <2>1, <2>2, NoMessageTyped, ReportFits
<1>6. CASE WorkerCheck
  BY <1>6 DEF WorkerCheck, WorkerGoto, Reported
<1>7. CASE WorkerSelect
  BY <1>7 DEF WorkerSelect, WorkerGoto, Reported
<1>8. CASE WorkerInterrupted
  BY <1>8 DEF WorkerInterrupted, Reported
<1>9. CASE WorkerSelectFails
  BY <1>9 DEF WorkerSelectFails, WorkerGoto, Reported
<1>10. CASE WorkerRecvEnds
  BY <1>10 DEF WorkerRecvEnds, WorkerGoto, Reported
<1>11. CASE WorkerRecvFrame
  BY <1>11 DEF WorkerRecvFrame, Reported
<1>12. CASE WorkerRecvCut
  BY <1>12 DEF WorkerRecvCut, WorkerGoto, Reported
<1>13. CASE WorkerMessage
  <2>. DEFINE msg == [text |-> frag_text, body |-> frag]
  <2>1. ws_enqueue_locked(Event("MESSAGE", 0, msg)) /\ app' = app
    BY <1>13 DEF WorkerMessage
  <2>2. msg \in Message
    BY <1>a DEF Message, ThreadTypeOK
  <2>. HIDE DEF msg
  <2>3. Fits(Event("MESSAGE", 0, msg))
    BY <1>a, <1>c, <1>13, FitsWhen
       DEF WorkerMessage, Connecting, Control, EmitPhase, FdOwned
  <2>. QED BY <1>b, <2>1, <2>2, <2>3, ReportFits
<1>14. CASE WorkerPong
  BY <1>14 DEF WorkerPong, WorkerSends, Reported
<1>15. CASE WorkerPeek
  BY <1>15 DEF WorkerPeek, Reported
<1>16. CASE WorkerEcho
  BY <1>16 DEF WorkerEcho, WorkerSends, Reported
<1>17. CASE WorkerSent
  BY <1>17 DEF WorkerSent, Reported
<1>18. CASE WorkerFail
  <2>1. ~error_emitted /\ ~close_emitted
    BY <1>a, <1>18 DEF WorkerFail, Control, EmitPhase
  <2>2. ws_enqueue_locked(Event("ERROR", 0, NoMessage)) /\ error_emitted' /\ app' = app
    BY <1>18, <2>1 DEF WorkerFail, ws_enqueue_error_locked
  <2>3. Fits(Event("ERROR", 0, NoMessage))
    BY <1>c, <1>18, <2>1, <2>2, FitsWhen DEF WorkerFail, Connecting
  <2>. QED BY <1>b, <2>2, <2>3, NoMessageTyped, ReportFits
<1>19. CASE WorkerReport
  <2>1. CASE close_emitted
    BY <1>19, <2>1 DEF WorkerReport, ws_enqueue_close_locked, Reported
  <2>2. CASE ~close_emitted
    <3>. DEFINE code == cc
    <3>1. ws_enqueue_locked(Event("CLOSE", code, NoMessage)) /\ close_emitted' /\ app' = app
      BY <1>19, <2>2 DEF WorkerReport, ws_enqueue_close_locked
    <3>2. code \in Int
      BY <1>a, <1>b DEF ObjectTypeOK, ThreadTypeOK
    <3>. HIDE DEF code
    <3>3. Fits(Event("CLOSE", code, NoMessage))
      BY <1>c, <1>19, <2>2, <3>1, FitsWhen DEF WorkerReport, Connecting
    <3>. QED BY <1>b, <3>1, <3>2, <3>3, NoMessageTyped, ReportFits
  <2>. QED BY <2>1, <2>2
<1>20. CASE WorkerEof
  <2>1. CASE close_emitted
    BY <1>20, <2>1 DEF WorkerEof, ws_enqueue_close_locked, Reported
  <2>2. CASE ~close_emitted
    <3>. DEFINE code == IF close_requested THEN requested_close_code ELSE ABNORMAL
    <3>1. ws_enqueue_locked(Event("CLOSE", code, NoMessage)) /\ close_emitted' /\ app' = app
      BY <1>20, <2>2 DEF WorkerEof, ws_enqueue_close_locked
    <3>2. code \in Int
      BY <1>a, <1>b DEF ObjectTypeOK, ThreadTypeOK
    <3>. HIDE DEF code
    <3>3. Fits(Event("CLOSE", code, NoMessage))
      BY <1>c, <1>20, <2>2, <3>1, FitsWhen DEF WorkerEof, Connecting
    <3>. QED BY <1>b, <3>1, <3>2, <3>3, NoMessageTyped, ReportFits
  <2>. QED BY <2>1, <2>2
<1>21. CASE WorkerExit
  <2>1. CASE close_emitted
    BY <1>21, <2>1 DEF WorkerExit, Reported
  <2>2. CASE ~close_emitted
    <3>. DEFINE code == ABNORMAL
    <3>1. ws_enqueue_locked(Event("CLOSE", code, NoMessage)) /\ close_emitted' /\ app' = app
      BY <1>21, <2>2 DEF WorkerExit
    <3>2. code \in Int
      BY <1>a, <1>b DEF ObjectTypeOK, ThreadTypeOK
    <3>. HIDE DEF code
    <3>3. Fits(Event("CLOSE", code, NoMessage))
      BY <1>c, <1>21, <2>2, <3>1, FitsWhen DEF WorkerExit, Connecting
    <3>. QED BY <1>b, <3>1, <3>2, <3>3, NoMessageTyped, ReportFits
  <2>. QED BY <2>1, <2>2
<1>22. CASE WorkerCloseFd
  BY <1>22 DEF WorkerCloseFd, WorkerGotoFd, Reported
<1>23. CASE Create
  BY <1>a, <1>23 DEF Create, Reported, Control, AppPhase
<1>24. CASE PollEvent
  BY <1>24 DEF PollEvent, AppGoto
<1>25. CASE PollReturns
  BY <1>a, <1>25 DEF PollReturns, AppGoto, Reported, ThreadTypeOK
<1>26. CASE Send
  BY <1>a, <1>26 DEF Send, Reported, ThreadTypeOK
<1>27. CASE \E code \in CloseCodes : Close(code)
  BY <1>a, <1>27 DEF Close, CloseLock, Reported, ThreadTypeOK
<1>28. CASE CloseStore
  BY <1>a, <1>28 DEF CloseStore, Reported, ThreadTypeOK
<1>29. CASE AppSent
  BY <1>a, <1>29 DEF AppSent, Reported, ThreadTypeOK
<1>30. CASE Destroy
  BY <1>a, <1>30 DEF Destroy, CloseLock, Reported, ThreadTypeOK
<1>31. CASE DestroyStop
  BY <1>a, <1>31 DEF DestroyStop, Reported, ThreadTypeOK
<1>32. CASE DestroyJoin
  BY <1>a, <1>32 DEF DestroyJoin, AppGoto, Reported, ThreadTypeOK
<1>33. CASE DestroyFree
  BY <1>33 DEF DestroyFree, AppGoto
<1>34. CASE SendPiece
  BY <1>34 DEF SendPiece, Reported
<1>35. CASE SendFails
  BY <1>35 DEF SendFails, Reported
<1>36. CASE SendNoMemory
  BY <1>36 DEF SendNoMemory, Reported
<1>37. CASE PeerReads
  BY <1>37 DEF PeerReads, PeerStep, Reported
<1>38. CASE \E op \in {"TEXT", "BINARY", "CONT"}, fin \in BOOLEAN : PeerData(op, fin)
  BY <1>38 DEF PeerData, PeerSends, PeerStep, Reported
<1>39. CASE \E op \in {"PING", "IGNORED", "BIG", "CUT"} : PeerControl(op)
  BY <1>39 DEF PeerControl, PeerSends, PeerStep, Reported
<1>40. CASE \E code \in PeerCodes \cup {NoCode} : PeerClose(code)
  BY <1>a, <1>40 DEF PeerClose, PeerSends, PeerStep, Reported, ThreadTypeOK
<1>41. CASE PeerEnds
  BY <1>41 DEF PeerEnds, PeerStep, Reported
<1>. QED
  BY <1>1, <1>2, <1>3, <1>4, <1>5, <1>6, <1>7, <1>8, <1>9, <1>10, <1>11,
     <1>12, <1>13, <1>14, <1>15, <1>16, <1>17, <1>18, <1>19, <1>20, <1>21,
     <1>22, <1>23, <1>24, <1>25, <1>26, <1>27, <1>28, <1>29, <1>30, <1>31,
     <1>32, <1>33, <1>34, <1>35, <1>36, <1>37, <1>38, <1>39, <1>40, <1>41
     DEF Next, Worker, WorkerTrouble, AppCalls, AppReturns, Socket, Peer, Terminated

\* Linking a node at the tail keeps the chain from head to tail.
LEMMA LinkKeepsChain ==
    ASSUME QueueTypeOK, QueueLinked, DeliveredInOrder, ~drained,
           NEW ev \in EventRecord, LinkEvent(ev)
    PROVE  QueueLinked' /\ DeliveredInOrder'
<1>. DEFINE n == Len(events) + 1
<1>1. /\ Len(events) \in Nat /\ Len(next) \in Nat /\ Len(delivered) \in Nat
      /\ Len(next) = Len(events)
  BY LenProperties DEF QueueTypeOK, QueueLinked
<1>2. Len(events') = n
  BY DEF LinkEvent, QueueTypeOK
<1>3. CASE event_tail = 0
  <2>1. event_head = 0 /\ Len(delivered) = Len(events)
    BY <1>3 DEF QueueLinked
  <2>2. Len(next') = n /\ next'[n] = 0
    BY <1>1, <1>3 DEF LinkEvent, QueueTypeOK
  <2>3. event_head' = n /\ event_tail' = n /\ delivered' = delivered /\ ~drained'
    BY <1>3 DEF LinkEvent
  <2>. QED BY <1>1, <1>2, <2>1, <2>2, <2>3 DEF QueueLinked, DeliveredInOrder
<1>4. CASE event_tail # 0
  <2>1. /\ event_head # 0 /\ event_head = Len(delivered) + 1
        /\ event_tail = Len(events) /\ event_head <= event_tail
        /\ \A i \in event_head .. event_tail :
             next[i] = IF i < event_tail THEN i + 1 ELSE 0
    BY <1>4 DEF QueueLinked
  <2>2. event_head' = event_head /\ event_tail' = n /\ delivered' = delivered
        /\ ~drained'
    BY <1>4 DEF LinkEvent
  <2>. DEFINE m == [next EXCEPT ![event_tail] = n]
  <2>3. /\ m \in Seq(Nat) /\ Len(m) = Len(next)
        /\ \A j \in 1 .. Len(next) : m[j] = IF j = event_tail THEN n ELSE next[j]
    <3>1. event_tail \in 1 .. Len(next) /\ n \in Nat
      BY <1>1, <1>4, <2>1 DEF QueueTypeOK
    <3>. QED BY <3>1, ExceptSeq DEF QueueTypeOK
  <2>4. next' = Append(m, 0)
    BY <1>4 DEF LinkEvent
  <2>. HIDE DEF m
  <2>5. /\ Len(next') = n /\ next'[n] = 0
        /\ \A j \in 1 .. Len(next) : next'[j] = m[j]
    BY <1>1, <2>3, <2>4
  <2>6. \A i \in event_head .. n : next'[i] = IF i < n THEN i + 1 ELSE 0
    <3>. TAKE i \in event_head .. n
    <3>. HIDE DEF n
    <3>n. n = Len(events) + 1
      BY DEF n
    <3>1. CASE i = n
      BY <3>1, <2>5
    <3>2. CASE i # n
      <4>1. i \in event_head .. event_tail /\ i \in 1 .. Len(next) /\ i < n
        BY <1>1, <2>1, <3>2, <3>n DEF QueueTypeOK
      <4>2. next'[i] = IF i = event_tail THEN n ELSE next[i]
        BY <2>3, <2>5, <4>1
      <4>. QED BY <1>1, <2>1, <3>n, <4>1, <4>2 DEF QueueTypeOK
    <3>. QED BY <3>1, <3>2
  <2>7. QueueLinked'
    BY <1>1, <1>2, <2>1, <2>2, <2>5, <2>6 DEF QueueLinked
  <2>. QED BY <1>1, <1>2, <2>2, <2>7 DEF DeliveredInOrder
<1>. QED BY <1>3, <1>4

\* Unlinking the first node delivers the next event of the order.
LEMMA PopKeepsChain ==
    ASSUME QueueTypeOK, QueueLinked, DeliveredInOrder, PopEvent
    PROVE  QueueLinked' /\ DeliveredInOrder'
<1>1. /\ Len(events) \in Nat /\ Len(next) \in Nat /\ Len(delivered) \in Nat
      /\ Len(next) = Len(events)
  BY LenProperties DEF QueueTypeOK, QueueLinked
<1>2. /\ event_head = Len(delivered) + 1 /\ event_tail = Len(events)
      /\ event_head <= event_tail /\ ~drained
      /\ \A i \in event_head .. event_tail :
           next[i] = IF i < event_tail THEN i + 1 ELSE 0
  BY DEF PopEvent, QueueLinked
<1>3. /\ Len(delivered') = Len(delivered) + 1
      /\ delivered'[Len(delivered) + 1] = event_head
      /\ \A i \in 1 .. Len(delivered) : delivered'[i] = delivered[i]
  BY <1>1 DEF PopEvent, QueueTypeOK
<1>4. /\ events' = events /\ next' = next /\ drained' = drained
      /\ event_head' = next[event_head]
      /\ event_tail' = IF next[event_head] = 0 THEN 0 ELSE event_tail
  BY DEF PopEvent
<1>5. next[event_head] = IF event_head < event_tail THEN event_head + 1 ELSE 0
  BY <1>1, <1>2
<1>6. QueueLinked'
  <2>1. CASE event_head < event_tail
    <3>1. event_head' = event_head + 1 /\ event_tail' = event_tail
      BY <1>1, <1>2, <1>4, <1>5, <2>1
    <3>. QED BY <1>1, <1>2, <1>3, <1>4, <2>1, <3>1 DEF QueueLinked
  <2>2. CASE ~(event_head < event_tail)
    <3>1. event_head' = 0 /\ event_tail' = 0
      BY <1>4, <1>5, <2>2
    <3>. QED BY <1>1, <1>2, <1>3, <1>4, <2>2, <3>1 DEF QueueLinked
  <2>. QED BY <2>1, <2>2
<1>7. DeliveredInOrder'
  BY <1>1, <1>2, <1>3, <1>4 DEF DeliveredInOrder
<1>. QED BY <1>6, <1>7

\* Every step keeps the chain, and the order of delivery.
LEMMA ChainStep ==
    ASSUME TypeOK, Drained, QueueLinked, DeliveredInOrder, ListStep
    PROVE  QueueLinked' /\ DeliveredInOrder' /\ Drained'
<1>q. QueueTypeOK
  BY DEF TypeOK
<1>1. CASE UNCHANGED qvars /\ (app' = "freed" <=> app = "freed")
  BY <1>1 DEF qvars, QueueLinked, DeliveredInOrder, Drained
<1>2. ASSUME NEW ev \in EventRecord, LinkEvent(ev), Fits(ev),
             app' = "freed" <=> app = "freed"
      PROVE  QueueLinked' /\ DeliveredInOrder' /\ Drained'
  <2>1. QueueLinked' /\ DeliveredInOrder'
    BY <1>q, <1>2, LinkKeepsChain DEF Fits
  <2>2. Drained'
    BY <1>2 DEF LinkEvent, Drained
  <2>. QED BY <2>1, <2>2
<1>3. CASE PopEvent /\ app # "freed" /\ app' # "freed"
  <2>1. QueueLinked' /\ DeliveredInOrder'
    BY <1>q, <1>3, PopKeepsChain
  <2>2. Drained'
    BY <1>3 DEF PopEvent, Drained
  <2>. QED BY <2>1, <2>2
<1>4. CASE DrainEvents /\ app' = "freed"
  BY <1>4 DEF DrainEvents, QueueLinked, DeliveredInOrder, Drained
<1>. QED BY <1>1, <1>2, <1>3, <1>4 DEF ListStep, Reported

\* Every step keeps the order of the events and their agreement with the flags.
LEMMA OrderStep ==
    ASSUME TypeOK, EventsEmitted, EventOrder, Onward, ListStep
    PROVE  EventsEmitted' /\ EventOrder'
<1>1. CASE events' = events
  BY <1>1 DEF EventsEmitted, EventOrder, Onward
<1>2. ASSUME NEW ev \in EventRecord, LinkEvent(ev), Fits(ev)
      PROVE  EventsEmitted' /\ EventOrder'
  <2>1. Len(events) \in Nat /\ ev.type \in EventType
    BY LenProperties DEF TypeOK, QueueTypeOK, EventRecord
  <2>2. /\ Len(events') = Len(events) + 1
        /\ events'[Len(events) + 1] = ev
        /\ \A i \in 1 .. Len(events) : events'[i] = events[i]
    BY <1>2 DEF LinkEvent, TypeOK, QueueTypeOK
  <2>3. \A i \in 1 .. Len(events) : events[i].type \in EventType
    <3>. TAKE i \in 1 .. Len(events)
    <3>1. events[i] \in [type : EventType, code : Int, msg : Message]
      BY ElementOfSeq DEF TypeOK, QueueTypeOK
    <3>. QED BY <3>1
  <2>4. EventsEmitted'
    <3>1. wpc' \in Connecting => events' = <<>>
      BY <1>2 DEF Fits
    <3>2. ASSUME NEW i \in 1 .. Len(events')
          PROVE  /\ events'[i].type = "ERROR" => error_emitted'
                 /\ events'[i].type = "CLOSE" => close_emitted'
      <4>1. CASE i = Len(events) + 1
        BY <1>2, <2>2, <4>1 DEF Fits
      <4>2. CASE i # Len(events) + 1
        <5>1. i \in 1 .. Len(events)
          BY <2>1, <2>2, <4>2
        <5>. QED BY <2>2, <5>1 DEF EventsEmitted, Onward
      <4>. QED BY <4>1, <4>2
    <3>. QED BY <3>1, <3>2 DEF EventsEmitted
  <2>5. EventOrder'
    <3>. SUFFICES ASSUME NEW i \in 1 .. Len(events'), NEW j \in 1 .. Len(events'),
                         i < j
                  PROVE  \/ Rank(events'[i].type) < Rank(events'[j].type)
                         \/ /\ events'[i].type = "MESSAGE"
                            /\ events'[j].type = "MESSAGE"
      BY DEF EventOrder
    <3>1. i \in 1 .. Len(events) /\ events'[i] = events[i]
      BY <2>1, <2>2
    <3>2. CASE j \in 1 .. Len(events)
      BY <2>2, <3>1, <3>2 DEF EventOrder
    <3>3. CASE j = Len(events) + 1
      <4>1. events'[j] = ev /\ events # <<>>
        BY <2>1, <2>2, <3>1, <3>3
      <4>2. /\ events[i].type = "ERROR" => error_emitted
            /\ events[i].type = "CLOSE" => close_emitted
        BY <3>1 DEF EventsEmitted
      <4>3. /\ events[i].type \in EventType /\ ev.type \in EventType
            /\ ev.type # "OPEN"
        BY <1>2, <2>1, <2>3, <3>1, <4>1 DEF Fits
      <4>4. CASE ev.type = "MESSAGE"
        BY <1>2, <3>1, <4>1, <4>2, <4>3, <4>4 DEF Fits, EventType, Rank
      <4>5. CASE ev.type = "ERROR"
        BY <1>2, <3>1, <4>1, <4>2, <4>3, <4>5 DEF Fits, EventType, Rank
      <4>6. CASE ev.type = "CLOSE"
        BY <1>2, <3>1, <4>1, <4>2, <4>3, <4>6 DEF Fits, EventType, Rank
      <4>. QED BY <4>3, <4>4, <4>5, <4>6 DEF EventType
    <3>. QED BY <2>1, <2>2, <3>2, <3>3
  <2>. QED BY <2>4, <2>5
<1>3. CASE PopEvent \/ DrainEvents \/ UNCHANGED qvars
  BY <1>1, <1>3 DEF PopEvent, DrainEvents, qvars
<1>. QED BY <1>2, <1>3 DEF ListStep, Reported

-----------------------------------------------------------------------------
(* The theorems.                                                           *)

\* The object after websocket_create.
LEMMA IInvInit == Init => IInv
<1>. SUFFICES ASSUME Init PROVE IInv
  OBVIOUS
<1>1. TypeOK
  BY TypeInit
<1>2. /\ events = <<>> /\ next = <<>> /\ delivered = <<>> /\ event_head = 0
      /\ event_tail = 0 /\ pend = <<>> /\ ~drained /\ ~connected /\ ~fd_open
      /\ ~close_emitted /\ ~error_emitted
      /\ sockfd = "INVALID" /\ mutex = "free" /\ wpc = "none" /\ app = "none"
  BY Zenon DEF Init, QInit
<1>3. Control
  BY <1>2 DEF Control, LockHeld, FdOwned, EmitPhase, AppPhase, ConnectedWindow,
              Connecting
<1>4. Drained /\ QueueLinked /\ DeliveredInOrder /\ EventsEmitted /\ EventOrder
  BY <1>2 DEF Drained, QueueLinked, DeliveredInOrder, EventsEmitted, EventOrder
<1>. QED BY <1>1, <1>3, <1>4 DEF IInv

\* Every step of the worker, the application and the network.
LEMMA IInvStep == IInv /\ [Next]_vars => IInv'
<1>. SUFFICES ASSUME IInv, [Next]_vars PROVE IInv'
  OBVIOUS
<1>. USE DEF IInv
<1>1. TypeOK'
  BY TypeStep
<1>2. Control'
  BY ControlStep
<1>3. Onward /\ ListStep
  BY OnwardStep, ListSteps
<1>4. Drained' /\ QueueLinked' /\ DeliveredInOrder'
  BY <1>3, ChainStep
<1>5. EventsEmitted' /\ EventOrder'
  BY <1>3, OrderStep
<1>. QED BY <1>1, <1>2, <1>4, <1>5

\* The inductive invariant holds in every reachable state, whatever the bounds
\* and whether or not memory runs out.
THEOREM Invariant == Spec => []IInv
<1>1. Init => IInv
  BY IInvInit
<1>2. IInv /\ [Next]_vars => IInv'
  BY IInvStep
<1>. QED BY <1>1, <1>2, PTL DEF Spec

\* Every variable of the model keeps its type.
THEOREM TypeCorrect == Spec => []TypeOK
<1>1. IInv => TypeOK
  BY DEF IInv
<1>. QED BY <1>1, Invariant, PTL

\* The application hears OPEN, messages, at most one ERROR and at most one
\* CLOSE, in that order and nothing after it, for every peer, every number of
\* calls and every interleaving of the two threads.
THEOREM EventsInOrder == Spec => []EventOrder
<1>1. IInv => EventOrder
  BY DEF IInv
<1>. QED BY <1>1, Invariant, PTL

\* websocket_poll delivers every event once, in order, from an intact list.
THEOREM DeliveryInOrder == Spec => [](QueueLinked /\ DeliveredInOrder)
<1>1. IInv => QueueLinked /\ DeliveredInOrder
  BY DEF IInv
<1>. QED BY <1>1, Invariant, PTL

\* sockfd never names a descriptor the worker has closed.
THEOREM SockfdAlwaysLive == Spec => []SockfdLive
<1>1. IInv => SockfdLive
  BY DEF IInv, TypeOK, ObjectTypeOK, ThreadTypeOK, Control, FdOwned, SockfdLive,
         WorkerPc, Connecting
<1>. QED BY <1>1, Invariant, PTL

\* connected is true only between OPEN and CLOSE, with a valid socket.
THEOREM ConnectedOnlyWhileOpen == Spec => []ConnectedWindow
<1>1. IInv => ConnectedWindow
  BY DEF IInv, Control
<1>. QED BY <1>1, Invariant, PTL

\* websocket_destroy frees an object that neither thread uses any more.
THEOREM FreedIsClean == Spec => []FreedClean
<1>1. IInv => FreedClean
  BY DEF IInv, TypeOK, ObjectTypeOK, Control, FdOwned, AppPhase, LockHeld, Drained,
         QueueLinked, FreedClean
<1>. QED BY <1>1, Invariant, PTL

\* After CLOSE the object stays disconnected and reports nothing more.
THEOREM CloseStaysFinal == Spec => CloseIsFinal
<1>1. IInv /\ IInv' /\ [Next]_vars =>
        [close_emitted => ~connected' /\ events' = events]_vars
  <2>. SUFFICES ASSUME IInv, IInv', [Next]_vars, close_emitted
                PROVE  ~connected' /\ events' = events
    OBVIOUS
  <2>1. Onward /\ ListStep
    BY OnwardStep, ListSteps DEF IInv
  <2>2. ~connected'
    BY <2>1 DEF IInv, Control, ConnectedWindow, Onward
  <2>3. ASSUME NEW ev \in EventRecord, Fits(ev)
        PROVE  FALSE
    <3>1. ev.type \in EventType
      BY DEF EventRecord
    <3>. QED BY <2>3, <3>1 DEF Fits, EventType
  <2>4. events' = events
    BY <2>1, <2>3 DEF ListStep, Reported, qvars, PopEvent, DrainEvents
  <2>. QED BY <2>2, <2>4
<1>. QED BY <1>1, Invariant, PTL DEF CloseIsFinal, Spec
=============================================================================
