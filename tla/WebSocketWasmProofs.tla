------------------------ MODULE WebSocketWasmProofs ------------------------
(***************************************************************************)
(* Machine-checked proofs about WebSocketWasm, for every number of objects,*)
(* sends and messages.                                                     *)
(***************************************************************************)
EXTENDS WebSocketWasm, SequenceTheorems, TLAPS

EventTypes == {"OPEN", "MESSAGE", "ERROR", "CLOSE"}

EventRecord == [type : EventTypes]

ReadyState == {"CONNECTING", "OPEN", "CLOSING", "CLOSED"}

ObjectTypeOK ==
    /\ obj \in [Objects -> {"none", "live", "freed"}]
    /\ connected \in [Objects -> BOOLEAN]
    /\ readyState \in [Objects -> ReadyState]
    /\ handlers \in [Objects -> BOOLEAN]
    /\ accepted \in [Objects -> Nat] /\ sent \in [Objects -> Nat]

StreamTypeOK ==
    /\ cur \in Objects \cup {0} /\ closing \in Objects \cup {0}
    /\ late \in BOOLEAN
    /\ fired \in [Objects -> Seq(EventRecord)] /\ heard \in [Objects -> Nat]

\* The browser has handlers for exactly the objects that are not freed.
Guarded ==
    /\ ~late
    /\ \A i \in Objects : handlers[i] <=> obj[i] = "live"
    /\ \A i \in Objects :
         obj[i] = "none" => readyState[i] = "CONNECTING" /\ ~connected[i]

Silent(i) == ~Had(i, "ERROR") /\ ~Had(i, "CLOSE")

\* What the browser's state says of the events reported so far.
Phase(i) ==
    /\ readyState[i] = "CONNECTING" => fired[i] = <<>>
    /\ readyState[i] # "CLOSED" => Silent(i)
    /\ readyState[i] = "OPEN" /\ Live(i) => Had(i, "OPEN")
    /\ closing = i => readyState[i] = "CLOSED" /\ ~Had(i, "CLOSE")

\* All events but the one being reported have been heard.
Heard(i) == Len(fired[i]) = heard[i] + (IF cur = i THEN 1 ELSE 0)

Streams == \A i \in Objects : Phase(i) /\ Heard(i)

\* All of it: preserved by every step.
IInv == ObjectTypeOK /\ StreamTypeOK /\ Guarded /\ SendsHonest /\ Streams

-----------------------------------------------------------------------------
(* Reporting an event.                                                     *)

\* ws_cb_on_*: one event of type t is added to the object's stream.
Adds(i, t) ==
    /\ fired' = [fired EXCEPT ![i] = Append(@, [type |-> t])]
    /\ cur' = i /\ heard' = heard
    /\ late' = (late \/ ~Live(i))

\* The callbacks add exactly the event they are named after.
LEMMA CallsAdds ==
    ASSUME StreamTypeOK, NEW i \in Objects, NEW t \in EventTypes, Calls(i, <<t>>)
    PROVE  Adds(i, t)
<1>1. [n \in 1 .. Len(<<t>>) |-> [type |-> <<t>>[n]]] = <<[type |-> t]>>
  OBVIOUS
<1>2. fired[i] \in Seq(EventRecord) /\ [type |-> t] \in EventRecord
  BY DEF StreamTypeOK, EventRecord, EventTypes
<1>3. fired[i] \o <<[type |-> t]>> = Append(fired[i], [type |-> t])
  BY <1>2, AppendIsConcat
<1>. QED BY <1>1, <1>3 DEF Calls, Adds

\* What an added event changes in the stream of its object, and that it changes
\* no other.
LEMMA AddsWhat ==
    ASSUME StreamTypeOK, NEW i \in Objects, NEW t \in EventTypes, Adds(i, t)
    PROVE  /\ fired' \in [Objects -> Seq(EventRecord)]
           /\ Len(fired'[i]) = Len(fired[i]) + 1
           /\ fired'[i][Len(fired'[i])].type = t
           /\ fired[i] = SubSeq(fired'[i], 1, Len(fired[i]))
           /\ \A u : Had(i, u)' <=> Had(i, u) \/ u = t
           /\ \A j \in Objects \ {i} : fired'[j] = fired[j]
<1>. DEFINE e == [type |-> t]
            s == fired[i]
<1>1. s \in Seq(EventRecord) /\ e \in EventRecord /\ Len(s) \in Nat
  BY LenProperties DEF StreamTypeOK, EventRecord, EventTypes
<1>2. fired'[i] = Append(s, e) /\ \A j \in Objects \ {i} : fired'[j] = fired[j]
  BY DEF Adds, StreamTypeOK
<1>3. /\ Append(s, e) \in Seq(EventRecord) /\ Len(Append(s, e)) = Len(s) + 1
      /\ \A n \in 1 .. Len(s) : Append(s, e)[n] = s[n]
      /\ Append(s, e)[Len(s) + 1] = e
  BY <1>1, AppendProperties
<1>4. fired' \in [Objects -> Seq(EventRecord)]
  BY <1>3 DEF Adds, StreamTypeOK
<1>5. e.type = t
  OBVIOUS
<1>. HIDE DEF s, e
<1>6. s = SubSeq(Append(s, e), 1, Len(s))
  <2>. DEFINE r == SubSeq(Append(s, e), 1, Len(s))
  <2>1. \A n \in 1 .. Len(s) : Append(s, e)[n] \in EventRecord
    BY <1>1, <1>3, ElementOfSeq
  <2>2. /\ r \in Seq(EventRecord)
        /\ Len(r) = (IF 1 <= Len(s) THEN Len(s) - 1 + 1 ELSE 0)
        /\ \A n \in 1 .. Len(s) - 1 + 1 : r[n] = Append(s, e)[1 + n - 1]
    BY <1>1, <2>1, SubSeqProperties
  <2>3. Len(r) = Len(s) /\ \A n \in 1 .. Len(s) : s[n] = r[n]
    BY <1>1, <1>3, <2>2
  <2>. HIDE DEF r
  <2>4. s = r
    BY <1>1, <2>2, <2>3, SeqEqual
  <2>. QED BY <2>4 DEF r
<1>7. ASSUME NEW u PROVE Had(i, u)' <=> Had(i, u) \/ u = t
  <2>1. Had(i, u)' <=> \E n \in 1 .. Len(s) + 1 : Append(s, e)[n].type = u
    BY <1>2, <1>3 DEF Had
  <2>2. Had(i, u) <=> \E n \in 1 .. Len(s) : s[n].type = u
    BY DEF Had, s
  <2>. QED BY <1>1, <1>3, <1>5, <2>1, <2>2
<1>. QED BY <1>2, <1>3, <1>4, <1>5, <1>6, <1>7 DEF s

-----------------------------------------------------------------------------
(* The inductive invariant.                                                *)

\* The invariant holds before any object is created.
LEMMA IInvInit == Init => IInv
<1>. SUFFICES ASSUME Init PROVE IInv
  OBVIOUS
<1>1. ObjectTypeOK /\ Guarded /\ SendsHonest
  BY DEF Init, ObjectTypeOK, ReadyState, Guarded, SendsHonest, Live
<1>2. StreamTypeOK
  <2>1. <<>> \in Seq(EventRecord)
    OBVIOUS
  <2>. QED BY <2>1 DEF Init, StreamTypeOK
<1>3. Streams
  <2>. SUFFICES ASSUME NEW i \in Objects PROVE Phase(i) /\ Heard(i)
    BY DEF Streams
  <2>1. fired[i] = <<>> /\ heard[i] = 0 /\ i # cur /\ i # closing
          /\ readyState[i] = "CONNECTING"
    BY DEF Init, Objects
  <2>2. Len(fired[i]) = 0 /\ ~Had(i, "ERROR") /\ ~Had(i, "CLOSE")
    BY <2>1 DEF Had
  <2>. QED BY <2>1, <2>2 DEF Phase, Heard, Silent
<1>. QED BY <1>1, <1>2, <1>3 DEF IInv

\* An event the browser fires finds a handler only for an object that lives:
\* then it is added to its stream, otherwise nothing is.
LEMMA FiresEvent ==
    ASSUME IInv, NEW i \in Objects, NEW t \in EventTypes, NEW value \in BOOLEAN,
           Fires(i, SetConnected(i, value) /\ Calls(i, <<t>>))
    PROVE  \/ Live(i) /\ Adds(i, t) /\ SetConnected(i, value) /\ ~late'
           \/ ~Live(i) /\ UNCHANGED <<connected, cur, late, fired, heard>>
<1>1. CASE handlers[i]
  <2>1. Live(i) /\ ~late
    BY <1>1 DEF IInv, Guarded, Live
  <2>2. SetConnected(i, value) /\ Calls(i, <<t>>)
    BY <1>1 DEF Fires
  <2>3. Adds(i, t)
    BY <2>2, CallsAdds DEF IInv
  <2>. QED BY <2>1, <2>2, <2>3 DEF Adds
<1>2. CASE ~handlers[i]
  BY <1>2 DEF IInv, Guarded, Live, Fires
<1>. QED BY <1>1, <1>2

\* The message callback leaves connected alone.
LEMMA FiresMessage ==
    ASSUME IInv, NEW i \in Objects, Fires(i, ws_cb_on_message(i)), handlers[i]
    PROVE  Live(i) /\ Adds(i, "MESSAGE") /\ UNCHANGED connected /\ ~late'
<1>1. Live(i) /\ ~late
  BY DEF IInv, Guarded, Live
<1>2. UNCHANGED connected /\ Calls(i, <<"MESSAGE">>) /\ "MESSAGE" \in EventTypes
  BY DEF Fires, ws_cb_on_message, EventTypes
<1>3. Adds(i, "MESSAGE")
  BY <1>2, CallsAdds DEF IInv
<1>. QED BY <1>1, <1>2, <1>3 DEF Adds

\* An object whose stream gets no event: its socket stays as it is, begins to
\* close, or opens or closes unheard.
Undisturbed(j) ==
    /\ fired'[j] = fired[j] /\ heard'[j] = heard[j]
    /\ cur' = j <=> cur = j
    /\ closing' = j => closing = j \/ (readyState'[j] = "CLOSED" /\ Silent(j))
    /\ \/ readyState'[j] = readyState[j]
       \/ readyState[j] \in Unfinished /\ readyState'[j] = "CLOSING"
       \/ readyState[j] = "CONNECTING" /\ readyState'[j] = "OPEN" /\ ~Live(j)
       \/ readyState'[j] = "CLOSED"
    /\ readyState'[j] = "OPEN" /\ Live(j)' => Live(j)

\* Such an object keeps its invariant.
LEMMA UndisturbedStream ==
    ASSUME NEW j \in Objects, Phase(j), Heard(j), Undisturbed(j)
    PROVE  Phase(j)' /\ Heard(j)'
<1>1. Had(j, "OPEN")' = Had(j, "OPEN") /\ Had(j, "ERROR")' = Had(j, "ERROR")
        /\ Had(j, "CLOSE")' = Had(j, "CLOSE")
  BY DEF Had, Undisturbed
<1>2. Heard(j)'
  BY DEF Heard, Undisturbed
<1>3. Phase(j)'
  BY <1>1 DEF Phase, Silent, Undisturbed, Unfinished
<1>. QED BY <1>2, <1>3

\* Every step keeps the object part of the invariant.
LEMMA ObjectStep ==
    ASSUME IInv, [Next]_vars
    PROVE  ObjectTypeOK' /\ Guarded' /\ SendsHonest'
<1>. USE DEF ObjectTypeOK, Guarded, SendsHonest, Live, ReadyState, object, task,
             history, sends
<1>a. ObjectTypeOK /\ Guarded /\ SendsHonest
  BY DEF IInv
<1>t. /\ "OPEN" \in EventTypes /\ "ERROR" \in EventTypes /\ "CLOSE" \in EventTypes
      /\ TRUE \in BOOLEAN /\ FALSE \in BOOLEAN
  BY DEF EventTypes
<1>1. CASE UNCHANGED vars
  BY <1>a, <1>1 DEF vars
<1>2. ASSUME NEW i \in Objects, Opens(i)
      PROVE  ObjectTypeOK' /\ Guarded' /\ SendsHonest'
  <2>1. \/ Live(i) /\ SetConnected(i, TRUE) /\ ~late'
        \/ ~Live(i) /\ UNCHANGED <<connected, late>>
    BY <1>2, <1>t, FiresEvent DEF Opens, ws_cb_on_open
  <2>5. ObjectTypeOK'
    BY <1>a, <1>2, <2>1 DEF Opens, Task, Becomes, SetConnected
  <2>6. Guarded'
    BY <1>a, <1>2, <2>1 DEF Opens, Task, Becomes, SetConnected
  <2>7. SendsHonest'
    BY <1>a, <1>2, <2>1 DEF Opens, Task, Becomes, SetConnected
  <2>. QED BY <2>5, <2>6, <2>7
<1>3. ASSUME NEW i \in Objects, Receives(i)
      PROVE  ObjectTypeOK' /\ Guarded' /\ SendsHonest'
  <2>1. UNCHANGED connected /\ ~late'
    BY <1>3, FiresMessage DEF Receives
  <2>. QED BY <1>a, <1>3, <2>1 DEF Receives
<1>4. ASSUME NEW i \in Objects, PeerCloses(i)
      PROVE  ObjectTypeOK' /\ Guarded' /\ SendsHonest'
  BY <1>a, <1>4 DEF PeerCloses, Task, Becomes
<1>5. ASSUME NEW i \in Objects, Ends(i)
      PROVE  ObjectTypeOK' /\ Guarded' /\ SendsHonest'
  <2>1. \/ Live(i) /\ SetConnected(i, FALSE) /\ ~late'
        \/ ~Live(i) /\ UNCHANGED <<connected, late>>
    BY <1>5, <1>t, FiresEvent DEF Ends, ws_cb_on_error, ws_cb_on_close
  <2>5. ObjectTypeOK'
    BY <1>a, <1>5, <2>1 DEF Ends, Task, Becomes, SetConnected
  <2>6. Guarded'
    BY <1>a, <1>5, <2>1 DEF Ends, Task, Becomes, SetConnected
  <2>7. SendsHonest'
    BY <1>a, <1>5, <2>1 DEF Ends, Task, Becomes, SetConnected
  <2>. QED BY <2>5, <2>6, <2>7
<1>6. CASE CloseFollows
  <2>1. closing \in Objects
    BY <1>6 DEF CloseFollows, IInv, StreamTypeOK
  <2>2. \/ Live(closing) /\ SetConnected(closing, FALSE) /\ ~late'
        \/ ~Live(closing) /\ UNCHANGED <<connected, late>>
    BY <1>6, <1>t, <2>1, FiresEvent DEF CloseFollows, ws_cb_on_close
  <2>5. ObjectTypeOK'
    BY <1>a, <1>6, <2>1, <2>2 DEF CloseFollows, SetConnected
  <2>6. Guarded'
    BY <1>a, <1>6, <2>1, <2>2 DEF CloseFollows, SetConnected
  <2>7. SendsHonest'
    BY <1>a, <1>6, <2>1, <2>2 DEF CloseFollows, SetConnected
  <2>. QED BY <2>5, <2>6, <2>7
<1>7. ASSUME NEW i \in Objects, websocket_create(i)
      PROVE  ObjectTypeOK' /\ Guarded' /\ SendsHonest'
  <2>5. ObjectTypeOK'
    BY <1>a, <1>7 DEF websocket_create
  <2>6. Guarded'
    BY <1>a, <1>7 DEF websocket_create
  <2>7. SendsHonest'
    BY <1>a, <1>7 DEF websocket_create
  <2>. QED BY <2>5, <2>6, <2>7
<1>8. ASSUME NEW i \in Objects, websocket_destroy(i)
      PROVE  ObjectTypeOK' /\ Guarded' /\ SendsHonest'
  BY <1>a, <1>8 DEF websocket_destroy, Calling, emscripten_websocket_close, Becomes,
                    Unfinished
<1>9. ASSUME NEW i \in Objects, websocket_send(i)
      PROVE  ObjectTypeOK' /\ Guarded' /\ SendsHonest'
  BY <1>a, <1>9 DEF websocket_send, Calling, Sends
<1>10. ASSUME NEW i \in Objects, websocket_close(i)
       PROVE  ObjectTypeOK' /\ Guarded' /\ SendsHonest'
  BY <1>a, <1>10 DEF websocket_close, Calling, emscripten_websocket_close, Becomes,
                     Unfinished
<1>11. CASE CallbackReturns
  BY <1>a, <1>11 DEF CallbackReturns
<1>. QED BY <1>1, <1>2, <1>3, <1>4, <1>5, <1>6, <1>7, <1>8, <1>9, <1>10, <1>11
       DEF Next, Browser, Application

\* When an event of type t may be added to the stream of object i.
Fitting(i, t) ==
    /\ cur = 0
    /\ t = "OPEN" => fired[i] = <<>>
    /\ t = "MESSAGE" => Had(i, "OPEN") /\ Silent(i)
    /\ t = "ERROR" => Silent(i)
    /\ t = "CLOSE" => ~Had(i, "CLOSE")

\* An added event that fits keeps the invariant of every stream, if the state of
\* the socket moves along with it.
LEMMA AddsKeeps ==
    ASSUME IInv, NEW i \in Objects, NEW t \in EventTypes, Adds(i, t), Fitting(i, t),
           closing' \in Objects \cup {0}, readyState'[i] # "CONNECTING",
           t \in {"ERROR", "CLOSE"} => readyState'[i] = "CLOSED",
           readyState'[i] # "CLOSED" => Silent(i),
           readyState'[i] = "OPEN" => Had(i, "OPEN") \/ t = "OPEN",
           closing' = i => t = "ERROR" /\ ~Had(i, "CLOSE"),
           \A j \in Objects \ {i} : /\ readyState'[j] = readyState[j]
                                    /\ obj'[j] = obj[j] /\ closing' # j
    PROVE  StreamTypeOK' /\ Streams'
<1>1. /\ fired' \in [Objects -> Seq(EventRecord)]
      /\ Len(fired'[i]) = Len(fired[i]) + 1
      /\ \A u : Had(i, u)' <=> Had(i, u) \/ u = t
      /\ \A j \in Objects \ {i} : fired'[j] = fired[j]
  BY AddsWhat DEF IInv
<1>2. StreamTypeOK'
  BY <1>1 DEF IInv, StreamTypeOK, Adds, Live
<1>3. Phase(i)'
  <2>1. closing' = i => readyState'[i] = "CLOSED" /\ ~Had(i, "CLOSE")'
    BY <1>1
  <2>2. readyState'[i] # "CLOSED" => Silent(i)'
    BY <1>1 DEF Silent
  <2>3. readyState'[i] = "OPEN" => Had(i, "OPEN")'
    BY <1>1
  <2>. QED BY <2>1, <2>2, <2>3 DEF Phase
<1>4. Heard(i)'
  <2>1. cur # i /\ cur' = i /\ heard'[i] = heard[i] /\ heard[i] \in Nat
    BY DEF Adds, Fitting, IInv, StreamTypeOK, Objects
  <2>2. Len(fired[i]) = heard[i]
    BY <2>1 DEF IInv, Streams, Heard
  <2>. QED BY <1>1, <2>1, <2>2 DEF Heard
<1>5. ASSUME NEW j \in Objects, j # i PROVE Phase(j)' /\ Heard(j)'
  <2>1. Phase(j) /\ Heard(j)
    BY DEF IInv, Streams
  <2>2. cur' # j /\ cur # j
    BY <1>5 DEF Adds, Fitting, Objects
  <2>3. Undisturbed(j)
    BY <1>1, <1>5, <2>2 DEF Undisturbed, Adds, Live
  <2>. QED BY <2>1, <2>3, UndisturbedStream
<1>. QED BY <1>2, <1>3, <1>4, <1>5 DEF Streams

\* What a step does to the streams: one event is added where it fits, one has
\* been heard, or nothing happens to them.
StreamStep ==
    \/ \E i \in Objects, t \in EventTypes : Adds(i, t) /\ Fitting(i, t)
    \/ CallbackReturns
    \/ UNCHANGED <<fired, heard>>

\* A step that adds no event.
LEMMA QuietKeeps ==
    ASSUME IInv, UNCHANGED <<cur, late, fired, heard>>, closing' \in Objects \cup {0},
           \A j \in Objects : Undisturbed(j)
    PROVE  StreamTypeOK' /\ Streams' /\ StreamStep
<1>1. StreamTypeOK'
  BY DEF IInv, StreamTypeOK
<1>2. ASSUME NEW j \in Objects PROVE Phase(j)' /\ Heard(j)'
  BY UndisturbedStream DEF IInv, Streams
<1>. QED BY <1>1, <1>2 DEF Streams, StreamStep

\* Every step keeps the streams, and is one of their steps.
LEMMA StreamSteps ==
    ASSUME IInv, [Next]_vars
    PROVE  StreamTypeOK' /\ Streams' /\ StreamStep
<1>. USE DEF object, task, history, sends, Live
<1>a. /\ readyState \in [Objects -> ReadyState]
      /\ obj \in [Objects -> {"none", "live", "freed"}]
      /\ closing \in Objects \cup {0} /\ 0 \notin Objects
  BY DEF IInv, ObjectTypeOK, StreamTypeOK, Objects
<1>b. \A i \in Objects : Phase(i)
  BY DEF IInv, Streams
<1>t. /\ "OPEN" \in EventTypes /\ "MESSAGE" \in EventTypes
      /\ "ERROR" \in EventTypes /\ "CLOSE" \in EventTypes
      /\ TRUE \in BOOLEAN /\ FALSE \in BOOLEAN
  BY DEF EventTypes
<1>1. CASE UNCHANGED vars
  <2>1. \A j \in Objects : Undisturbed(j)
    BY <1>1 DEF vars, Undisturbed
  <2>. QED BY <1>a, <1>1, <2>1, QuietKeeps DEF vars
<1>2. ASSUME NEW i \in Objects, Opens(i)
      PROVE  StreamTypeOK' /\ Streams' /\ StreamStep
  <2>1. /\ cur = 0 /\ closing = 0 /\ closing' = 0 /\ obj' = obj
        /\ readyState[i] = "CONNECTING" /\ readyState'[i] = "OPEN"
        /\ \A j \in Objects \ {i} : readyState'[j] = readyState[j]
    BY <1>a, <1>2 DEF Opens, Task, Becomes
  <2>2. fired[i] = <<>> /\ Silent(i)
    BY <1>b, <2>1 DEF Phase
  <2>3. CASE Live(i) /\ Adds(i, "OPEN")
    <3>1. Fitting(i, "OPEN")
      BY <2>1, <2>2 DEF Fitting
    <3>. QED BY <1>a, <1>t, <2>1, <2>2, <2>3, <3>1, AddsKeeps DEF StreamStep
  <2>4. CASE ~Live(i) /\ UNCHANGED <<cur, late, fired, heard>>
    BY <1>a, <2>1, <2>4, QuietKeeps DEF Undisturbed
  <2>. QED BY <1>2, <1>t, <2>3, <2>4, FiresEvent DEF Opens, ws_cb_on_open
<1>3. ASSUME NEW i \in Objects, Receives(i)
      PROVE  StreamTypeOK' /\ Streams' /\ StreamStep
  <2>1. /\ cur = 0 /\ closing = 0 /\ closing' = 0 /\ obj' = obj
        /\ readyState' = readyState /\ readyState[i] = "OPEN"
    BY <1>3 DEF Receives, Task
  <2>2. Live(i) /\ Adds(i, "MESSAGE")
    BY <1>3, FiresMessage DEF Receives
  <2>3. Had(i, "OPEN") /\ Silent(i)
    BY <1>b, <2>1, <2>2 DEF Phase
  <2>4. Fitting(i, "MESSAGE")
    BY <2>1, <2>3 DEF Fitting
  <2>. QED BY <1>a, <1>t, <2>1, <2>2, <2>3, <2>4, AddsKeeps DEF StreamStep
<1>4. ASSUME NEW i \in Objects, PeerCloses(i)
      PROVE  StreamTypeOK' /\ Streams' /\ StreamStep
  BY <1>a, <1>4, QuietKeeps DEF PeerCloses, Task, Becomes, Undisturbed, Unfinished
<1>5. ASSUME NEW i \in Objects, Ends(i)
      PROVE  StreamTypeOK' /\ Streams' /\ StreamStep
  <2>1. /\ cur = 0 /\ closing = 0 /\ obj' = obj
        /\ readyState[i] # "CLOSED" /\ readyState'[i] = "CLOSED"
        /\ \A j \in Objects \ {i} : readyState'[j] = readyState[j]
    BY <1>a, <1>5 DEF Ends, Task, Becomes
  <2>2. Silent(i)
    BY <1>b, <2>1 DEF Phase
  <2>3. Fitting(i, "ERROR") /\ Fitting(i, "CLOSE")
    BY <2>1, <2>2 DEF Fitting, Silent
  <2>4. CASE Fires(i, ws_cb_on_close(i)) /\ closing' = closing
    <3>1. CASE Adds(i, "CLOSE")
      BY <1>a, <1>t, <2>1, <2>2, <2>3, <2>4, <3>1, AddsKeeps DEF StreamStep
    <3>2. CASE UNCHANGED <<cur, late, fired, heard>>
      BY <1>a, <2>1, <2>4, <3>2, QuietKeeps DEF Undisturbed
    <3>. QED BY <1>t, <2>4, <3>1, <3>2, FiresEvent DEF ws_cb_on_close
  <2>5. CASE Fires(i, ws_cb_on_error(i)) /\ closing' = i
    <3>1. CASE Adds(i, "ERROR")
      BY <1>a, <1>t, <2>1, <2>2, <2>3, <2>5, <3>1, AddsKeeps DEF StreamStep, Silent
    <3>2. CASE UNCHANGED <<cur, late, fired, heard>>
      BY <1>a, <2>1, <2>2, <2>5, <3>2, QuietKeeps DEF Undisturbed
    <3>. QED BY <1>t, <2>5, <3>1, <3>2, FiresEvent DEF ws_cb_on_error
  <2>. QED BY <1>5, <2>4, <2>5 DEF Ends
<1>6. CASE CloseFollows
  <2>1. /\ closing \in Objects /\ cur = 0 /\ closing' = 0
        /\ obj' = obj /\ readyState' = readyState
    BY <1>a, <1>6 DEF CloseFollows
  <2>2. readyState[closing] = "CLOSED" /\ ~Had(closing, "CLOSE")
    BY <1>b, <2>1 DEF Phase
  <2>3. Fitting(closing, "CLOSE")
    BY <2>1, <2>2 DEF Fitting
  <2>4. CASE Adds(closing, "CLOSE")
    BY <1>a, <1>t, <2>1, <2>2, <2>3, <2>4, AddsKeeps DEF StreamStep
  <2>5. CASE UNCHANGED <<cur, late, fired, heard>>
    BY <1>a, <2>1, <2>5, QuietKeeps DEF Undisturbed
  <2>. QED BY <1>6, <1>t, <2>1, <2>4, <2>5, FiresEvent DEF CloseFollows, ws_cb_on_close
<1>7. ASSUME NEW i \in Objects, websocket_create(i)
      PROVE  StreamTypeOK' /\ Streams' /\ StreamStep
  <2>1. readyState[i] = "CONNECTING"
    BY <1>7 DEF websocket_create, IInv, Guarded
  <2>2. ASSUME NEW j \in Objects PROVE Undisturbed(j)
    BY <1>a, <1>7, <2>1 DEF websocket_create, Undisturbed
  <2>. QED BY <1>a, <1>7, <2>2, QuietKeeps DEF websocket_create
<1>8. ASSUME NEW i \in Objects, websocket_destroy(i) \/ websocket_close(i)
      PROVE  StreamTypeOK' /\ Streams' /\ StreamStep
  <2>1. /\ UNCHANGED <<cur, late, fired, heard, closing>>
        /\ \A j \in Objects : obj'[j] = "live" => obj[j] = "live"
        /\ readyState' = [readyState EXCEPT ![i] =
              IF readyState[i] \in Unfinished THEN "CLOSING" ELSE readyState[i]]
    BY <1>a, <1>8 DEF websocket_destroy, websocket_close, Becomes,
                      emscripten_websocket_close
  <2>2. \A j \in Objects : Undisturbed(j)
    <3>. TAKE j \in Objects
    <3>1. \/ readyState'[j] = readyState[j]
          \/ readyState[j] \in Unfinished /\ readyState'[j] = "CLOSING"
      BY <1>a, <2>1
    <3>2. readyState'[j] = "OPEN" /\ Live(j)' => Live(j)
      BY <2>1
    <3>. QED BY <2>1, <3>1, <3>2 DEF Undisturbed
  <2>. QED BY <1>a, <2>1, <2>2, QuietKeeps
<1>9. ASSUME NEW i \in Objects, websocket_send(i)
      PROVE  StreamTypeOK' /\ Streams' /\ StreamStep
  <2>1. \A j \in Objects : Undisturbed(j)
    BY <1>9 DEF websocket_send, Sends, Undisturbed
  <2>. QED BY <1>a, <1>9, <2>1, QuietKeeps DEF websocket_send, Sends
<1>10. CASE CallbackReturns
  <2>1. cur \in Objects /\ cur' = 0
    BY <1>10 DEF CallbackReturns, IInv, StreamTypeOK
  <2>2. heard \in [Objects -> Nat] /\ heard' = [heard EXCEPT ![cur] = heard[cur] + 1]
          /\ UNCHANGED <<fired, closing, late, obj, readyState>>
    BY <1>10 DEF CallbackReturns, IInv, StreamTypeOK
  <2>3. StreamTypeOK'
    BY <2>1, <2>2 DEF IInv, StreamTypeOK
  <2>4. ASSUME NEW j \in Objects PROVE Phase(j)' /\ Heard(j)'
    <3>1. Phase(j)'
      BY <1>b, <2>2 DEF Phase, Silent, Had
    <3>2. Heard(j)'
      BY <1>a, <2>1, <2>2 DEF Heard, IInv, Streams
    <3>. QED BY <3>1, <3>2
  <2>. QED BY <1>10, <2>3, <2>4 DEF Streams, StreamStep
<1>. QED BY <1>1, <1>2, <1>3, <1>4, <1>5, <1>6, <1>7, <1>8, <1>9, <1>10
       DEF Next, Browser, Application

-----------------------------------------------------------------------------
(* The theorems.                                                           *)

\* Every step of the browser and of the application keeps it.
LEMMA IInvStep == IInv /\ [Next]_vars => IInv'
<1>. SUFFICES ASSUME IInv, [Next]_vars PROVE IInv'
  OBVIOUS
<1>. QED BY ObjectStep, StreamSteps DEF IInv

\* The inductive invariant holds in every reachable state, whatever the bounds.
THEOREM Invariant == Spec => []IInv
<1>. QED BY IInvInit, IInvStep, PTL DEF Spec

\* The browser never calls back for an object that websocket_destroy has freed.
THEOREM NoCallbackAfterFree == Spec => []NoLateCallback
<1>1. IInv => NoLateCallback
  BY DEF IInv, Guarded, NoLateCallback
<1>. QED BY <1>1, Invariant, PTL

\* connected never outruns the socket, and a send that was accepted is lost only
\* to a close that had begun.
THEOREM AcceptedSendsHonest == Spec => []SendsHonest
<1>1. IInv => SendsHonest
  BY DEF IInv
<1>. QED BY <1>1, Invariant, PTL

\* Initially the stream of every object is as WebSocketEvents begins.
LEMMA StreamInit ==
    ASSUME Init
    PROVE  \A i \in Objects : Stream(i)!Init
  BY DEF Init, Stream!Init

\* A step of the streams is a step of WebSocketEvents, for every object.
LEMMA StreamRefines ==
    ASSUME IInv, StreamStep, NEW j \in Objects
    PROVE  [Stream(j)!Next]_(Stream(j)!vars)
<1>. USE DEF Stream!vars
<1>1. CASE UNCHANGED <<fired, heard>>
  BY <1>1
<1>2. CASE CallbackReturns
  <2>1. heard \in [Objects -> Nat] /\ cur \in Objects
    BY <1>2 DEF CallbackReturns, IInv, StreamTypeOK
  <2>2. CASE cur = j
    <3>1. heard'[j] = heard[j] + 1 /\ fired'[j] = fired[j]
      BY <1>2, <2>1, <2>2 DEF CallbackReturns
    <3>2. heard[j] < Len(fired[j])
      BY <2>1, <2>2 DEF IInv, Streams, Heard
    <3>. QED BY <3>1, <3>2 DEF Stream!Next, Stream!Delivers
  <2>3. CASE cur # j
    BY <1>2, <2>1, <2>3 DEF CallbackReturns
  <2>. QED BY <2>2, <2>3
<1>3. ASSUME NEW i \in Objects, NEW t \in EventTypes, Adds(i, t), Fitting(i, t)
      PROVE  [Stream(j)!Next]_(Stream(j)!vars)
  <2>1. /\ Len(fired'[i]) = Len(fired[i]) + 1
        /\ fired'[i][Len(fired'[i])].type = t
        /\ fired[i] = SubSeq(fired'[i], 1, Len(fired[i]))
        /\ \A k \in Objects \ {i} : fired'[k] = fired[k]
    BY <1>3, AddsWhat DEF IInv
  <2>2. heard' = heard
    BY <1>3 DEF Adds
  <2>3. CASE i # j
    BY <2>1, <2>2, <2>3
  <2>4. CASE i = j
    <3>1. Stream(j)!Report(t)
      BY <2>1, <2>2, <2>4 DEF Stream!Report
    <3>2. \A u : Stream(j)!OfType(u) <=> Had(j, u)
      BY DEF Stream!OfType, Had
    <3>3. Stream(j)!Next
      BY <1>3, <2>4, <3>1, <3>2
         DEF Stream!Next, Stream!Opens, Stream!Receives, Stream!Errs, Stream!Closes,
             Stream!Ended, Fitting, Silent, EventTypes
    <3>. QED BY <3>3
  <2>. QED BY <2>3, <2>4
<1>. QED BY <1>1, <1>2, <1>3 DEF StreamStep

\* The browser build reports the events of every object as WebSocketEvents says:
\* OPEN, messages, at most one ERROR, CLOSE, each heard once and in that order.
THEOREM StreamsImplementEvents == Spec => StreamSpec
<1>1. Init => \A i \in Objects : Stream(i)!Init
  BY StreamInit
<1>2. IInv /\ [Next]_vars =>
        [\A i \in Objects : [Stream(i)!Next]_(Stream(i)!vars)]_<<fired, heard>>
  BY StreamSteps, StreamRefines
<1>. QED BY <1>1, <1>2, Invariant, PTL DEF Spec, StreamSpec

=============================================================================
