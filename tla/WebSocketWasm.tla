--------------------------- MODULE WebSocketWasm ---------------------------
(***************************************************************************)
(* websocket.wasm.c: the websocket_t of the browser build, a thin layer    *)
(* over the browser's WebSocket.  There is one thread: the browser fires   *)
(* an event in a task of its own, ws_cb_on_* runs, then the application's  *)
(* callback, which may call anything, websocket_destroy too.               *)
(*                                                                         *)
(* The browser follows the WHATWG standard: messages are fired only while  *)
(* OPEN; a connection that fails fires error and close in the same task;   *)
(* send() in CLOSING drops its data; close() while CONNECTING fails the    *)
(* connection.                                                             *)
(***************************************************************************)
EXTENDS Integers, Sequences

CONSTANTS
    MaxObjects,     \* bound: calls of websocket_create
    MaxSends,       \* bound: sends accepted, by object
    MaxMessages     \* bound: messages received, by object

ASSUME WebSocketWasmAssumption ==
    MaxObjects \in Nat /\ MaxSends \in Nat /\ MaxMessages \in Nat

Objects == 1 .. MaxObjects

VARIABLES
    obj,            \* "none", "live" or "freed"
    connected,
    readyState,     \* of the browser's WebSocket
    handlers,       \* its on... handlers are ws_cb_on_*, with the object
    cur,            \* the object whose callback runs, 0 for none
    closing,        \* the object for which the task will fire close after error
    late,           \* ws_cb_on_* has been called with a freed object
    fired, heard,   \* events reported, and how many callbacks have returned
    accepted, sent  \* sends that returned 0, and those the browser took

object == <<obj, connected>>
task == <<cur, closing>>
history == <<late, fired, heard>>
sends == <<accepted, sent>>
vars == <<object, readyState, handlers, task, history, sends>>

Init ==
    /\ obj = [i \in Objects |-> "none"] /\ connected = [i \in Objects |-> FALSE]
    /\ readyState = [i \in Objects |-> "CONNECTING"]
    /\ handlers = [i \in Objects |-> FALSE]
    /\ cur = 0 /\ closing = 0 /\ late = FALSE
    /\ fired = [i \in Objects |-> <<>>] /\ heard = [i \in Objects |-> 0]
    /\ accepted = [i \in Objects |-> 0] /\ sent = [i \in Objects |-> 0]

Live(i) == obj[i] = "live"

Had(i, type) == \E n \in 1 .. Len(fired[i]) : fired[i][n].type = type

-----------------------------------------------------------------------------
(* ws_cb_on_*: up to the call of the application's callback.               *)

Calls(i, types) ==
    /\ cur' = i
    /\ late' = (late \/ ~Live(i))
    /\ fired' = [fired EXCEPT ![i] = @ \o [n \in 1 .. Len(types) |-> [type |-> types[n]]]]
    /\ UNCHANGED heard

SetConnected(i, value) == connected' = [connected EXCEPT ![i] = value]

ws_cb_on_open(i) == SetConnected(i, TRUE) /\ Calls(i, <<"OPEN">>)

ws_cb_on_message(i) == UNCHANGED connected /\ Calls(i, <<"MESSAGE">>)

\* Mutant: as in the native build, the close is reported with the error.
ErrorAndClose(i) == SetConnected(i, FALSE) /\ Calls(i, <<"ERROR", "CLOSE">>)

ws_cb_on_error(i) == SetConnected(i, FALSE) /\ Calls(i, <<"ERROR">>)

ws_cb_on_close(i) == SetConnected(i, FALSE) /\ Calls(i, <<"CLOSE">>)

\* An event of the browser, for which it has a handler or not.
Fires(i, ws_cb) ==
    IF handlers[i] THEN ws_cb ELSE UNCHANGED <<connected, cur, late, fired, heard>>

\* The callback returns; nothing of the object is looked at after it.
CallbackReturns ==
    /\ cur # 0
    /\ cur' = 0
    /\ heard' = [heard EXCEPT ![cur] = @ + 1]
    /\ UNCHANGED <<object, readyState, handlers, closing, late, fired, sends>>

-----------------------------------------------------------------------------
(* The browser (external).                                                 *)

Becomes(i, state) == readyState' = [readyState EXCEPT ![i] = state]

\* A task begins when the last one is over.
Task(i) == cur = 0 /\ closing = 0 /\ obj[i] # "none"

Opens(i) ==
    /\ Task(i) /\ readyState[i] = "CONNECTING"
    /\ Becomes(i, "OPEN")
    /\ Fires(i, ws_cb_on_open(i))
    /\ UNCHANGED <<obj, handlers, closing, sends>>

Receives(i) ==
    /\ Task(i) /\ readyState[i] = "OPEN" /\ handlers[i]
    /\ Len(fired[i]) <= MaxMessages
    /\ Fires(i, ws_cb_on_message(i))
    /\ UNCHANGED <<obj, readyState, handlers, closing, sends>>

\* The peer has begun the closing handshake; no event yet.
PeerCloses(i) ==
    /\ Task(i) /\ readyState[i] = "OPEN"
    /\ Becomes(i, "CLOSING")
    /\ UNCHANGED <<object, handlers, task, history, sends>>

\* The connection is over: cleanly, or by a failure, the only way before OPEN.
Ends(i) ==
    /\ Task(i) /\ readyState[i] # "CLOSED"
    /\ Becomes(i, "CLOSED")
    /\ \/ /\ Had(i, "OPEN")
          /\ Fires(i, ws_cb_on_close(i))
          /\ UNCHANGED closing
       \/ /\ Fires(i, ws_cb_on_error(i))
          /\ closing' = i
    /\ UNCHANGED <<obj, handlers, sends>>

\* The second event of that task.
CloseFollows ==
    /\ cur = 0 /\ closing # 0
    /\ Fires(closing, ws_cb_on_close(closing))
    /\ closing' = 0
    /\ UNCHANGED <<obj, readyState, handlers, sends>>

-----------------------------------------------------------------------------
(* The application: between tasks, or in a callback.                       *)

Calling(i) == Live(i) /\ (closing = 0 \/ cur # 0)

Unfinished == {"CONNECTING", "OPEN"}

\* close() of an object whose connection is over does nothing.
emscripten_websocket_close(i) ==
    Becomes(i, IF readyState[i] \in Unfinished THEN "CLOSING" ELSE readyState[i])

\* Without memory, or when the browser refuses the url, NULL is returned.
websocket_create(i) ==
    /\ obj[i] = "none" /\ (closing = 0 \/ cur # 0)
    /\ \A j \in Objects : j < i => obj[j] # "none"
    /\ obj' = [obj EXCEPT ![i] = "live"]
    /\ handlers' = [handlers EXCEPT ![i] = TRUE]
    /\ UNCHANGED <<connected, readyState, task, history, sends>>

\* Mutant: the socket is closed and not deleted.
DestroyCloses(i) ==
    /\ Calling(i)
    /\ emscripten_websocket_close(i)
    /\ obj' = [obj EXCEPT ![i] = "freed"]
    /\ UNCHANGED <<connected, handlers, task, history, sends>>

\* emscripten_websocket_delete takes the handlers away.
websocket_destroy(i) ==
    /\ Calling(i)
    /\ emscripten_websocket_close(i)
    /\ handlers' = [handlers EXCEPT ![i] = FALSE]
    /\ obj' = [obj EXCEPT ![i] = "freed"]
    /\ UNCHANGED <<connected, task, history, sends>>

Sends(i) ==
    /\ accepted[i] < MaxSends
    /\ accepted' = [accepted EXCEPT ![i] = @ + 1]
    /\ sent' = [sent EXCEPT ![i] = IF readyState[i] = "OPEN" THEN @ + 1 ELSE @]
    /\ UNCHANGED <<object, readyState, handlers, task, history>>

\* Mutant: the browser is left to find out.
SendAnyway(i) == Calling(i) /\ Sends(i)

\* Both sends, when they return 0.
websocket_send(i) == Calling(i) /\ connected[i] /\ Sends(i)

\* connected is left alone: the browser's close event will clear it.
websocket_close(i) ==
    /\ Calling(i) /\ readyState[i] \in Unfinished
    /\ emscripten_websocket_close(i)
    /\ UNCHANGED <<object, handlers, task, history, sends>>

-----------------------------------------------------------------------------
Browser ==
    \/ \E i \in Objects : Opens(i) \/ Receives(i) \/ PeerCloses(i) \/ Ends(i)
    \/ CloseFollows

Application ==
    \/ \E i \in Objects : websocket_create(i) \/ websocket_destroy(i)
                            \/ websocket_send(i) \/ websocket_close(i)
    \/ CallbackReturns

Next == Browser \/ Application

Spec == Init /\ [][Next]_vars

-----------------------------------------------------------------------------
\* Each object reports its events as WebSocketEvents says, as the native build
\* does: also when a callback destroys its own object between the error and the
\* close that follows it, or closes, sends or creates another.
Stream(i) == INSTANCE WebSocketEvents WITH stream <- fired[i], consumed <- heard[i]

StreamSpec ==
    /\ \A i \in Objects : Stream(i)!Init
    /\ [][\A i \in Objects : [Stream(i)!Next]_(Stream(i)!vars)]_<<fired, heard>>

\* No callback of the browser comes for an object that websocket_destroy has
\* freed (135-138): not the events of a socket that is still closing, and not
\* the close after an error in whose callback the object was destroyed.
NoLateCallback == ~late

\* A send that returned 0 is with the browser unless the connection was being
\* closed: connected is never set before the socket is open, nor after it is
\* closed, and while it lags behind (between the start of a close and the close
\* event) nothing but those last sends is lost.
SendsHonest ==
    \A i \in Objects :
        /\ accepted[i] # sent[i] => readyState[i] \in {"CLOSING", "CLOSED"}
        /\ Live(i) /\ connected[i] => readyState[i] \in {"OPEN", "CLOSING"}
=============================================================================
