------------------------------ MODULE EventBus ------------------------------
(***************************************************************************)
(* An event_bus_t (event.c on the vendored ee and list): named lists of    *)
(* listeners and, per name, one bridge callback in the emitter.  A         *)
(* listener that is being called may call the bus again, so emits nest:    *)
(* stack holds one frame per event_bridge_dispatch that has not returned.  *)
(*                                                                         *)
(* A listener entry (with its list node) is numbered by its allocation and *)
(* alive until list_remove frees it.  stale is set when the code reads a   *)
(* freed entry, or an argument of another type; nothing is said of what    *)
(* happens then.                                                           *)
(***************************************************************************)
EXTENDS Integers, Sequences, SequencesExt

CONSTANTS
    Names, Fns,     \* event names; listeners with their user_data
    NewListener,    \* EE_NEW_LISTENER, the name ee itself emits
    Polite,         \* listeners leave alone what a dispatch holds (see Spares)
    MaxEntries,     \* bound: listeners ever added
    MaxEmits        \* bound: calls of event_bus_emit

ASSUME EventBusAssumption ==
    Polite \in BOOLEAN /\ MaxEntries \in Nat /\ MaxEmits \in Nat

VARIABLES
    bound,          \* names that have an event_name_binding_t
    lists,          \* its listeners, by name
    handlers,       \* bridge callbacks registered with ee, by name
    entry, alive,   \* event_listener_entry_t, by number; those not freed
    stack,
    stale,
    calls, nemits   \* history: calls of each listener; emits so far

bus == <<bound, lists, handlers, entry, alive>>
vars == <<bus, stack, stale, calls, nemits>>

Init ==
    /\ bound = {}
    /\ lists = [n \in Names |-> <<>>] /\ handlers = [n \in Names |-> 0]
    /\ entry = <<>> /\ alive = {}
    /\ stack = <<>> /\ stale = FALSE
    /\ calls = <<>> /\ nemits = 0

Top == stack[Len(stack)]

Busy == {stack[i].name : i \in 1 .. Len(stack)}

\* The application runs: outside any emit, or in a listener being called.
Running == ~stale /\ (stack # <<>> => Top.phase = "call")

\* The entries that loops of event_bridge_dispatch will read again.
Held == UNION {{stack[i].node, stack[i].next} : i \in 1 .. Len(stack)}

\* A polite listener does not remove these entries, nor have a nested emit remove
\* them.
Spares(entries) == Polite => entries \cap Held = {}

OnceOf(n) == {e \in ToSet(lists[n]) : entry[e].once}

-----------------------------------------------------------------------------
(* Adding and removing listeners.                                          *)

\* ensure_binding: the first listener of a name registers the bridge, and ee
\* tells the listeners of NewListener, passing an argument of its own.
ensure_binding(n) ==
    IF n \in bound THEN UNCHANGED <<bound, handlers, stale>>
    ELSE /\ bound' = bound \cup {n}
         /\ handlers' = [handlers EXCEPT ![n] = @ + 1]
         /\ stale' = (n # NewListener /\ NewListener \in Names
                        /\ handlers'[NewListener] > 0)

\* event_bus_on, event_bus_once.  Without memory for the entry the binding stays.
add_listener_internal(n, fn, once) ==
    /\ Running /\ Len(entry) < MaxEntries
    /\ ensure_binding(n)
    /\ \/ UNCHANGED <<lists, entry, alive, calls>>
       \/ LET e == Len(entry) + 1 IN
          /\ entry' = Append(entry, [fn |-> fn, once |-> once])
          /\ lists' = [lists EXCEPT ![n] = Append(@, e)]
          /\ alive' = alive \cup {e}
          /\ calls' = Append(calls, 0)
    /\ UNCHANGED <<stack, nemits>>

\* Where entry e is in the list of n.
Position(n, e) == CHOOSE i \in 1 .. Len(lists[n]) : lists[n][i] = e

list_remove(n, e) ==
    /\ lists' = [lists EXCEPT ![n] = RemoveAt(@, Position(n, e))]
    /\ alive' = alive \ {e}

\* The first entry that matches, if there is one.
event_bus_off(n, fn) ==
    /\ Running
    /\ \E i \in 1 .. Len(lists[n]) :
         /\ entry[lists[n][i]].fn = fn
         /\ \A j \in 1 .. i - 1 : entry[lists[n][j]].fn # fn
         /\ Spares({lists[n][i]})
         /\ list_remove(n, lists[n][i])
    /\ UNCHANGED <<bound, handlers, entry, stack, stale, calls, nemits>>

\* The binding goes, with its list and every entry in it.
free_binding(n) ==
    /\ bound' = bound \ {n}
    /\ lists' = [lists EXCEPT ![n] = <<>>]
    /\ alive' = alive \ ToSet(lists[n])

\* Mutant: the bridge stays registered.
OffAllKeepsBridge(n) ==
    /\ Running /\ n \in bound /\ (Polite => n \notin Busy)
    /\ free_binding(n)
    /\ UNCHANGED <<handlers, entry, stack, stale, calls, nemits>>

event_bus_off_all(n) ==
    /\ Running /\ n \in bound /\ (Polite => n \notin Busy)
    /\ handlers' = [handlers EXCEPT ![n] = IF @ > 0 THEN @ - 1 ELSE 0]
    /\ free_binding(n)
    /\ UNCHANGED <<entry, stack, stale, calls, nemits>>

\* event_bus_destroy, outside any emit, and event_bus_create.
event_bus_destroy ==
    /\ Running /\ stack = <<>>
    /\ bound' = {} /\ alive' = {}
    /\ lists' = [n \in Names |-> <<>>] /\ handlers' = [n \in Names |-> 0]
    /\ UNCHANGED <<entry, stack, stale, calls, nemits>>

-----------------------------------------------------------------------------
(* Emitting.                                                               *)

FirstOf(n) == IF lists[n] = <<>> THEN 0 ELSE Head(lists[n])

\* event_bridge_dispatch begins: left bridges follow, seen are the listeners
\* called so far, start those registered when it began.
Dispatch(n, left) ==
    [name |-> n, left |-> left, node |-> FirstOf(n), next |-> 0,
     phase |-> "loop", seen |-> <<>>, start |-> lists[n]]

SetTop(f) == [stack EXCEPT ![Len(stack)] = f]

event_bus_emit(n) ==
    /\ Running /\ nemits < MaxEmits /\ Spares(OnceOf(n))
    /\ nemits' = nemits + 1
    /\ stack' = IF handlers[n] = 0 THEN stack
                ELSE Append(stack, Dispatch(n, handlers[n] - 1))
    /\ UNCHANGED <<bus, stale, calls>>

\* node->next
Successor(n, e) ==
    LET i == Position(n, e)
    IN  IF i = Len(lists[n]) THEN 0 ELSE lists[n][i + 1]

\* Mutant: the listener called last is skipped.
CallSkipsLast ==
    /\ ~stale /\ stack # <<>> /\ Top.phase = "loop" /\ Top.node # 0
    /\ Top.node \in alive /\ Successor(Top.name, Top.node) # 0
    /\ stack' = SetTop([Top EXCEPT !.phase = "call",
                                   !.next = LET s == Successor(Top.name, Top.node)
                                            IN  Successor(Top.name, s),
                                   !.seen = Append(@, Top.node)])
    /\ calls' = [calls EXCEPT ![Top.node] = @ + 1]
    /\ UNCHANGED <<bus, stale, nemits>>

\* One turn of the loop: the next node is read, then the listener is called.
CallListener ==
    /\ ~stale /\ stack # <<>> /\ Top.phase = "loop" /\ Top.node # 0
    /\ IF Top.node \in alive
       THEN /\ stack' = SetTop([Top EXCEPT !.phase = "call",
                                           !.next = Successor(Top.name, Top.node),
                                           !.seen = Append(@, Top.node)])
            /\ calls' = [calls EXCEPT ![Top.node] = @ + 1]
            /\ UNCHANGED stale
       ELSE stale' = TRUE /\ UNCHANGED <<stack, calls>>
    /\ UNCHANGED <<bus, nemits>>

\* Mutant: a one-shot listener stays registered.
ReturnKeepsOnce ==
    /\ ~stale /\ stack # <<>> /\ Top.phase = "call"
    /\ stack' = SetTop([Top EXCEPT !.phase = "loop", !.node = Top.next])
    /\ UNCHANGED <<bus, stale, calls, nemits>>

\* Mutant: the successor is read after the listener has been removed.
ReturnReadsNext ==
    /\ ~stale /\ stack # <<>> /\ Top.phase = "call"
    /\ stack' = SetTop([Top EXCEPT !.phase = "loop"])
    /\ IF entry[Top.node].once THEN list_remove(Top.name, Top.node)
                               ELSE UNCHANGED <<lists, alive>>
    /\ UNCHANGED <<bound, handlers, entry, stale, calls, nemits>>

\* The listener returns; a one-shot one is removed now.
ListenerReturns ==
    /\ ~stale /\ stack # <<>> /\ Top.phase = "call"
    /\ IF Top.node \in alive
       THEN /\ stack' = SetTop([Top EXCEPT !.phase = "loop", !.node = Top.next])
            /\ IF entry[Top.node].once THEN list_remove(Top.name, Top.node)
                                       ELSE UNCHANGED <<lists, alive>>
            /\ UNCHANGED stale
       ELSE stale' = TRUE /\ UNCHANGED <<stack, lists, alive>>
    /\ UNCHANGED <<bound, handlers, entry, calls, nemits>>

\* The end of the list: ee_emit goes on to the next bridge, or returns.
DispatchReturns ==
    /\ ~stale /\ stack # <<>> /\ Top.phase = "loop" /\ Top.node = 0
    /\ stack' = IF Top.left > 0 THEN SetTop(Dispatch(Top.name, Top.left - 1))
                                ELSE Front(stack)
    /\ UNCHANGED <<bus, stale, calls, nemits>>

-----------------------------------------------------------------------------
Next ==
    \/ \E n \in Names, fn \in Fns, once \in BOOLEAN : add_listener_internal(n, fn, once)
    \/ \E n \in Names, fn \in Fns : event_bus_off(n, fn)
    \/ \E n \in Names : event_bus_off_all(n) \/ event_bus_emit(n)
    \/ event_bus_destroy
    \/ CallListener \/ ListenerReturns \/ DispatchReturns

Spec == Init /\ [][Next]_vars

-----------------------------------------------------------------------------
\* Listeners may add listeners, remove any but those a running loop holds, emit
\* any event, their own too if that removes none of these: the loops of
\* event_bridge_dispatch (132-142) never touch an entry that has been freed.
NoStale == ~stale

\* A name has its one bridge exactly while it has a binding, whatever was
\* removed, added again or failed for want of memory: no event is dispatched
\* twice or not at all (110-111, 263-277).  The entries it lists are those that
\* have not been freed, each in one list and once there.
BridgeMatches ==
    /\ alive = UNION {ToSet(lists[n]) : n \in Names}
    /\ \A n, m \in Names : \A i \in 1 .. Len(lists[n]), j \in 1 .. Len(lists[m]) :
        lists[n][i] = lists[m][j] => n = m /\ i = j
    /\ \A n \in Names :
        /\ handlers[n] = IF n \in bound THEN 1 ELSE 0
        /\ n \notin bound => lists[n] = <<>>

\* An emit calls listeners in the order of registration, nobody twice, and by
\* its end has called each one that was registered when it began and still
\* is, whatever was added, removed and emitted by the listeners in between.
EmitReachesAll ==
    \A i \in 1 .. Len(stack) :
        LET f == stack[i] IN
        /\ \A j \in 1 .. Len(f.seen) - 1 : f.seen[j] < f.seen[j + 1]
        /\ f.phase = "loop" /\ f.node = 0 =>
             \A e \in ToSet(f.start) \cap alive : e \in ToSet(f.seen)

\* A one-shot listener is called once ("register persistent or one-shot
\* listeners").
OnceOnce == \A e \in 1 .. Len(entry) : entry[e].once => calls[e] <= 1
=============================================================================
