---------------------------- MODULE WsEventQueue ----------------------------
(***************************************************************************)
(* The event queue of a native websocket_t (websocket.c 157-203, 583-586,  *)
(* 615): a singly linked list with a head and a tail pointer.  The worker  *)
(* thread appends under the mutex, websocket_poll unlinks one event at a   *)
(* time under the mutex, websocket_destroy throws away what is left.       *)
(*                                                                         *)
(* A list node is named by the order of its allocation: node i holds the   *)
(* i-th event ever linked, events[i], and points to next[i]; 0 is NULL.    *)
(* events and delivered are histories: a node in delivered has been handed *)
(* to the application and freed, and must never be reachable again.        *)
(***************************************************************************)
EXTENDS Integers, Sequences

CONSTANT
    AllocMayFail    \* TRUE when calloc, malloc and realloc may return NULL

ASSUME AllocAssumption == AllocMayFail \in BOOLEAN

VARIABLES
    events,         \* every event linked so far, by node
    next,           \* websocket_event.next of every node
    event_head,
    event_tail,
    delivered,      \* nodes whose callback websocket_poll has called, in order
    drained         \* websocket_destroy has emptied the queue for good

qvars == <<events, next, event_head, event_tail, delivered, drained>>

QInit ==
    /\ events = <<>>
    /\ next = <<>>
    /\ event_head = 0
    /\ event_tail = 0
    /\ delivered = <<>>
    /\ drained = FALSE

\* Mutant: a new node is linked in front of the others.
EnqueueInFront(ev) ==
    LET n == Len(events) + 1 IN
    /\ events' = Append(events, ev)
    /\ next' = Append(next, event_head)
    /\ event_head' = n
    /\ event_tail' = IF event_tail = 0 THEN n ELSE event_tail
    /\ UNCHANGED <<delivered, drained>>

\* Link a new node at the tail.
LinkEvent(ev) ==
    LET n == Len(events) + 1 IN
    /\ events' = Append(events, ev)
    /\ next' = Append(IF event_tail = 0 THEN next
                      ELSE [next EXCEPT ![event_tail] = n], 0)
    /\ event_head' = IF event_tail = 0 THEN n ELSE event_head
    /\ event_tail' = n
    /\ UNCHANGED <<delivered, drained>>

\* Without memory the event is lost silently.
ws_enqueue_locked(ev) ==
    \/ AllocMayFail /\ UNCHANGED qvars
    \/ LinkEvent(ev)

\* Mutant: event_tail is not reset with the last event.
PopLeavesTail ==
    /\ event_head # 0
    /\ event_head' = next[event_head]
    /\ delivered' = Append(delivered, event_head)
    /\ UNCHANGED <<events, next, event_tail, drained>>

\* Mutant: the event is not unlinked.
PopLeavesHead ==
    /\ event_head # 0
    /\ delivered' = Append(delivered, event_head)
    /\ UNCHANGED <<events, next, event_head, event_tail, drained>>

\* One turn of websocket_poll's loop that finds an event.
PopEvent ==
    /\ event_head # 0
    /\ event_head' = next[event_head]
    /\ event_tail' = IF next[event_head] = 0 THEN 0 ELSE event_tail
    /\ delivered' = Append(delivered, event_head)
    /\ UNCHANGED <<events, next, drained>>

\* websocket_destroy takes the rest of the list and frees it.
DrainEvents ==
    /\ event_head' = 0
    /\ event_tail' = 0
    /\ drained' = TRUE
    /\ UNCHANGED <<events, next, delivered>>

-----------------------------------------------------------------------------
(* What the list promises to both threads.                                 *)

\* The nodes reachable from event_head are exactly the events linked and not
\* yet delivered, in the order they were linked, and event_tail is the last
\* of them: no freed node is reachable and none is skipped (201-202, 586).
QueueLinked ==
    /\ Len(next) = Len(events)
    /\ event_head = 0 <=> event_tail = 0
    /\ event_head = 0 /\ ~drained => Len(delivered) = Len(events)
    /\ event_head # 0 =>
         /\ ~drained
         /\ event_head = Len(delivered) + 1
         /\ event_tail = Len(events)
         /\ event_head <= event_tail
         /\ \A i \in event_head .. event_tail :
              next[i] = IF i < event_tail THEN i + 1 ELSE 0

\* websocket_poll calls back for every event once, in the order the worker
\* linked them.
DeliveredInOrder ==
    /\ Len(delivered) <= Len(events)
    /\ \A i \in 1 .. Len(delivered) : delivered[i] = i
=============================================================================
