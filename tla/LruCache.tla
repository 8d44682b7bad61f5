------------------------------ MODULE LruCache ------------------------------
(***************************************************************************)
(* lru_cache.c: a doubly linked list of heap nodes, searched from the head *)
(* and trimmed at the tail.  A node is a number, 0 is NULL, live are the   *)
(* nodes allocated and not yet freed; the fields of a node that is not     *)
(* live mean nothing.  Calls come one at a time; the loop that evicts is   *)
(* taken turn by turn, with pc = "evict", and nothing else happens then.   *)
(*                                                                         *)
(* used_bytes cannot wrap: all it counts is allocated at the same time.    *)
(***************************************************************************)
EXTENDS Integers, Sequences, FiniteSetsExt

CONSTANTS
    Keys,
    Data,           \* contents, apart from their length
    Sizes,          \* lengths passed to lru_cache_put_copy
    max_bytes, max_entries

ASSUME LruAssumption ==
    /\ max_bytes \in Nat \ {0} /\ max_entries \in Nat \ {0}
    /\ Sizes \subseteq Nat

VARIABLES
    used_bytes, entry_count, head, tail,        \* struct lru_cache
    live, key, data, size, prev, next,          \* struct lru_cache_entry
    out,        \* what the last call handed out: <<>>, or one copy with its key
    pc

cache == <<used_bytes, entry_count, head, tail>>
heap == <<live, key, data, size, prev, next>>
vars == <<cache, heap, out, pc>>

\* One more than fit: the newest entry is linked before others are evicted.
Nodes == 1 .. max_entries + 1

Init ==
    /\ used_bytes = 0 /\ entry_count = 0 /\ head = 0 /\ tail = 0
    /\ live = {}
    /\ key = [n \in Nodes |-> "free"] /\ data = [n \in Nodes |-> "free"]
    /\ size = [n \in Nodes |-> 0]
    /\ prev = [n \in Nodes |-> 0] /\ next = [n \in Nodes |-> 0]
    /\ out = <<>> /\ pc = "idle"

\* The node reached from the head in n steps.
Nth ==
    LET nth[n \in 0 .. max_entries + 1] ==
          IF n = 0 THEN head
          ELSE LET before == nth[n - 1] IN IF before = 0 THEN 0 ELSE next[before]
    IN  [n \in 0 .. max_entries + 1 |-> nth[n]]

\* lru_cache_find: the first node with the key, or NULL.
lru_cache_find(k) ==
    LET nth == Nth
        found == {n \in 0 .. max_entries : nth[n] # 0 /\ key[nth[n]] = k}
    IN  IF found = {} THEN 0 ELSE nth[Min(found)]

Minus(a, b) == IF a >= b THEN a - b ELSE 0

\* A freed node.
Forget(n) ==
    /\ live' = live \ {n}
    /\ key' = [key EXCEPT ![n] = "free"] /\ data' = [data EXCEPT ![n] = "free"]
    /\ size' = [size EXCEPT ![n] = 0]

lru_cache_remove_entry(e) ==
    LET p == prev[e] n == next[e] IN
    /\ head' = IF p = 0 THEN n ELSE head
    /\ tail' = IF n = 0 THEN p ELSE tail
    /\ next' = [i \in Nodes |-> IF i = p THEN n ELSE IF i = e THEN 0 ELSE next[i]]
    /\ prev' = [i \in Nodes |-> IF i = n THEN p ELSE IF i = e THEN 0 ELSE prev[i]]
    /\ used_bytes' = Minus(used_bytes, size[e])
    /\ entry_count' = Minus(entry_count, 1)
    /\ Forget(e)

\* Mutant: the tail is not moved when its node is.
TouchLeavesTail(e) ==
    LET p == prev[e] n == next[e] IN
    IF head = e THEN UNCHANGED <<head, tail, prev, next>>
    ELSE /\ head' = e /\ UNCHANGED tail
         /\ next' = [i \in Nodes |-> IF i = e THEN head
                                     ELSE IF i = p THEN n ELSE next[i]]
         /\ prev' = [i \in Nodes |-> IF i = e THEN 0 ELSE IF i = head THEN e
                                     ELSE IF i = n THEN p ELSE prev[i]]

lru_cache_touch_front(e) ==
    LET p == prev[e] n == next[e] IN
    IF head = e THEN UNCHANGED <<head, tail, prev, next>>
    ELSE /\ head' = e
         /\ tail' = IF n = 0 THEN p ELSE tail
         /\ next' = [i \in Nodes |-> IF i = e THEN head
                                     ELSE IF i = p THEN n ELSE next[i]]
         /\ prev' = [i \in Nodes |-> IF i = e THEN 0 ELSE IF i = head THEN e
                                     ELSE IF i = n THEN p ELSE prev[i]]

\* Mutant: an entry that is only read stays where it is.
GetLeavesOrder(k) ==
    LET e == lru_cache_find(k) IN
    /\ pc = "idle" /\ e # 0
    /\ out' = <<[key |-> k, size |-> size[e], data |-> data[e]]>>
    /\ UNCHANGED <<cache, heap, pc>>

\* lru_cache_get_copy, when it finds the key and has memory for the copy.
lru_cache_get_copy(k) ==
    LET e == lru_cache_find(k) IN
    /\ pc = "idle" /\ e # 0
    /\ lru_cache_touch_front(e)
    /\ out' = <<[key |-> k, size |-> size[e], data |-> data[e]]>>
    /\ UNCHANGED <<used_bytes, entry_count, live, key, data, size, pc>>

\* Mutant: the old length is not taken off.
ReplaceAddsUp(e, n, d) ==
    /\ data' = [data EXCEPT ![e] = d] /\ size' = [size EXCEPT ![e] = n]
    /\ used_bytes' = used_bytes + n
    /\ lru_cache_touch_front(e)
    /\ UNCHANGED <<entry_count, live, key>>

\* lru_cache_put_copy of a key that is there.
PutReplace(e, n, d) ==
    /\ data' = [data EXCEPT ![e] = d] /\ size' = [size EXCEPT ![e] = n]
    /\ used_bytes' = Minus(used_bytes, size[e]) + n
    /\ lru_cache_touch_front(e)
    /\ UNCHANGED <<entry_count, live, key>>

\* lru_cache_put_copy of a new key; calloc returns the lowest free node.
PutNew(k, n, d) ==
    LET e == Min(Nodes \ live) IN
    /\ live' = live \cup {e}
    /\ key' = [key EXCEPT ![e] = k]
    /\ data' = [data EXCEPT ![e] = d] /\ size' = [size EXCEPT ![e] = n]
    /\ next' = [next EXCEPT ![e] = head]
    /\ prev' = [i \in Nodes |-> IF i = e THEN 0 ELSE IF i = head THEN e ELSE prev[i]]
    /\ head' = e
    /\ tail' = IF tail = 0 THEN e ELSE tail
    /\ entry_count' = entry_count + 1
    /\ used_bytes' = used_bytes + n

\* Mutant: a value of the wrong size is not refused.
PutAnySize(k, n, d) ==
    /\ pc = "idle"
    /\ LET e == lru_cache_find(k)
       IN  IF e # 0 THEN PutReplace(e, n, d) ELSE PutNew(k, n, d)
    /\ out' = <<>> /\ pc' = "evict"

lru_cache_put_copy(k, n, d) ==
    /\ pc = "idle"
    /\ n # 0 /\ n <= max_bytes
    /\ LET e == lru_cache_find(k)
       IN  IF e # 0 THEN PutReplace(e, n, d) ELSE PutNew(k, n, d)
    /\ out' = <<>> /\ pc' = "evict"

\* A get that misses or has no memory for the copy, a put that is refused or has
\* none for the entry: all of it happens before the cache is touched.
CallFails == pc = "idle" /\ out' = <<>> /\ UNCHANGED <<cache, heap, pc>>

Over == (used_bytes > max_bytes \/ entry_count > max_entries) /\ tail # 0

\* One turn of the loop, and its end: the put returns 0.
lru_cache_evict_if_needed ==
    /\ pc = "evict"
    /\ IF Over
       THEN lru_cache_remove_entry(tail) /\ UNCHANGED pc
       ELSE pc' = "idle" /\ UNCHANGED <<cache, heap>>
    /\ UNCHANGED out

\* Also lru_cache_destroy followed by lru_cache_create with the same limits.
lru_cache_clear ==
    /\ pc = "idle"
    /\ head' = 0 /\ tail' = 0 /\ used_bytes' = 0 /\ entry_count' = 0
    /\ live' = live \ {Nth[i] : i \in 0 .. max_entries}
    /\ key' = [n \in Nodes |-> IF n \in live' THEN key[n] ELSE "free"]
    /\ data' = [n \in Nodes |-> IF n \in live' THEN data[n] ELSE "free"]
    /\ size' = [n \in Nodes |-> IF n \in live' THEN size[n] ELSE 0]
    /\ prev' = [n \in Nodes |-> IF n \in live' THEN prev[n] ELSE 0]
    /\ next' = [n \in Nodes |-> IF n \in live' THEN next[n] ELSE 0]
    /\ out' = <<>> /\ UNCHANGED pc

Next ==
    \/ \E k \in Keys : lru_cache_get_copy(k)
    \/ \E k \in Keys, n \in Sizes, d \in Data : lru_cache_put_copy(k, n, d)
    \/ CallFails
    \/ lru_cache_evict_if_needed
    \/ lru_cache_clear

Spec == Init /\ [][Next]_vars

-----------------------------------------------------------------------------
\* The nodes of the list, and what they hold, from the head.
Order ==
    LET nth == Nth
        length == Cardinality({i \in 0 .. max_entries : nth[i] # 0})
    IN  [i \in 1 .. length |-> nth[i - 1]]

Contents ==
    LET order == Order
    IN  [i \in 1 .. Len(order) |->
            [key |-> key[order[i]], size |-> size[order[i]], data |-> data[order[i]]]]

\* The fields of the cache and of its nodes have their types.
FieldsOK ==
    /\ used_bytes \in Nat /\ entry_count \in Nat
    /\ head \in Nodes \cup {0} /\ tail \in Nodes \cup {0}
    /\ live \subseteq Nodes
    /\ \A n \in live : key[n] \in Keys /\ data[n] \in Data /\ size[n] \in Sizes \ {0}
    /\ prev \in [Nodes -> Nodes \cup {0}] /\ next \in [Nodes -> Nodes \cup {0}]
    /\ pc \in {"idle", "evict"}

\* They do, no entry of length 0 is kept, and none is handed out (203, 181).
TypeOK == FieldsOK /\ out \in Seq([key : Keys, size : Sizes \ {0}, data : Data])

\* However gets, overwrites and evictions follow each other, the list read from
\* the head visits every allocated node once and ends at the tail, prev is the
\* inverse of next, and no freed node is reachable (44-101, 255-267).
Linked ==
    LET order == Order n == Len(order) IN
    /\ {order[i] : i \in 1 .. n} = live /\ n = Cardinality(live)
    /\ tail = (IF n = 0 THEN 0 ELSE order[n])
    /\ \A i \in 1 .. n :
         /\ prev[order[i]] = (IF i = 1 THEN 0 ELSE order[i - 1])
         /\ next[order[i]] = (IF i = n THEN 0 ELSE order[i + 1])

\* The lengths of the entries together, added up along the list.
Total ==
    LET order == Order
        sum[i \in 0 .. Len(order)] == IF i = 0 THEN 0 ELSE sum[i - 1] + size[order[i]]
    IN  sum[Len(order)]

\* used_bytes and entry_count are exact at every moment, so the clamps of 62-70
\* and 223-227 never act, and between calls both limits hold (103-114).
Accounted ==
    /\ used_bytes = Total
    /\ entry_count = Cardinality(live)
    /\ pc = "idle" => used_bytes <= max_bytes /\ entry_count <= max_entries

\* The list as an application sees it: what a put still has to evict is gone.
Seen == INSTANCE LruList WITH list <- Contents

Shown ==
    CHOOSE s \in {IF pc = "evict" THEN Seen!Kept(c) ELSE c : c \in {Contents}} : TRUE

List == INSTANCE LruList WITH list <- Shown

\* The cache implements LruList: a get hands out an entry and moves that one to
\* the front, a failed call moves none, evicting is part of the put, and it
\* drops exactly the entries that were put or got longest ago and do not fit
\* (77-114, 181-193, 230, 272).
ListSpec == List!Spec
=============================================================================
