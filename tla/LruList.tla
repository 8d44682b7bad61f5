------------------------------ MODULE LruList ------------------------------
(***************************************************************************)
(* What lru_cache promises: a list of entries, the most recently used one  *)
(* first.  Putting or getting an entry moves it to the front; what no      *)
(* longer fits is dropped from the end, and no more than that.  A get      *)
(* answers with the entry it moves, any other call with nothing.           *)
(***************************************************************************)
EXTENDS Integers, Sequences

CONSTANTS Keys, Data, max_bytes, max_entries

VARIABLES
    list,           \* sequence of records with fields key, size and data
    out             \* the entry that the last call handed out, if it did: <<>> or <<e>>

Bytes(s) ==
    LET sum[i \in 0 .. Len(s)] == IF i = 0 THEN 0 ELSE sum[i - 1] + s[i].size
    IN  sum[Len(s)]

Fits(s) == Len(s) <= max_entries /\ Bytes(s) <= max_bytes

Prefix(s, n) == [i \in 1 .. n |-> s[i]]

\* The longest prefix within both limits (sizes are positive).
Kept(s) ==
    CHOOSE p \in {Prefix(s, n) : n \in 0 .. Len(s)} :
        Fits(p) /\ (Len(p) < Len(s) => ~Fits(Prefix(s, Len(p) + 1)))

\* The list with e in front: it was at place i, or is new and i is one more than
\* the last place.
Raised(e, i) ==
    [j \in 1 .. (IF i <= Len(list) THEN Len(list) ELSE i) |->
        IF j = 1 THEN e ELSE IF j <= i THEN list[j - 1] ELSE list[j]]

\* Where the entry with key k is, or would be if it came last.
IsPlaceOf(i, k) ==
    IF i <= Len(list) THEN list[i].key = k ELSE \A j \in 1 .. Len(list) : list[j].key # k

Init == list = <<>> /\ out = <<>>

\* What is put is at the front afterwards.  A value larger than the whole cache
\* is refused.
Put ==
    /\ \E new \in {list'} :
        /\ new # <<>>
        /\ new[1] \in [key : Keys, size : 1 .. max_bytes, data : Data]
        /\ \E i \in 1 .. Len(list) + 1 :
             IsPlaceOf(i, new[1].key) /\ new = Kept(Raised(new[1], i))
    /\ out' = <<>>

\* The entry that is handed out is the one that moves to the front.
Get == \E i \in 1 .. Len(list) : list' = Raised(list[i], i) /\ out' = <<list[i]>>

Clear == list' = <<>> /\ out' = <<>>

\* A call that fails hands out nothing, and leaves the order as it is.
Fail == UNCHANGED list /\ out' = <<>>

Next == Put \/ Get \/ Clear \/ Fail

Spec == Init /\ [][Next]_<<list, out>>
=============================================================================
