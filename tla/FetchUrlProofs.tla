--------------------------- MODULE FetchUrlProofs ---------------------------
(***************************************************************************)
(* Who owns the data of fetch_url's results, for any number of operations, *)
(* blocking fetches, results and parts, in both builds.                    *)
(***************************************************************************)
EXTENDS FetchUrl, TLAPS, SequenceTheorems, FiniteSetTheorems

-----------------------------------------------------------------------------
(* The inductive invariant.                                                *)

States == {"live", "freed", "lost"}

Buffer == [state : States, url : Nat, parts : Nat]

Result == [data : Nat, code : Int, url : Nat]

Typed ==
    /\ build \in {"desktop", "browser"}
    /\ ops \in Seq([op : wg_op_t(Nat), result : Result])
    /\ impl \in Seq([live : BOOLEAN, result : Result]) /\ Len(impl) = Len(ops)
    /\ slots \in [Slots -> Result]
    /\ call \in [busy : BOOLEAN, op : Nat, slot : Slots \cup {0}, url : Nat, data : Nat]
    /\ heap \in Seq(Buffer) /\ body \in Seq(Nat)
    /\ asking \subseteq 1 .. Len(ops) /\ stale \in BOOLEAN /\ nsyncs \in Nat

\* Everything that may hold a buffer, and the buffer it holds.
Holders ==
    ({"slot"} \X Slots) \cup ({"op"} \X (1 .. Len(ops))) \cup ({"call"} \X {0})

Data ==
    [o \in Holders |-> CASE o[1] = "slot" -> slots[o[2]].data
                         [] o[1] = "op" -> Held(o[2]).data
                         [] OTHER -> call.data]

\* d is a one to one map from what holds a buffer to the buffers in use.
Owned(d, h) ==
    /\ \A o \in DOMAIN d : d[o] \in 0 .. Len(h) /\ (d[o] # 0 => h[d[o]].state = "live")
    /\ \A o, p \in DOMAIN d : d[o] = d[p] /\ d[o] # 0 => o = p
    /\ \A b \in 1 .. Len(h) : h[b].state = "live" => \E o \in DOMAIN d : d[o] = b

\* A fetch under way has nowhere an earlier result that it would overwrite.
CallPhase ==
    /\ ~call.busy => call = NoCall
    /\ call.busy =>
         /\ call.url \in 1 .. Len(body)
         /\ call.op = 0 => call.slot \in Slots /\ slots[call.slot].data = 0
         /\ call.op # 0 =>
              /\ build = "desktop" /\ call.op \in 1 .. Len(ops)
              /\ Alive(call.op) /\ impl[call.op].result.data = 0
         /\ build = "browser" => call.data = 0
         /\ call.data # 0 => heap[call.data].url = call.url

\* An operation leads to its own context, until both are freed.
OpPhase ==
    \A i \in 1 .. Len(ops) :
        /\ Alive(i) => wg_op_impl(ops[i].op) = i
        /\ Alive(i) <=> impl[i].live
        /\ ~Alive(i) => impl[i].result = NoResult /\ ops[i].result = NoResult
        /\ i \in asking /\ Alive(i) =>
             /\ ~wg_op_is_done(ops[i].op)
             /\ ops[i].result.data = 0 /\ ops[i].result.code = 0
             /\ ops[i].result.url \in 1 .. Len(body)

\* What BodyWhole says of one result, with the codes that come with data.
Whole(r, h, bd, codes) ==
    /\ r.data # 0 =>
         /\ r.url \in 1 .. Len(bd) /\ r.code \in codes
         /\ h[r.data] = [state |-> "live", url |-> r.url, parts |-> bd[r.url]]
    /\ r.code = 200 => r.data # 0

SlotCodes(b) == IF b = "desktop" THEN {200} ELSE OkStatus \cup OtherStatus

OpCodes(b) == IF b = "desktop" THEN {200} ELSE OkStatus

ResultsWhole ==
    /\ \A s \in Slots : Whole(slots[s], heap, body, SlotCodes(build))
    /\ \A i \in 1 .. Len(ops) : Whole(Held(i), heap, body, OpCodes(build))

IInv ==
    /\ Typed /\ Owned(Data, heap) /\ CallPhase /\ OpPhase
    /\ (build = "desktop" => asking = {})
    /\ ResultsWhole /\ StatusMatches

-----------------------------------------------------------------------------
(* Lemmas about owners.                                                    *)

\* Giving up a buffer changes at most that one.
LEMMA MarkBuffer ==
    ASSUME NEW h \in Seq(Buffer), NEW b \in 0 .. Len(h), NEW st \in {"freed", "lost"}
    PROVE  /\ Mark(h, b, st) \in Seq(Buffer) /\ Len(Mark(h, b, st)) = Len(h)
           /\ \A c \in 1 .. Len(h) : c # b => Mark(h, b, st)[c] = h[c]
           /\ b # 0 => Mark(h, b, st)[b].state # "live"
<1>1. Len(h) \in Nat
  BY LenProperties
<1>2. CASE b = 0
  BY <1>1, <1>2 DEF Mark
<1>3. CASE b # 0
  <2>. DEFINE x == [h[b] EXCEPT !.state = st]
  <2>1. b \in 1 .. Len(h) /\ h[b] \in Buffer
    BY <1>1, <1>3, ElementOfSeq
  <2>2. x \in Buffer /\ x.state # "live"
    BY <2>1 DEF Buffer, States
  <2>3. Mark(h, b, st) = [h EXCEPT ![b] = x]
    BY <1>3 DEF Mark
  <2>. HIDE DEF x
  <2>. QED BY <1>1, <1>3, <2>1, <2>2, <2>3, ExceptSeq
<1>. QED BY <1>2, <1>3

\* malloc adds a buffer behind the others.
LEMMA NewBuffer ==
    ASSUME NEW h \in Seq(Buffer), NEW u \in Nat, NEW parts \in Nat
    PROVE  LET h2 == malloc(h, u, parts) IN
           /\ h2 \in Seq(Buffer) /\ Len(h2) = Len(h) + 1 /\ Len(h) \in Nat
           /\ \A c \in 1 .. Len(h) : h2[c] = h[c]
           /\ h2[Len(h) + 1] = [state |-> "live", url |-> u, parts |-> parts]
<1>1. [state |-> "live", url |-> u, parts |-> parts] \in Buffer
  BY DEF Buffer, States
<1>. QED BY <1>1, AppendProperties, LenProperties DEF malloc

\* Map d2 has the values of d, but for o and p; what is new in it holds nothing.
Elsewhere(d, d2, o, p) ==
    /\ \A q \in DOMAIN d : q \in DOMAIN d2
    /\ \A q \in DOMAIN d2 : q # o /\ q # p => d2[q] = IF q \in DOMAIN d THEN d[q] ELSE 0

\* Who holds nothing any more has given up what it held.
LEMMA OwnedLose ==
    ASSUME NEW d, NEW h \in Seq(Buffer), Owned(d, h), NEW o \in DOMAIN d, NEW d2,
           Elsewhere(d, d2, o, o), d2[o] = 0, NEW st \in {"freed", "lost"}
    PROVE  /\ Owned(d2, Mark(h, d[o], st))
           /\ \A q \in DOMAIN d : q # o /\ d[q] # 0 => Mark(h, d[o], st)[d[q]] = h[d[q]]
<1>1. Len(h) \in Nat /\ d[o] \in 0 .. Len(h)
  BY LenProperties DEF Owned
<1>. DEFINE h2 == Mark(h, d[o], st)
<1>2. /\ Len(h2) = Len(h) /\ (d[o] # 0 => h2[d[o]].state # "live")
      /\ \A c \in 1 .. Len(h) : c # d[o] => h2[c] = h[c]
  BY <1>1, MarkBuffer
<1>. HIDE DEF h2
<1>3. ASSUME NEW q \in DOMAIN d, q # o, d[q] # 0
      PROVE  d[q] \in 1 .. Len(h) /\ d[q] # d[o] /\ h2[d[q]] = h[d[q]]
  <2>1. d[q] \in 1 .. Len(h) /\ d[q] # d[o]
    BY <1>1, <1>3 DEF Owned
  <2>. QED BY <1>2, <2>1
<1>4. Owned(d2, h2)
  <2>1. ASSUME NEW q \in DOMAIN d2
        PROVE  d2[q] \in 0 .. Len(h2) /\ (d2[q] # 0 => h2[d2[q]].state = "live")
    BY <1>1, <1>2, <1>3 DEF Owned, Elsewhere
  <2>2. ASSUME NEW q \in DOMAIN d2, NEW r \in DOMAIN d2, d2[q] = d2[r], d2[q] # 0
        PROVE  q = r
    BY <2>2 DEF Owned, Elsewhere
  <2>3. ASSUME NEW b \in 1 .. Len(h2), h2[b].state = "live"
        PROVE  \E q \in DOMAIN d2 : d2[q] = b
    <3>1. b # d[o] /\ b \in 1 .. Len(h) /\ h[b].state = "live"
      BY <1>1, <1>2, <2>3
    <3>2. PICK q \in DOMAIN d : d[q] = b
      BY <3>1 DEF Owned
    <3>. QED BY <3>1, <3>2 DEF Elsewhere
  <2>. QED BY <2>1, <2>2, <2>3 DEF Owned
<1>. QED BY <1>3, <1>4 DEF h2

\* Who held nothing holds a new buffer.
LEMMA OwnedGain ==
    ASSUME NEW d, NEW h \in Seq(Buffer), Owned(d, h), NEW o \in DOMAIN d, d[o] = 0,
           NEW d2, Elsewhere(d, d2, o, o), d2[o] = Len(h) + 1,
           NEW u \in Nat, NEW parts \in Nat
    PROVE  /\ Owned(d2, malloc(h, u, parts))
           /\ \A q \in DOMAIN d : d[q] # 0 => malloc(h, u, parts)[d[q]] = h[d[q]]
<1>. DEFINE h2 == malloc(h, u, parts)
<1>0. /\ Len(h) \in Nat /\ Len(h2) = Len(h) + 1
      /\ h2[Len(h) + 1] = [state |-> "live", url |-> u, parts |-> parts]
      /\ \A c \in 1 .. Len(h) : h2[c] = h[c]
  BY NewBuffer
<1>1. /\ Len(h) \in Nat /\ Len(h2) = Len(h) + 1 /\ h2[Len(h) + 1].state = "live"
      /\ \A c \in 1 .. Len(h) : h2[c] = h[c]
  BY <1>0
<1>. HIDE DEF h2
<1>2. ASSUME NEW q \in DOMAIN d, d[q] # 0
      PROVE  d[q] \in 1 .. Len(h) /\ h2[d[q]] = h[d[q]]
  <2>1. d[q] \in 1 .. Len(h)
    BY <1>1, <1>2 DEF Owned
  <2>. QED BY <1>1, <2>1
<1>3. o \in DOMAIN d2
  BY DEF Elsewhere
<1>4. Owned(d2, h2)
  <2>1. ASSUME NEW q \in DOMAIN d2
        PROVE  d2[q] \in 0 .. Len(h2) /\ (d2[q] # 0 => h2[d2[q]].state = "live")
    BY <1>1, <1>2 DEF Owned, Elsewhere
  <2>2. ASSUME NEW q \in DOMAIN d2, NEW r \in DOMAIN d2, d2[q] = d2[r], d2[q] # 0
        PROVE  q = r
    BY <1>1, <1>2, <2>2 DEF Owned, Elsewhere
  <2>3. ASSUME NEW b \in 1 .. Len(h2), h2[b].state = "live"
        PROVE  \E q \in DOMAIN d2 : d2[q] = b
    <3>1. CASE b = Len(h) + 1
      BY <1>3, <3>1
    <3>2. CASE b # Len(h) + 1
      <4>1. b \in 1 .. Len(h) /\ h[b].state = "live"
        BY <1>1, <2>3, <3>2
      <4>2. PICK q \in DOMAIN d : d[q] = b
        BY <4>1 DEF Owned
      <4>. QED BY <4>1, <4>2 DEF Elsewhere
    <3>. QED BY <3>1, <3>2
  <2>. QED BY <2>1, <2>2, <2>3 DEF Owned
<1>. QED BY <1>2, <1>4 DEF h2

\* A buffer passes from o to p; the heap stays, but for its contents.
LEMMA OwnedMove ==
    ASSUME NEW d, NEW h \in Seq(Buffer), Owned(d, h), NEW o \in DOMAIN d,
           NEW p \in DOMAIN d, NEW d2, Elsewhere(d, d2, o, p),
           \/ o # p /\ d[p] = 0 /\ d2[o] = 0 /\ d2[p] = d[o]
           \/ o = p /\ d2[o] = d[o],
           NEW h2, Len(h2) = Len(h),
           \A b \in 1 .. Len(h) : h2[b].state = "live" <=> h[b].state = "live"
    PROVE  Owned(d2, h2)
<1>1. Len(h) \in Nat
  BY LenProperties
<1>2. ASSUME NEW q \in DOMAIN d2
      PROVE  d2[q] \in 0 .. Len(h2) /\ (d2[q] # 0 => h2[d2[q]].state = "live")
  <2>1. d2[q] = 0 \/ \E r \in DOMAIN d : d2[q] = d[r]
    BY DEF Elsewhere
  <2>. QED BY <1>1, <2>1 DEF Owned
<1>3. ASSUME NEW q \in DOMAIN d2, NEW r \in DOMAIN d2, d2[q] = d2[r], d2[q] # 0
      PROVE  q = r
  BY <1>3 DEF Owned, Elsewhere
<1>4. ASSUME NEW b \in 1 .. Len(h2), h2[b].state = "live"
      PROVE  \E q \in DOMAIN d2 : d2[q] = b
  <2>1. PICK q \in DOMAIN d : d[q] = b
    BY <1>1, <1>4 DEF Owned
  <2>. QED BY <1>4, <2>1 DEF Elsewhere
<1>. QED BY <1>2, <1>3, <1>4 DEF Owned

\* A whole result stays whole while its buffer does.
LEMMA WholeStays ==
    ASSUME NEW r, NEW h, NEW bd \in Seq(Nat), NEW cs, Whole(r, h, bd, cs), NEW h2,
           NEW bd2 \in Seq(Nat), r.data # 0 => h2[r.data] = h[r.data],
           Len(bd2) >= Len(bd), \A u \in 1 .. Len(bd) : bd2[u] = bd[u]
    PROVE  Whole(r, h2, bd2, cs)
<1>1. Len(bd) \in Nat /\ Len(bd2) \in Nat
  BY LenProperties
<1>2. CASE r.data # 0
  <2>1. /\ r.url \in 1 .. Len(bd) /\ r.code \in cs
        /\ h[r.data] = [state |-> "live", url |-> r.url, parts |-> bd[r.url]]
    BY <1>2 DEF Whole
  <2>2. r.url \in 1 .. Len(bd2) /\ bd2[r.url] = bd[r.url] /\ h2[r.data] = h[r.data]
    BY <1>1, <1>2, <2>1
  <2>. QED BY <1>2, <2>1, <2>2 DEF Whole
<1>3. CASE r.data = 0
  BY <1>3 DEF Whole
<1>. QED BY <1>2, <1>3

-----------------------------------------------------------------------------
(* From the program's variables to owners.                                 *)

HeldBy ==
    /\ DOMAIN Data = Holders
    /\ \A s \in Slots : <<"slot", s>> \in Holders /\ Data[<<"slot", s>>] = slots[s].data
    /\ \A i \in 1 .. Len(ops) :
         <<"op", i>> \in Holders /\ Data[<<"op", i>>] = Held(i).data
    /\ <<"call", 0>> \in Holders /\ Data[<<"call", 0>>] = call.data
    /\ \A o \in Holders : \/ \E s \in Slots : o = <<"slot", s>>
                          \/ \E i \in 1 .. Len(ops) : o = <<"op", i>>
                          \/ o = <<"call", 0>>

\* What a holder is, before and after a step.
LEMMA HoldersAre == HeldBy /\ HeldBy'
<1>1. HeldBy
  BY DEF HeldBy, Holders, Data
<1>2. HeldBy'
  BY DEF HeldBy, Holders, Data
<1>. QED BY <1>1, <1>2

\* A step that changes what o and p hold, and nothing else; operations begun now
\* hold nothing.
Others(o, p) ==
    /\ Len(ops') >= Len(ops)
    /\ \A s \in Slots : <<"slot", s>> \notin {o, p} => slots'[s].data = slots[s].data
    /\ \A i \in 1 .. Len(ops) :
         <<"op", i>> \notin {o, p} => Held(i)'.data = Held(i).data
    /\ \A i \in Len(ops) + 1 .. Len(ops') : Held(i)'.data = 0
    /\ <<"call", 0>> \notin {o, p} => call'.data = call.data

\* Each slot and each operation has its place among the holders.
LEMMA OthersElsewhere ==
    ASSUME Typed, Typed', NEW o \in Holders, NEW p \in Holders, Others(o, p)
    PROVE  Elsewhere(Data, Data', o, p)
<1>1. Len(ops) \in Nat /\ Len(ops') \in Nat
  BY LenProperties DEF Typed
<1>2. HeldBy /\ HeldBy'
  BY HoldersAre
<1>3. ASSUME NEW q \in Holders PROVE q \in Holders'
  BY <1>1, <1>2 DEF HeldBy, Others
<1>4. ASSUME NEW q \in Holders', q # o, q # p
      PROVE  Data'[q] = IF q \in Holders THEN Data[q] ELSE 0
  <2>1. CASE \E s \in Slots : q = <<"slot", s>>
    BY <1>2, <1>4, <2>1 DEF HeldBy, Others
  <2>2. CASE q = <<"call", 0>>
    BY <1>2, <1>4, <2>2 DEF HeldBy, Others
  <2>3. CASE \E i \in 1 .. Len(ops') : q = <<"op", i>>
    <3>1. PICK i \in 1 .. Len(ops') : q = <<"op", i>>
      BY <2>3
    <3>2. CASE i \in 1 .. Len(ops)
      BY <1>2, <1>4, <3>1, <3>2 DEF HeldBy, Others
    <3>3. CASE i \notin 1 .. Len(ops)
      <4>1. q \notin Holders
        BY <3>1, <3>3 DEF Holders
      <4>2. i \in Len(ops) + 1 .. Len(ops')
        BY <1>1, <3>3
      <4>. QED BY <1>2, <3>1, <4>1, <4>2 DEF HeldBy, Others
    <3>. QED BY <3>2, <3>3
  <2>. QED BY <1>2, <2>1, <2>2, <2>3 DEF HeldBy
<1>. QED BY <1>2, <1>3, <1>4 DEF Elsewhere, HeldBy

\* The buffers of everybody but o and p are as they were.
Untouched(o, p) ==
    \A q \in Holders : q \notin {o, p} /\ Data[q] # 0 => heap'[Data[q]] = heap[Data[q]]

BodyGrows == Len(body') >= Len(body) /\ \A u \in 1 .. Len(body) : body'[u] = body[u]

\* The results a step leaves alone stay whole.
LEMMA ResultsStay ==
    ASSUME Typed, Typed', ResultsWhole, BodyGrows, NEW o, NEW p, Untouched(o, p),
           build' = build,
           \A s \in Slots : \/ slots'[s] = slots[s] /\ <<"slot", s>> \notin {o, p}
                            \/ Whole(slots'[s], heap', body', SlotCodes(build)),
           \A i \in 1 .. Len(ops') :
              \/ i \in 1 .. Len(ops) /\ Held(i)' = Held(i) /\ <<"op", i>> \notin {o, p}
              \/ Whole(Held(i)', heap', body', OpCodes(build))
    PROVE  ResultsWhole'
<1>1. HeldBy /\ body \in Seq(Nat) /\ body' \in Seq(Nat)
  BY HoldersAre DEF Typed
<1>2. ASSUME NEW s \in Slots PROVE Whole(slots'[s], heap', body', SlotCodes(build))
  <2>1. CASE slots'[s] = slots[s] /\ <<"slot", s>> \notin {o, p}
    <3>1. Whole(slots[s], heap, body, SlotCodes(build))
      BY DEF ResultsWhole
    <3>2. slots[s].data # 0 => heap'[slots[s].data] = heap[slots[s].data]
      BY <1>1, <2>1 DEF HeldBy, Untouched
    <3>. QED BY <1>1, <2>1, <3>1, <3>2, WholeStays DEF BodyGrows
  <2>. QED BY <2>1
<1>3. ASSUME NEW i \in 1 .. Len(ops') PROVE Whole(Held(i)', heap', body', OpCodes(build))
  <2>1. CASE i \in 1 .. Len(ops) /\ Held(i)' = Held(i) /\ <<"op", i>> \notin {o, p}
    <3>1. Whole(Held(i), heap, body, OpCodes(build))
      BY <2>1 DEF ResultsWhole
    <3>2. Held(i).data # 0 => heap'[Held(i).data] = heap[Held(i).data]
      BY <1>1, <2>1 DEF HeldBy, Untouched
    <3>3. Whole(Held(i), heap', body', OpCodes(build))
      BY <1>1, <3>1, <3>2, WholeStays DEF BodyGrows
    <3>. QED BY <2>1, <3>3
  <2>. QED BY <2>1
<1>. QED BY <1>2, <1>3 DEF ResultsWhole

\* wg_op_complete: the operation is done with this code, the rest is as it was.
LEMMA OpFields ==
    ASSUME NEW op \in wg_op_t(Nat), NEW code \in Int
    PROVE  LET c == wg_op_complete(op, code) IN
           /\ c \in wg_op_t(Nat) /\ c.kind = op.kind /\ c.impl = op.impl
           /\ wg_op_is_done(c) /\ c.status_code = code
<1>. DEFINE c == wg_op_complete(op, code)
<1>1. c = [op EXCEPT !.state = "DONE", !.status_code = code]
  BY DEF wg_op_complete
<1>. HIDE DEF c
<1>2. /\ c \in wg_op_t(Nat) /\ c.kind = op.kind /\ c.impl = op.impl
      /\ c.state = "DONE" /\ c.status_code = code
  BY <1>1 DEF wg_op_t
<1>. QED BY <1>2 DEF wg_op_is_done, c

\* wg_op_deinit: the operation is known to be freed.
LEMMA OpDeinit ==
    ASSUME NEW op \in wg_op_t(Nat)
    PROVE  wg_op_deinit(op) \in wg_op_t(Nat) /\ Freed(wg_op_deinit(op))
<1>. DEFINE a == [op EXCEPT !.kind = "NONE"]
            b == [a EXCEPT !.state = "DONE"]
            c == [b EXCEPT !.status_code = 0]
            d == [c EXCEPT !.impl = NULL]
<1>1. a \in wg_op_t(Nat) /\ a.kind = "NONE"
  BY DEF wg_op_t, Kinds
<1>. HIDE DEF a
<1>2. b \in wg_op_t(Nat) /\ b.kind = "NONE"
  BY <1>1 DEF wg_op_t
<1>. HIDE DEF b
<1>3. c \in wg_op_t(Nat) /\ c.kind = "NONE"
  BY <1>2 DEF wg_op_t
<1>. HIDE DEF c
<1>4. d \in wg_op_t(Nat) /\ d.kind = "NONE"
  BY <1>3 DEF wg_op_t, NULL
<1>5. wg_op_deinit(op) = d
  BY DEF wg_op_deinit, a, b, c
<1>. QED BY <1>4, <1>5 DEF Freed

\* wg_op_init: the operation runs and knows its implementation.
LEMMA OpInit ==
    ASSUME NEW n \in Nat
    PROVE  LET c == wg_op_init("FETCH_URL", n) IN
           c \in wg_op_t(Nat) /\ ~Freed(c) /\ c.impl = n /\ ~wg_op_is_done(c)
  BY DEF wg_op_t, Kinds, wg_op_init, Freed, wg_op_is_done

\* What the variables are made of.
LEMMA Parts ==
    ASSUME Typed
    PROVE  /\ Len(ops) \in Nat /\ Len(impl) = Len(ops) /\ Len(heap) \in Nat
           /\ Len(body) \in Nat
           /\ \A i \in 1 .. Len(ops) :
                /\ ops[i] = [op |-> ops[i].op, result |-> ops[i].result]
                /\ ops[i].op \in wg_op_t(Nat) /\ ops[i].result \in Result
                /\ impl[i].live \in BOOLEAN /\ impl[i].result \in Result
                /\ Held(i) \in Result
           /\ \A u \in 1 .. Len(body) : body[u] \in Nat
           /\ \A b \in 1 .. Len(heap) : heap[b] \in Buffer
           /\ \A s \in Slots : slots[s] \in Result
           /\ NoResult \in Result
<1>1. /\ Len(ops) \in Nat /\ Len(impl) = Len(ops) /\ Len(heap) \in Nat
      /\ Len(body) \in Nat
  BY LenProperties DEF Typed
<1>2. ASSUME NEW i \in 1 .. Len(ops)
      PROVE  /\ ops[i] = [op |-> ops[i].op, result |-> ops[i].result]
             /\ ops[i].op \in wg_op_t(Nat) /\ ops[i].result \in Result
             /\ impl[i].live \in BOOLEAN /\ impl[i].result \in Result
  <2>1. /\ ops[i] \in [op : wg_op_t(Nat), result : Result]
        /\ impl[i] \in [live : BOOLEAN, result : Result]
    BY <1>1, ElementOfSeq DEF Typed
  <2>. QED BY <2>1
<1>3. /\ \A u \in 1 .. Len(body) : body[u] \in Nat
      /\ \A b \in 1 .. Len(heap) : heap[b] \in Buffer
      /\ \A s \in Slots : slots[s] \in Result
  BY <1>1, ElementOfSeq DEF Typed
<1>4. NoResult \in Result
  BY DEF NoResult, Result
<1>. QED BY <1>1, <1>2, <1>3, <1>4 DEF Held

\* Only o and p get another result, and a whole one; the call's data changes only
\* if the call is one of them.
Changed(o, p) ==
    /\ Len(ops') >= Len(ops) /\ build' = build
    /\ \A s \in Slots :
         IF <<"slot", s>> \in {o, p} THEN Whole(slots'[s], heap', body', SlotCodes(build))
                                     ELSE slots'[s] = slots[s]
    /\ \A i \in 1 .. Len(ops) :
         IF <<"op", i>> \in {o, p} THEN Whole(Held(i)', heap', body', OpCodes(build))
                                   ELSE Held(i)' = Held(i)
    /\ \A i \in Len(ops) + 1 .. Len(ops') : Held(i)'.data = 0 /\ Held(i)'.code # 200
    /\ <<"call", 0>> \notin {o, p} => call'.data = call.data

\* o frees what it holds, p gets a new buffer, or o hands over to p, which loses
\* what it held.
LEMMA Transfer ==
    ASSUME Typed, Typed', Owned(Data, heap), ResultsWhole, BodyGrows,
           NEW o \in Holders, NEW p \in Holders, Changed(o, p),
           \/ /\ Data'[o] = 0 /\ (p = o \/ Data'[p] = Data[p])
              /\ heap' = free(heap, Data[o])
           \/ /\ Data[p] = 0 /\ Data'[p] = Len(heap) + 1 /\ (p = o \/ Data'[o] = Data[o])
              /\ \E u, n \in Nat : heap' = malloc(heap, u, n)
           \/ /\ o # p /\ Data'[o] = 0 /\ Data'[p] = Data[o]
              /\ heap' = Mark(heap, Data[p], "lost")
    PROVE  Owned(Data', heap') /\ ResultsWhole'
<1>1. heap \in Seq(Buffer) /\ DOMAIN Data = Holders
  BY HoldersAre DEF Typed, HeldBy
<1>2. Elsewhere(Data, Data', o, p)
  <2>1. Others(o, p)
    BY DEF Others, Changed
  <2>. QED BY <2>1, OthersElsewhere
<1>3. Owned(Data', heap') /\ Untouched(o, p)
  <2>1. CASE /\ Data'[o] = 0 /\ (p = o \/ Data'[p] = Data[p])
             /\ heap' = free(heap, Data[o])
    <3>1. Elsewhere(Data, Data', o, o)
      BY <1>1, <1>2, <2>1 DEF Elsewhere
    <3>. QED BY <1>1, <2>1, <3>1, OwnedLose DEF Untouched, free
  <2>2. CASE /\ Data[p] = 0 /\ Data'[p] = Len(heap) + 1 /\ (p = o \/ Data'[o] = Data[o])
             /\ \E u, n \in Nat : heap' = malloc(heap, u, n)
    <3>1. Elsewhere(Data, Data', p, p)
      BY <1>1, <1>2, <2>2 DEF Elsewhere
    <3>. QED BY <1>1, <2>2, <3>1, OwnedGain DEF Untouched
  <2>3. CASE /\ o # p /\ Data'[o] = 0 /\ Data'[p] = Data[o]
             /\ heap' = Mark(heap, Data[p], "lost")
    <3>. DEFINE d == [Data EXCEPT ![p] = 0]
    <3>1. /\ DOMAIN d = Holders /\ d[p] = 0 /\ d[o] = Data[o]
          /\ \A q \in Holders : q # p => d[q] = Data[q]
      BY <1>1, <2>3
    <3>. HIDE DEF d
    <3>2. Elsewhere(Data, d, p, p) /\ Elsewhere(d, Data', o, p)
      BY <1>1, <1>2, <3>1 DEF Elsewhere
    <3>3. /\ Owned(d, heap')
          /\ \A q \in Holders : q # p /\ Data[q] # 0 => heap'[Data[q]] = heap[Data[q]]
      BY <1>1, <2>3, <3>1, <3>2, OwnedLose
    <3>4. Owned(Data', heap')
      <4>1. heap' \in Seq(Buffer)
        BY DEF Typed
      <4>. QED BY <2>3, <3>1, <3>2, <3>3, <4>1, OwnedMove
    <3>. QED BY <3>3, <3>4 DEF Untouched
  <2>. QED BY <2>1, <2>2, <2>3
<1>4. ResultsWhole'
  <2>1. ASSUME NEW i \in 1 .. Len(ops')
        PROVE  \/ i \in 1 .. Len(ops) /\ Held(i)' = Held(i) /\ <<"op", i>> \notin {o, p}
               \/ Whole(Held(i)', heap', body', OpCodes(build))
    <3>1. CASE i \in 1 .. Len(ops)
      BY <3>1 DEF Changed
    <3>2. CASE i \notin 1 .. Len(ops)
      <4>1. i \in Len(ops) + 1 .. Len(ops')
        BY <3>2, LenProperties DEF Typed
      <4>. QED BY <4>1 DEF Changed, Whole
    <3>. QED BY <3>1, <3>2
  <2>2. \A s \in Slots : \/ slots'[s] = slots[s] /\ <<"slot", s>> \notin {o, p}
                         \/ Whole(slots'[s], heap', body', SlotCodes(build))
    BY DEF Changed
  <2>. QED BY <1>3, <2>1, <2>2, ResultsStay DEF Changed
<1>. QED BY <1>3, <1>4

-----------------------------------------------------------------------------
(* The steps of a blocking fetch.                                          *)

\* Nothing changes but heap and the results of slots.
LEMMA SlotsOnly ==
    ASSUME IInv, UNCHANGED <<build, ops, impl, asking>>, BodyGrows, Len(body) \in Nat,
           Len(body') \in Nat
    PROVE  /\ OpPhase' /\ StatusMatches' /\ (build' = "desktop" => asking' = {})
           /\ \A i \in 1 .. Len(ops) : Held(i)' = Held(i)
<1>1. \A i \in 1 .. Len(ops) : Held(i)' = Held(i) /\ (Alive(i)' <=> Alive(i))
  BY DEF Held, Alive
<1>2. OpPhase'
  BY <1>1 DEF IInv, OpPhase, BodyGrows
<1>3. StatusMatches'
  BY <1>1 DEF IInv, StatusMatches
<1>. QED BY <1>1, <1>2, <1>3 DEF IInv

\* fetch_url_sync leaves its result, and fetch_url_async completes its operation.
LEMMA ReturnStep ==
    ASSUME IInv, call.busy, NEW r \in Result, Return(r),
           Whole(r, heap', body, SlotCodes(build)), heap' \in Seq(Buffer),
           \/ r.data = 0 /\ heap' = free(heap, call.data)
           \/ /\ call.data = 0 /\ r.data = Len(heap) + 1
              /\ \E n \in Nat : heap' = malloc(heap, call.url, n)
           \/ r.data = call.data /\ heap' = heap
    PROVE  IInv'
<1>. DEFINE o == <<"call", 0>>
<1>1. /\ Typed /\ Owned(Data, heap) /\ CallPhase /\ OpPhase /\ ResultsWhole
      /\ StatusMatches /\ (build = "desktop" => asking = {})
  BY DEF IInv
<1>2. /\ call' = NoCall /\ UNCHANGED <<build, body, asking, stale, nsyncs>>
  BY DEF Return
<1>3. BodyGrows /\ Len(body) \in Nat /\ Len(ops) \in Nat /\ Len(impl) = Len(ops)
  BY <1>1, <1>2, Parts DEF BodyGrows
<1>4. NoCall \in [busy : BOOLEAN, op : Nat, slot : Slots \cup {0}, url : Nat, data : Nat]
  BY DEF NoCall
<1>5. CallPhase' /\ call'.data = 0
  BY <1>2 DEF CallPhase, NoCall
<1>6. HeldBy /\ HeldBy' /\ call.url \in Nat
  BY <1>1, HoldersAre DEF Typed
<1>7. ASSUME NEW t \in Holders, t # o, Data[t] = 0, Data'[t] = r.data, Changed(o, t), Typed'
      PROVE  Owned(Data', heap') /\ ResultsWhole'
  <2>1. o \in Holders /\ Data[o] = call.data /\ Data'[o] = 0
    BY <1>5, <1>6 DEF HeldBy
  <2>2. CASE r.data = 0 /\ heap' = free(heap, call.data)
    BY <1>1, <1>3, <1>7, <2>1, <2>2, Transfer
  <2>3. CASE /\ call.data = 0 /\ r.data = Len(heap) + 1
             /\ \E n \in Nat : heap' = malloc(heap, call.url, n)
    <3>1. \E u, n \in Nat : heap' = malloc(heap, u, n)
      BY <1>6, <2>3
    <3>. QED BY <1>1, <1>3, <1>7, <2>1, <2>3, <3>1, Transfer
  <2>4. CASE r.data = call.data /\ heap' = heap
    <3>1. heap' = Mark(heap, Data[t], "lost")
      BY <1>7, <2>4 DEF Mark
    <3>. QED BY <1>1, <1>3, <1>7, <2>1, <2>4, <3>1, Transfer
  <2>. QED BY <2>2, <2>3, <2>4
<1>8. CASE call.op = 0
  <2>1. PICK s \in Slots : s = call.slot /\ slots[s].data = 0
    BY <1>1, <1>8 DEF CallPhase
  <2>2. slots' = [slots EXCEPT ![s] = r] /\ UNCHANGED <<ops, impl>>
    BY <1>8, <2>1 DEF Return
  <2>3. Typed'
    BY <1>1, <1>2, <1>4, <2>2 DEF Typed
  <2>4. OpPhase' /\ StatusMatches' /\ \A i \in 1 .. Len(ops) : Held(i)' = Held(i)
    BY <1>2, <1>3, <2>2, SlotsOnly
  <2>5. /\ slots'[s] = r /\ \A q \in Slots : q # s => slots'[q] = slots[q]
    BY <1>1, <2>2 DEF Typed
  <2>6. Changed(o, <<"slot", s>>)
    BY <1>2, <1>3, <2>2, <2>4, <2>5 DEF Changed
  <2>7. /\ <<"slot", s>> \in Holders /\ Data[<<"slot", s>>] = 0
        /\ Data'[<<"slot", s>>] = r.data
    BY <1>6, <2>1, <2>5 DEF HeldBy
  <2>8. Owned(Data', heap') /\ ResultsWhole'
    BY <1>7, <2>3, <2>6, <2>7
  <2>. QED BY <1>1, <1>2, <1>5, <2>3, <2>4, <2>8 DEF IInv
<1>9. CASE call.op # 0
  <2>1. PICK k \in 1 .. Len(ops) : k = call.op
    BY <1>1, <1>9 DEF CallPhase
  <2>2. /\ build = "desktop" /\ Alive(k) /\ impl[k].result.data = 0 /\ asking = {}
    BY <1>1, <1>9, <2>1 DEF CallPhase
  <2>. DEFINE c == wg_op_complete(ops[k].op, r.code)
              x == [op |-> c, result |-> r]
              y == [impl[k] EXCEPT !.result = r]
  <2>3. /\ impl' = [impl EXCEPT ![k] = y]
        /\ ops' = [ops EXCEPT ![k] = x]
        /\ slots' = slots
    BY <1>9, <2>1 DEF Return
  <2>4. /\ ops[k].op \in wg_op_t(Nat) /\ r.code \in Int
        /\ impl[k] \in [live : BOOLEAN, result : Result]
    BY <1>1, <1>3, Parts, ElementOfSeq DEF Result, Typed
  <2>5. /\ c \in wg_op_t(Nat) /\ c.kind = ops[k].op.kind /\ c.impl = ops[k].op.impl
        /\ wg_op_is_done(c) /\ c.status_code = r.code
    BY <2>4, OpFields
  <2>. HIDE DEF c
  <2>6. x \in [op : wg_op_t(Nat), result : Result] /\ x.op = c /\ x.result = r
    BY <2>5
  <2>7. y \in [live : BOOLEAN, result : Result] /\ y.live = impl[k].live /\ y.result = r
    BY <2>4
  <2>. HIDE DEF x, y
  <2>8. /\ ops' \in Seq([op : wg_op_t(Nat), result : Result]) /\ Len(ops') = Len(ops)
        /\ ops'[k] = x /\ \A i \in 1 .. Len(ops) : i # k => ops'[i] = ops[i]
    BY <1>1, <2>3, <2>6, ExceptSeq DEF Typed
  <2>9. /\ impl' \in Seq([live : BOOLEAN, result : Result]) /\ Len(impl') = Len(ops)
        /\ impl'[k] = y /\ \A i \in 1 .. Len(ops) : i # k => impl'[i] = impl[i]
    BY <1>1, <1>3, <2>3, <2>7, ExceptSeq DEF Typed
  <2>10. Typed'
    BY <1>1, <1>2, <1>4, <2>3, <2>8, <2>9 DEF Typed
  <2>11. /\ Held(k)' = r /\ Held(k).data = 0
         /\ \A i \in 1 .. Len(ops) : i # k => Held(i)' = Held(i)
    BY <1>2, <2>2, <2>7, <2>8, <2>9 DEF Held
  <2>12. Changed(o, <<"op", k>>)
    <3>1. SlotCodes(build) = OpCodes(build)
      BY <2>2 DEF SlotCodes, OpCodes
    <3>. QED BY <1>2, <1>3, <2>3, <2>8, <2>11, <3>1 DEF Changed
  <2>13. /\ <<"op", k>> \in Holders /\ Data[<<"op", k>>] = 0 /\ Data'[<<"op", k>>] = r.data
    BY <1>6, <2>8, <2>11 DEF HeldBy
  <2>14. Owned(Data', heap') /\ ResultsWhole'
    BY <1>7, <2>10, <2>12, <2>13
  <2>15. \A i \in 1 .. Len(ops) : (Alive(i)' <=> Alive(i)) /\ impl'[i].live = impl[i].live
    BY <2>5, <2>6, <2>7, <2>8, <2>9 DEF Alive, Freed
  <2>16. OpPhase'
    BY <1>1, <1>2, <2>2, <2>5, <2>6, <2>8, <2>9, <2>15 DEF OpPhase, wg_op_impl
  <2>17. StatusMatches'
    BY <1>1, <2>5, <2>6, <2>8, <2>11, <2>15 DEF StatusMatches
  <2>. QED BY <1>1, <1>2, <1>5, <2>10, <2>14, <2>16, <2>17 DEF IInv
<1>. QED BY <1>8, <1>9

\* The ways in which a blocking fetch ends.
LEMMA EndStep ==
    ASSUME IInv, PerformFails \/ PerformRefused \/ PerformOk \/ JspiAnswers
    PROVE  IInv'
<1>. DEFINE b == call.data
            u == call.url
<1>1. /\ Typed /\ Owned(Data, heap) /\ CallPhase /\ call.busy /\ HeldBy
  BY HoldersAre DEF IInv, PerformFails, PerformRefused, PerformOk, JspiAnswers, Curl
<1>2. /\ b \in 0 .. Len(heap) /\ (b # 0 => heap[b].state = "live")
      /\ u \in 1 .. Len(body) /\ u \in Nat /\ body[u] \in Nat
      /\ (b # 0 => heap[b].url = u) /\ (build = "browser" => b = 0)
      /\ heap \in Seq(Buffer) /\ Len(heap) \in Nat
  BY <1>1, Parts DEF CallPhase, HeldBy, Owned, Typed
<1>3. free(heap, b) \in Seq(Buffer)
  BY <1>2, MarkBuffer DEF free
<1>. HIDE DEF b, u
<1>4. ASSUME NEW code \in Int \ {200}, heap' = free(heap, b),
             Return([data |-> 0, code |-> code, url |-> u])
      PROVE  IInv'
  <2>. DEFINE r == [data |-> 0, code |-> code, url |-> u]
  <2>1. r \in Result /\ Whole(r, heap', body, SlotCodes(build)) /\ r.data = 0
    BY <1>2, <1>4 DEF Result, Whole
  <2>. HIDE DEF r
  <2>. QED BY <1>1, <1>3, <1>4, <2>1, ReturnStep DEF r, b
<1>5. ASSUME NEW code \in SlotCodes(build), code \in Int, NEW n, n = body[u], b = 0,
             heap' = malloc(heap, u, n),
             Return([data |-> Len(heap'), code |-> code, url |-> u])
      PROVE  IInv'
  <2>1. /\ heap' \in Seq(Buffer) /\ Len(heap') = Len(heap) + 1
        /\ heap'[Len(heap) + 1] = [state |-> "live", url |-> u, parts |-> n]
    BY <1>2, <1>5, NewBuffer
  <2>. DEFINE r == [data |-> Len(heap'), code |-> code, url |-> u]
  <2>2. r \in Result /\ r.data = Len(heap) + 1 /\ r.code = code /\ r.url = u
    BY <1>2, <1>5, <2>1 DEF Result
  <2>3. Return(r)
    BY <1>5
  <2>. HIDE DEF r
  <2>4. Whole(r, heap', body, SlotCodes(build))
    BY <1>2, <1>5, <2>1, <2>2 DEF Whole
  <2>. QED BY <1>1, <1>2, <1>5, <2>1, <2>2, <2>3, <2>4, ReturnStep DEF b, u
<1>6. ASSUME b # 0, 200 \in SlotCodes(build), heap[b].parts = body[u], heap' = heap,
             Return([data |-> b, code |-> 200, url |-> u])
      PROVE  IInv'
  <2>. DEFINE r == [data |-> b, code |-> 200, url |-> u]
  <2>1. r \in Result /\ r.data = b /\ r.code = 200 /\ r.url = u
    BY <1>2 DEF Result
  <2>2. Return(r)
    BY <1>6
  <2>. HIDE DEF r
  <2>3. heap[b] = [state |-> "live", url |-> u, parts |-> body[u]]
    <3>1. heap[b] \in Buffer
      BY <1>2, <1>6, ElementOfSeq
    <3>2. heap[b].state = "live"
      BY <1>2, <1>6, <3>1 DEF Buffer
    <3>. QED BY <1>2, <1>6, <3>1, <3>2 DEF Buffer
  <2>4. Whole(r, heap', body, SlotCodes(build))
    BY <1>2, <1>6, <2>1, <2>3 DEF Whole
  <2>. QED BY <1>1, <1>2, <1>6, <2>1, <2>2, <2>4, ReturnStep DEF b
<1>7. CASE PerformFails
  BY <1>4, <1>7 DEF PerformFails, b, u
<1>8. CASE PerformRefused
  <2>1. PICK status \in (OkStatus \cup OtherStatus) \ {200} :
          Return([data |-> 0, code |-> status, url |-> u])
    BY <1>8 DEF PerformRefused, u
  <2>2. heap' = free(heap, b)
    BY <1>8 DEF PerformRefused, b
  <2>3. status \in Int /\ status # 200
    BY <2>1, FetchUrlAssumption
  <2>. QED BY <1>4, <2>1, <2>2, <2>3
<1>9. CASE PerformOk
  <2>1. Received = body[u] /\ 200 \in SlotCodes(build)
    BY <1>9 DEF PerformOk, Curl, SlotCodes, u
  <2>2. CASE /\ heap' = free(heap, call.data)
             /\ Return([data |-> 0, code |-> -1, url |-> call.url])
    BY <1>4, <2>2 DEF b, u
  <2>3. CASE /\ heap' = IF call.data = 0 THEN malloc(heap, call.url, 0) ELSE heap
             /\ Return([data |-> IF call.data = 0 THEN Len(heap') ELSE call.data,
                        code |-> 200, url |-> call.url])
    <3>1. CASE b = 0
      BY <1>5, <2>1, <2>3, <3>1 DEF b, u, Received
    <3>2. CASE b # 0
      BY <1>6, <2>1, <2>3, <3>2 DEF b, u, Received
    <3>. QED BY <3>1, <3>2
  <2>. QED BY <1>9, <2>2, <2>3 DEF PerformOk
<1>10. CASE JspiAnswers
  <2>1. b = 0
    BY <1>2, <1>10 DEF JspiAnswers
  <2>2. CASE /\ heap' = malloc(heap, call.url, body[call.url])
             /\ \E status \in OkStatus \cup OtherStatus :
                  Return([data |-> Len(heap'), code |-> status, url |-> call.url])
    <3>1. \A status \in OkStatus \cup OtherStatus : status \in SlotCodes(build) /\ status \in Int
      BY <1>10, FetchUrlAssumption DEF SlotCodes, JspiAnswers
    <3>. QED BY <1>5, <2>1, <2>2, <3>1 DEF u
  <2>3. CASE /\ UNCHANGED heap
             /\ Return([data |-> 0, code |-> 500, url |-> call.url])
    BY <1>4, <2>1, <2>3 DEF u, free, Mark
  <2>. QED BY <1>10, <2>2, <2>3 DEF JspiAnswers
<1>. QED BY <1>7, <1>8, <1>9, <1>10

\* A part of the body arrives.
LEMMA WriteStep ==
    ASSUME IInv, write_callback
    PROVE  IInv'
<1>. DEFINE o == <<"call", 0>>
<1>1. /\ Typed /\ Owned(Data, heap) /\ CallPhase /\ ResultsWhole /\ HeldBy /\ HeldBy'
      /\ call.busy /\ build = "desktop" /\ asking = {}
  BY HoldersAre DEF IInv, write_callback, Curl
<1>2. /\ UNCHANGED <<build, ops, impl, slots, body, asking, stale, nsyncs>>
  BY DEF write_callback
<1>3. /\ call.data \in 0 .. Len(heap) /\ (call.data # 0 => heap[call.data].state = "live")
      /\ call.url \in 1 .. Len(body) /\ call.url \in Nat
      /\ (call.data # 0 => heap[call.data].url = call.url)
      /\ heap \in Seq(Buffer) /\ Len(heap) \in Nat /\ Len(body) \in Nat /\ Len(ops) \in Nat
      /\ call \in [busy : BOOLEAN, op : Nat, slot : Slots \cup {0}, url : Nat, data : Nat]
  BY <1>1, Parts DEF CallPhase, HeldBy, Owned, Typed
<1>4. BodyGrows
  BY <1>2, <1>3 DEF BodyGrows
<1>5. OpPhase' /\ StatusMatches' /\ \A i \in 1 .. Len(ops) : Held(i)' = Held(i)
  BY <1>2, <1>3, <1>4, SlotsOnly
<1>6. CASE call.data = 0
  <2>1. heap' = malloc(heap, call.url, 1) /\ call' = [call EXCEPT !.data = Len(heap')]
    BY <1>6 DEF write_callback
  <2>2. /\ heap' \in Seq(Buffer) /\ Len(heap') = Len(heap) + 1
        /\ heap'[Len(heap) + 1] = [state |-> "live", url |-> call.url, parts |-> 1]
    BY <1>3, <2>1, NewBuffer
  <2>3. /\ call' \in [busy : BOOLEAN, op : Nat, slot : Slots \cup {0}, url : Nat, data : Nat]
        /\ call'.data = Len(heap) + 1 /\ call'.busy = call.busy /\ call'.op = call.op
        /\ call'.slot = call.slot /\ call'.url = call.url
    <3>1. call' = [call EXCEPT !.data = Len(heap) + 1] /\ Len(heap) + 1 \in Nat
      BY <1>3, <2>1, <2>2
    <3>. QED BY ONLY <1>3, <3>1
  <2>4. Typed'
    BY <1>1, <1>2, <2>2, <2>3 DEF Typed
  <2>5. Changed(o, o)
    BY <1>2, <1>3, <1>5 DEF Changed
  <2>6. o \in Holders /\ Data[o] = 0 /\ Data'[o] = Len(heap) + 1
    BY <1>1, <1>6, <2>3 DEF HeldBy
  <2>7. \E u, n \in Nat : heap' = malloc(heap, u, n)
    BY <1>3, <2>1
  <2>8. Owned(Data', heap') /\ ResultsWhole'
    BY <1>1, <1>4, <2>4, <2>5, <2>6, <2>7, Transfer
  <2>9. heap'[call'.data].url = call'.url
    BY <2>2, <2>3
  <2>10. CallPhase'
    BY <1>1, <1>2, <2>3, <2>9 DEF CallPhase, Alive
  <2>. QED BY <1>1, <1>2, <1>5, <2>4, <2>8, <2>10 DEF IInv
<1>7. CASE call.data # 0
  <2>. DEFINE b == call.data
              x == [heap[b] EXCEPT !.parts = @ + 1]
  <2>1. heap' = [heap EXCEPT ![b] = x] /\ call' = call
    BY <1>7 DEF write_callback
  <2>2. b \in 1 .. Len(heap) /\ heap[b] \in Buffer
    BY <1>3, <1>7, ElementOfSeq
  <2>3. x \in Buffer /\ x.state = heap[b].state /\ x.url = heap[b].url
    BY <2>2 DEF Buffer
  <2>. HIDE DEF x
  <2>4. /\ heap' \in Seq(Buffer) /\ Len(heap') = Len(heap) /\ heap'[b] = x
        /\ \A c \in 1 .. Len(heap) : c # b => heap'[c] = heap[c]
    BY <1>3, <2>1, <2>2, <2>3, ExceptSeq
  <2>5. Typed'
    BY <1>1, <1>2, <2>1, <2>4 DEF Typed
  <2>6. Changed(o, o)
    BY <1>2, <1>3, <1>5 DEF Changed
  <2>7. o \in Holders /\ Data[o] = b /\ Data'[o] = Data[o] /\ DOMAIN Data = Holders
    BY <1>1, <2>1 DEF HeldBy
  <2>8. Owned(Data', heap')
    <3>1. Elsewhere(Data, Data', o, o)
      <4>1. Others(o, o)
        BY <2>6 DEF Others, Changed
      <4>. QED BY <1>1, <2>5, <2>7, <4>1, OthersElsewhere
    <3>2. \A c \in 1 .. Len(heap) : heap'[c].state = "live" <=> heap[c].state = "live"
      BY <2>3, <2>4
    <3>. QED BY <1>1, <1>3, <2>4, <2>7, <3>1, <3>2, OwnedMove
  <2>9. Untouched(o, o)
    <3>1. ASSUME NEW q \in Holders, q # o, Data[q] # 0
          PROVE  heap'[Data[q]] = heap[Data[q]]
      <4>1. Data[q] \in 1 .. Len(heap) /\ Data[q] # b
        BY <1>1, <1>3, <2>7, <3>1 DEF Owned
      <4>. QED BY <2>4, <4>1
    <3>. QED BY <3>1 DEF Untouched
  <2>10. ResultsWhole'
    BY <1>1, <1>2, <1>4, <1>5, <2>5, <2>9, ResultsStay
  <2>11. CallPhase'
    BY <1>1, <1>2, <2>1, <2>3, <2>4 DEF CallPhase, Alive
  <2>. QED BY <1>1, <1>2, <1>5, <2>5, <2>8, <2>10, <2>11 DEF IInv
<1>. QED BY <1>6, <1>7

\* Another part sent is behind the earlier ones.
LEMMA BodyAppend ==
    ASSUME Typed, NEW n \in Nat, body' = Append(body, n)
    PROVE  /\ body' \in Seq(Nat) /\ BodyGrows /\ Len(body) \in Nat
           /\ Len(body') = Len(body) + 1 /\ NextUrl \in 1 .. Len(body') /\ NextUrl \in Nat
<1>1. /\ Len(body) \in Nat /\ body' \in Seq(Nat) /\ Len(body') = Len(body) + 1
      /\ \A u \in 1 .. Len(body) : body'[u] = body[u]
  BY LenProperties, AppendProperties DEF Typed
<1>. QED BY <1>1 DEF BodyGrows, NextUrl

\* The application's result s is freed, and a fetch into it may begin.
LEMMA SlotStep ==
    ASSUME IInv, NEW s \in Slots, NEW r \in {NoResult, [NoResult EXCEPT !.code = -1]},
           heap' = free(heap, slots[s].data), slots' = [slots EXCEPT ![s] = r],
           UNCHANGED <<build, ops, impl, asking, stale>>, nsyncs' \in Nat,
           \/ UNCHANGED <<call, body>> /\ Running /\ Usable(s)
           \/ ~call.busy /\ \E parts \in 0 .. MaxParts : Perform(0, s, parts)
    PROVE  IInv'
<1>. DEFINE o == <<"slot", s>>
<1>1. /\ Typed /\ Owned(Data, heap) /\ CallPhase /\ ResultsWhole /\ HeldBy /\ HeldBy'
      /\ (build = "desktop" => asking = {})
  BY HoldersAre DEF IInv
<1>2. /\ r \in Result /\ r.data = 0 /\ r.code # 200
      /\ Whole(r, heap', body', SlotCodes(build))
      /\ heap \in Seq(Buffer) /\ Len(heap) \in Nat /\ Len(ops) \in Nat /\ Len(body) \in Nat
  <2>1. r \in Result /\ r.data = 0 /\ r.code \in {0, -1}
    BY DEF NoResult, Result
  <2>. QED BY <1>1, <2>1, Parts DEF Whole, Typed
<1>3. heap' \in Seq(Buffer)
  <2>1. slots[s].data \in 0 .. Len(heap)
    BY <1>1 DEF HeldBy, Owned
  <2>. QED BY <1>2, <2>1, MarkBuffer DEF free
<1>4. /\ call' \in [busy : BOOLEAN, op : Nat, slot : Slots \cup {0}, url : Nat, data : Nat]
      /\ body' \in Seq(Nat) /\ BodyGrows /\ call'.data = call.data
  <2>1. CASE UNCHANGED <<call, body>>
    BY <1>1, <1>2, <2>1 DEF Typed, BodyGrows
  <2>2. CASE ~call.busy /\ \E parts \in 0 .. MaxParts : Perform(0, s, parts)
    <3>1. PICK n \in 0 .. MaxParts : Perform(0, s, n)
      BY <2>2
    <3>2. n \in Nat /\ body' = Append(body, n)
      BY <3>1, FetchUrlAssumption DEF Perform
    <3>3. body' \in Seq(Nat) /\ BodyGrows /\ NextUrl \in Nat
      BY <1>1, <3>2, BodyAppend
    <3>4. call' = [busy |-> TRUE, op |-> 0, slot |-> s, url |-> NextUrl, data |-> 0]
      BY <3>1 DEF Perform
    <3>5. call.data = 0
      BY <1>1, <2>2 DEF CallPhase, NoCall
    <3>. QED BY <3>3, <3>4, <3>5
  <2>. QED BY <2>1, <2>2
<1>5. Typed'
  BY <1>1, <1>2, <1>3, <1>4 DEF Typed
<1>6. Len(body') \in Nat
  BY <1>4, LenProperties
<1>7. OpPhase' /\ StatusMatches' /\ \A i \in 1 .. Len(ops) : Held(i)' = Held(i)
  BY <1>2, <1>4, <1>6, SlotsOnly
<1>8. slots'[s] = r /\ \A q \in Slots : q # s => slots'[q] = slots[q]
  BY <1>1 DEF Typed
<1>9. Changed(o, o)
  BY <1>2, <1>4, <1>7, <1>8 DEF Changed
<1>10. o \in Holders /\ Data[o] = slots[s].data /\ Data'[o] = 0
  BY <1>1, <1>2, <1>8 DEF HeldBy
<1>11. Owned(Data', heap') /\ ResultsWhole'
  BY <1>1, <1>4, <1>5, <1>9, <1>10, Transfer
<1>12. CallPhase'
  <2>1. CASE UNCHANGED <<call, body>> /\ Running /\ Usable(s)
    BY <1>1, <1>8, <2>1 DEF CallPhase, Alive, Usable, Running
  <2>2. CASE ~call.busy /\ \E parts \in 0 .. MaxParts : Perform(0, s, parts)
    <3>1. PICK n \in 0 .. MaxParts : Perform(0, s, n)
      BY <2>2
    <3>2. n \in Nat /\ body' = Append(body, n)
      BY <3>1, FetchUrlAssumption DEF Perform
    <3>3. NextUrl \in 1 .. Len(body')
      BY <1>1, <3>2, BodyAppend
    <3>4. call' = [busy |-> TRUE, op |-> 0, slot |-> s, url |-> NextUrl, data |-> 0]
      BY <3>1 DEF Perform
    <3>. QED BY <1>2, <1>8, <3>3, <3>4 DEF CallPhase
  <2>. QED BY <2>1, <2>2
<1>. QED BY <1>1, <1>5, <1>7, <1>11, <1>12 DEF IInv

\* fetch_url_sync, refused or not, and the application's own reset.
LEMMA SlotSteps ==
    ASSUME IInv, NEW s \in Slots,
           fetch_url_sync(s) \/ fetch_url_sync_refused(s) \/ Drop(s)
    PROVE  IInv'
<1>1. nsyncs' \in Nat
  BY DEF IInv, Typed, fetch_url_sync, fetch_url_sync_refused, Drop
<1>2. CASE fetch_url_sync(s)
  BY <1>1, <1>2, SlotStep DEF fetch_url_sync, fetch_url_result_reset_common
<1>3. CASE fetch_url_sync_refused(s)
  BY <1>1, <1>3, SlotStep DEF fetch_url_sync_refused
<1>4. CASE Drop(s)
  BY <1>1, <1>4, SlotStep DEF Drop, fetch_url_result_reset_common
<1>. QED BY <1>2, <1>3, <1>4

-----------------------------------------------------------------------------
(* The steps of operations.                                                *)

\* A new operation holds nothing.
LEMMA NewStep ==
    ASSUME IInv, fetch_url_async \/ fetch_url_async_wasm
    PROVE  IInv'
<1>. DEFINE o == <<"call", 0>>
            failed == [NoResult EXCEPT !.code = -1]
<1>0. PICK k : k = Len(ops) + 1
  OBVIOUS
<1>1. /\ Typed /\ Owned(Data, heap) /\ CallPhase /\ OpPhase /\ StatusMatches
      /\ ResultsWhole /\ HeldBy /\ HeldBy' /\ (build = "desktop" => asking = {})
  BY HoldersAre DEF IInv
<1>2. /\ k = Len(ops) + 1 /\ k \in Nat /\ k \notin 1 .. Len(ops) /\ k \in 1 .. k
      /\ \A i \in 1 .. k : i # k => i \in 1 .. Len(ops)
      /\ Len(ops) \in Nat /\ Len(impl) = Len(ops) /\ Len(body) \in Nat /\ Len(heap) \in Nat
      /\ heap \in Seq(Buffer) /\ NoResult \in Result
      /\ \A i \in 1 .. Len(ops) : ops[i].op \in wg_op_t(Nat)
  <2>1. Len(ops) \in Nat
    BY <1>1, Parts
  <2>2. /\ k = Len(ops) + 1 /\ k \in Nat /\ k \notin 1 .. Len(ops) /\ k \in 1 .. k
        /\ \A i \in 1 .. k : i # k => i \in 1 .. Len(ops)
    BY <1>0, <2>1
  <2>. QED BY <1>1, <2>2, Parts DEF Typed
<1>3. /\ failed \in Result /\ failed.data = 0 /\ failed.code = -1
      /\ NoResult.data = 0 /\ NoResult.code = 0
  BY DEF NoResult, Result
<1>. HIDE DEF failed
<1>4. UNCHANGED <<build, slots, heap, stale, nsyncs>> /\ Running
  BY DEF fetch_url_async, fetch_url_async_wasm, NewOp
<1>5. PICK c, r, q :
        /\ NewOp(c, r, q)
        /\ c \in wg_op_t(Nat) /\ ~Freed(c) /\ c.impl = k /\ r \in Result /\ q \in Result
        /\ r.data = 0 /\ q.data = 0 /\ r.code = q.code /\ r.code # 200
        /\ r.code # 0 => wg_op_is_done(c) /\ c.status_code = r.code
        /\ \/ /\ build = "desktop" /\ asking' = asking /\ r.code = 0
              /\ \E parts \in 0 .. MaxParts : Perform(k, 0, parts)
           \/ build = "desktop" /\ UNCHANGED <<asking, call, body>>
           \/ /\ build = "browser" /\ asking' = asking \cup {k} /\ call' = call
              /\ ~wg_op_is_done(c) /\ r.code = 0 /\ r.url = NextUrl
              /\ \E parts \in 0 .. MaxParts : body' = Append(body, parts)
  <2>1. /\ PendingOp \in wg_op_t(Nat) /\ ~Freed(PendingOp) /\ PendingOp.impl = k
        /\ ~wg_op_is_done(PendingOp)
    <3>1. k \in Nat /\ PendingOp = wg_op_init("FETCH_URL", k)
      BY <1>2 DEF PendingOp
    <3>. QED BY <3>1, OpInit
  <2>2. CASE /\ build = "desktop" /\ asking' = asking
             /\ NewOp(PendingOp, NoResult, NoResult)
             /\ \E parts \in 0 .. MaxParts : Perform(k, 0, parts)
    BY <1>2, <1>3, <2>1, <2>2
  <2>3. CASE /\ build = "desktop" /\ UNCHANGED <<asking, call, body>>
             /\ NewOp(wg_op_complete(PendingOp, failed.code), failed, failed)
    <3>. DEFINE c == wg_op_complete(PendingOp, -1)
    <3>1. /\ c \in wg_op_t(Nat) /\ c.kind = PendingOp.kind /\ c.impl = k
          /\ wg_op_is_done(c) /\ c.status_code = -1
      BY <2>1, OpFields
    <3>2. ~Freed(c)
      BY <2>1, <3>1 DEF Freed
    <3>3. NewOp(c, failed, failed)
      BY <1>3, <2>3
    <3>. HIDE DEF c
    <3>. QED BY <1>3, <2>3, <3>1, <3>2, <3>3
  <2>4. CASE fetch_url_async_wasm
    <3>. DEFINE r == [NoResult EXCEPT !.url = NextUrl]
    <3>1. r \in Result /\ r.data = 0 /\ r.code = 0 /\ r.url = NextUrl
      BY <1>2 DEF NoResult, Result, NextUrl
    <3>2. /\ NewOp(PendingOp, r, NoResult) /\ build = "browser" /\ call' = call
          /\ asking' = asking \cup {k}
          /\ \E parts \in 0 .. MaxParts : body' = Append(body, parts)
      BY <1>2, <2>4 DEF fetch_url_async_wasm
    <3>. HIDE DEF r
    <3>. QED BY <1>2, <1>3, <2>1, <3>1, <3>2
  <2>. QED BY <1>2, <2>2, <2>3, <2>4 DEF fetch_url_async, failed
<1>. DEFINE x == [op |-> c, result |-> r]
            y == [live |-> TRUE, result |-> q]
<1>6. ops' = Append(ops, x) /\ impl' = Append(impl, y)
  BY <1>5 DEF NewOp
<1>7. /\ x \in [op : wg_op_t(Nat), result : Result] /\ x.op = c /\ x.result = r
      /\ y \in [live : BOOLEAN, result : Result] /\ y.live /\ y.result = q
  BY <1>5
<1>. HIDE DEF x, y
<1>8. /\ ops' \in Seq([op : wg_op_t(Nat), result : Result]) /\ Len(ops') = k
      /\ ops'[k] = x /\ \A i \in 1 .. Len(ops) : ops'[i] = ops[i]
  BY <1>1, <1>2, <1>6, <1>7, AppendProperties DEF Typed
<1>9. /\ impl' \in Seq([live : BOOLEAN, result : Result]) /\ Len(impl') = k
      /\ impl'[k] = y /\ \A i \in 1 .. Len(ops) : impl'[i] = impl[i]
  <2>1. /\ impl \in Seq([live : BOOLEAN, result : Result]) /\ Len(impl) = Len(ops)
        /\ k = Len(ops) + 1 /\ impl' = Append(impl, y)
        /\ y \in [live : BOOLEAN, result : Result]
    BY <1>1, <1>2, <1>6, <1>7 DEF Typed
  <2>. QED BY ONLY <2>1, AppendProperties
<1>10. /\ call' \in [busy : BOOLEAN, op : Nat, slot : Slots \cup {0}, url : Nat, data : Nat]
       /\ body' \in Seq(Nat) /\ BodyGrows /\ call'.data = call.data
       /\ (build = "browser" => NextUrl \in 1 .. Len(body'))
       /\ \/ call' = call
          \/ /\ build = "desktop" /\ call'.busy /\ call'.op = k /\ call'.data = 0
             /\ call'.url \in 1 .. Len(body')
  <2>1. CASE \E parts \in 0 .. MaxParts : body' = Append(body, parts)
    <3>1. PICK n \in 0 .. MaxParts : body' = Append(body, n)
      BY <2>1
    <3>2. n \in Nat
      BY <3>1, FetchUrlAssumption
    <3>3. body' \in Seq(Nat) /\ BodyGrows /\ NextUrl \in 1 .. Len(body') /\ NextUrl \in Nat
      BY <1>1, <3>1, <3>2, BodyAppend
    <3>4. CASE call' = call
      BY <1>1, <3>3, <3>4 DEF Typed
    <3>5. CASE build = "desktop" /\ \E parts \in 0 .. MaxParts : Perform(k, 0, parts)
      <4>1. call' = [busy |-> TRUE, op |-> k, slot |-> 0, url |-> NextUrl, data |-> 0]
        BY <3>5 DEF Perform
      <4>2. call.data = 0
        BY <1>1, <1>4, <3>5 DEF CallPhase, NoCall, Running
      <4>. QED BY <1>2, <3>3, <3>5, <4>1, <4>2
    <3>6. call' = call \/ (build = "desktop" /\ \E parts \in 0 .. MaxParts : Perform(k, 0, parts))
      BY <1>5
    <3>. QED BY <3>4, <3>5, <3>6
  <2>2. CASE build = "desktop" /\ UNCHANGED <<call, body>>
    BY <1>1, <1>2, <2>2 DEF Typed, BodyGrows
  <2>. QED BY <1>5, <2>1, <2>2 DEF Perform
<1>11. asking' \subseteq 1 .. k /\ (build' = "desktop" => asking' = {})
  <2>1. asking \subseteq 1 .. Len(ops) /\ asking' \subseteq asking \cup {k}
    BY <1>1, <1>5 DEF Typed
  <2>2. build = "desktop" => asking' = asking
    BY <1>5
  <2>. QED BY <1>1, <1>2, <1>4, <2>1, <2>2
<1>12. Typed'
  BY <1>1, <1>4, <1>8, <1>9, <1>10, <1>11 DEF Typed
<1>13. /\ \A i \in 1 .. Len(ops) : Held(i)' = Held(i) /\ (Alive(i)' <=> Alive(i))
       /\ Held(k)'.data = 0 /\ Held(k)'.code = r.code /\ Alive(k)'
  BY <1>2, <1>4, <1>5, <1>7, <1>8, <1>9 DEF Held, Alive
<1>14. Changed(o, o)
  BY <1>2, <1>4, <1>5, <1>8, <1>13 DEF Changed
<1>15. o \in Holders /\ Data[o] = call.data /\ Data'[o] = call.data
  BY <1>1, <1>10 DEF HeldBy
<1>16. call.data = 0
  BY <1>1, <1>4 DEF CallPhase, NoCall, Running
<1>17. Owned(Data', heap') /\ ResultsWhole'
  <2>1. heap' = free(heap, Data[o])
    BY <1>4, <1>15, <1>16 DEF free, Mark
  <2>. QED BY <1>1, <1>10, <1>12, <1>14, <1>15, <1>16, <2>1, Transfer
<1>18. CallPhase'
  <2>1. CASE call' = call
    <3>1. call.busy => build = "browser" /\ call.op = 0 /\ call.url \in 1 .. Len(body')
      BY <1>1, <1>2, <1>4, <1>10 DEF CallPhase, Running, BodyGrows
    <3>. QED BY <1>1, <1>4, <1>16, <2>1, <3>1 DEF CallPhase
  <2>2. CASE call' # call
    <3>1. /\ build = "desktop" /\ call'.busy /\ call'.op = k /\ call'.data = 0
          /\ call'.url \in 1 .. Len(body')
      BY <1>10, <2>2
    <3>2. impl'[k].result.data = 0
      BY <1>5, <1>7, <1>9
    <3>. QED BY <1>2, <1>4, <1>8, <1>13, <3>1, <3>2 DEF CallPhase
  <2>. QED BY <2>1, <2>2
<1>19. OpPhase'
  <2>. SUFFICES ASSUME NEW i \in 1 .. Len(ops')
                PROVE  /\ Alive(i)' => wg_op_impl(ops'[i].op) = i
                       /\ Alive(i)' <=> impl'[i].live
                       /\ ~Alive(i)' => impl'[i].result = NoResult /\ ops'[i].result = NoResult
                       /\ i \in asking' /\ Alive(i)' =>
                            /\ ~wg_op_is_done(ops'[i].op)
                            /\ ops'[i].result.data = 0 /\ ops'[i].result.code = 0
                            /\ ops'[i].result.url \in 1 .. Len(body')
    BY DEF OpPhase
  <2>1. CASE i = k
    BY <1>5, <1>7, <1>8, <1>9, <1>10, <1>11, <1>13, <1>4, <2>1 DEF wg_op_impl
  <2>2. CASE i # k
    <3>1. i \in 1 .. Len(ops)
      BY <1>2, <1>8, <2>2
    <3>2. i \in asking' => i \in asking
      BY <1>5, <2>2
    <3>3. ops[i].result.url \in 1 .. Len(body) => ops[i].result.url \in 1 .. Len(body')
      BY <1>2, <1>10, LenProperties DEF BodyGrows
    <3>. QED BY <1>1, <1>8, <1>9, <1>13, <3>1, <3>2, <3>3 DEF OpPhase
  <2>. QED BY <2>1, <2>2
<1>20. StatusMatches'
  <2>. SUFFICES ASSUME NEW i \in 1 .. Len(ops'), Alive(i)', Held(i)'.code # 0
                PROVE  wg_op_is_done(ops'[i].op) /\ ops'[i].op.status_code = Held(i)'.code
    BY DEF StatusMatches
  <2>1. CASE i = k
    BY <1>5, <1>7, <1>8, <1>13, <2>1
  <2>2. CASE i # k
    <3>1. i \in 1 .. Len(ops)
      BY <1>2, <1>8, <2>2
    <3>. QED BY <1>1, <1>8, <1>13, <3>1 DEF StatusMatches
  <2>. QED BY <2>1, <2>2
<1>. QED BY <1>11, <1>12, <1>17, <1>18, <1>19, <1>20 DEF IInv

\* A step that changes operation k, and what only it can break.
LEMMA OpChanges ==
    ASSUME IInv, Typed', NEW k \in 1 .. Len(ops), Len(ops') = Len(ops),
           asking' \in {asking, asking \ {k}}, UNCHANGED <<build, body>>,
           \A i \in 1 .. Len(ops) : i # k => ops'[i] = ops[i] /\ impl'[i] = impl[i],
           /\ Alive(k)' => wg_op_impl(ops'[k].op) = k
           /\ Alive(k)' <=> impl'[k].live
           /\ ~Alive(k)' => impl'[k].result = NoResult /\ ops'[k].result = NoResult
           /\ ~(k \in asking' /\ Alive(k)')
           /\ Alive(k)' /\ Held(k)'.code # 0 =>
                wg_op_is_done(ops'[k].op) /\ ops'[k].op.status_code = Held(k)'.code
    PROVE  /\ OpPhase' /\ StatusMatches' /\ (build' = "desktop" => asking' = {})
           /\ \A i \in 1 .. Len(ops) : i # k => Held(i)' = Held(i)
<1>1. \A i \in 1 .. Len(ops) : i # k => Held(i)' = Held(i) /\ (Alive(i)' <=> Alive(i))
  BY DEF Held, Alive
<1>2. OpPhase'
  <2>. SUFFICES ASSUME NEW i \in 1 .. Len(ops)
                PROVE  /\ Alive(i)' => wg_op_impl(ops'[i].op) = i
                       /\ Alive(i)' <=> impl'[i].live
                       /\ ~Alive(i)' => impl'[i].result = NoResult /\ ops'[i].result = NoResult
                       /\ i \in asking' /\ Alive(i)' =>
                            /\ ~wg_op_is_done(ops'[i].op)
                            /\ ops'[i].result.data = 0 /\ ops'[i].result.code = 0
                            /\ ops'[i].result.url \in 1 .. Len(body')
    BY DEF OpPhase
  <2>1. CASE i # k
    BY <1>1, <2>1 DEF IInv, OpPhase
  <2>2. CASE i = k
    BY <2>2
  <2>. QED BY <2>1, <2>2
<1>3. StatusMatches'
  <2>. SUFFICES ASSUME NEW i \in 1 .. Len(ops), Alive(i)', Held(i)'.code # 0
                PROVE  wg_op_is_done(ops'[i].op) /\ ops'[i].op.status_code = Held(i)'.code
    BY DEF StatusMatches
  <2>1. CASE i # k
    BY <1>1, <2>1 DEF IInv, StatusMatches
  <2>2. CASE i = k
    BY <2>2
  <2>. QED BY <2>1, <2>2
<1>. QED BY <1>1, <1>2, <1>3 DEF IInv

\* emscripten_fetch calls back for an operation that is alive.
LEMMA AnswerStep ==
    ASSUME IInv, NEW k \in asking, impl[k].live, NEW r \in Result, Answer(k, r),
           Whole(r, heap', body, OpCodes(build)), asking' = asking \ {k}, heap' \in Seq(Buffer),
           \/ r.data = 0 /\ heap' = heap
           \/ r.data = Len(heap) + 1 /\ \E u, n \in Nat : heap' = malloc(heap, u, n),
           UNCHANGED <<build, impl, slots, call, body, stale, nsyncs>>
    PROVE  IInv'
<1>. DEFINE o == <<"op", k>>
            c == wg_op_complete(ops[k].op, r.code)
            x == [op |-> c, result |-> r]
<1>1. /\ Typed /\ Owned(Data, heap) /\ CallPhase /\ OpPhase /\ ResultsWhole
      /\ HeldBy /\ HeldBy' /\ build = "browser"
  BY HoldersAre DEF IInv, Typed
<1>2. /\ k \in 1 .. Len(ops) /\ Len(ops) \in Nat /\ Len(body) \in Nat
      /\ ops[k].op \in wg_op_t(Nat) /\ r.code \in Int
  BY <1>1, Parts DEF Typed, Result
<1>3. Alive(k) /\ wg_op_impl(ops[k].op) = k /\ ops[k].result.data = 0
  BY <1>1, <1>2 DEF OpPhase
<1>4. /\ c \in wg_op_t(Nat) /\ c.kind = ops[k].op.kind /\ c.impl = ops[k].op.impl
      /\ wg_op_is_done(c) /\ c.status_code = r.code
  BY <1>2, OpFields
<1>5. ops' = [ops EXCEPT ![k] = x]
  BY DEF Answer
<1>. HIDE DEF c
<1>6. x \in [op : wg_op_t(Nat), result : Result] /\ x.op = c /\ x.result = r
  BY <1>4
<1>. HIDE DEF x
<1>7. /\ ops' \in Seq([op : wg_op_t(Nat), result : Result]) /\ Len(ops') = Len(ops)
      /\ ops'[k] = x /\ \A i \in 1 .. Len(ops) : i # k => ops'[i] = ops[i]
  BY <1>1, <1>2, <1>5, <1>6, ExceptSeq DEF Typed
<1>8. Typed'
  BY <1>1, <1>7 DEF Typed
<1>9. Held(k)' = r /\ Held(k).data = 0 /\ Alive(k)' /\ wg_op_impl(ops'[k].op) = k
  BY <1>1, <1>3, <1>4, <1>6, <1>7 DEF Held, Alive, Freed, wg_op_impl
<1>10. /\ OpPhase' /\ StatusMatches' /\ (build' = "desktop" => asking' = {})
       /\ \A i \in 1 .. Len(ops) : i # k => Held(i)' = Held(i)
  BY <1>2, <1>4, <1>6, <1>7, <1>8, <1>9, OpChanges
<1>11. Changed(o, o)
  <2>1. /\ build' = build /\ slots' = slots /\ call' = call /\ Len(ops') = Len(ops)
        /\ \A i \in 1 .. Len(ops) : i # k => Held(i)' = Held(i)
        /\ Whole(Held(k)', heap', body', OpCodes(build'))
    BY <1>7, <1>9, <1>10
  <2>. QED BY <1>2, <2>1 DEF Changed
<1>12. o \in Holders /\ Data[o] = 0 /\ Data'[o] = r.data
  BY <1>1, <1>2, <1>7, <1>9 DEF HeldBy
<1>13. BodyGrows
  BY <1>2 DEF BodyGrows
<1>14. Owned(Data', heap') /\ ResultsWhole'
  <2>1. CASE r.data = 0 /\ heap' = heap
    <3>1. heap' = free(heap, Data[o])
      BY <1>12, <2>1 DEF free, Mark
    <3>. QED BY <1>1, <1>8, <1>11, <1>12, <1>13, <2>1, <3>1, Transfer
  <2>2. CASE r.data = Len(heap) + 1 /\ \E u, n \in Nat : heap' = malloc(heap, u, n)
    BY <1>1, <1>8, <1>11, <1>12, <1>13, <2>2, Transfer
  <2>. QED BY <2>1, <2>2
<1>15. CallPhase'
  BY <1>1 DEF CallPhase
<1>. QED BY <1>8, <1>10, <1>14, <1>15 DEF IInv

\* Each way emscripten_fetch answers, its context freed or not.
LEMMA AnswerSteps ==
    ASSUME IInv, NEW k \in asking, fetch_success(k) \/ fetch_error(k)
    PROVE  IInv'
<1>. DEFINE u == ops[k].result.url
<1>1. /\ k \in 1 .. Len(ops) /\ Typed /\ OpPhase /\ impl[k].live /\ asking' = asking \ {k}
      /\ UNCHANGED <<build, impl, slots, call, body, stale, nsyncs>>
  <2>1. Typed /\ OpPhase
    BY DEF IInv
  <2>2. k \in 1 .. Len(ops)
    BY <2>1 DEF Typed
  <2>3. /\ impl[k].live /\ asking' = asking \ {k}
        /\ UNCHANGED <<build, impl, slots, call, body, stale, nsyncs>>
    BY DEF fetch_success, fetch_error
  <2>. QED BY <2>1, <2>2, <2>3
<1>2. /\ u \in 1 .. Len(body) /\ u \in Nat /\ body[u] \in Nat /\ heap \in Seq(Buffer)
      /\ Len(heap) \in Nat
  <2>1. u \in 1 .. Len(body)
    BY <1>1 DEF OpPhase
  <2>2. Len(heap) \in Nat /\ Len(body) \in Nat /\ \A w \in 1 .. Len(body) : body[w] \in Nat
    BY <1>1, Parts
  <2>3. heap \in Seq(Buffer)
    BY <1>1 DEF Typed
  <2>. HIDE DEF u
  <2>. QED BY <2>1, <2>2, <2>3
<1>. HIDE DEF u
<1>3. ASSUME NEW code \in Nat \ {200}, heap' = heap,
             Answer(k, [data |-> 0, code |-> code, url |-> u])
      PROVE  IInv'
  <2>. DEFINE r == [data |-> 0, code |-> code, url |-> u]
  <2>1. r \in Result /\ Whole(r, heap', body, OpCodes(build)) /\ r.data = 0
    BY <1>2 DEF Result, Whole
  <2>2. Answer(k, r)
    BY <1>3
  <2>. HIDE DEF r
  <2>. QED BY <1>1, <1>2, <1>3, <2>1, <2>2, AnswerStep
<1>4. ASSUME NEW code \in OkStatus, heap' = malloc(heap, u, body[u]),
             Answer(k, [data |-> Len(heap'), code |-> code, url |-> u])
      PROVE  IInv'
  <2>1. /\ heap' \in Seq(Buffer) /\ Len(heap') = Len(heap) + 1
        /\ heap'[Len(heap) + 1] = [state |-> "live", url |-> u, parts |-> body[u]]
    <3>1. /\ heap \in Seq(Buffer) /\ u \in Nat /\ body[u] \in Nat
          /\ heap' = malloc(heap, u, body[u])
      BY <1>2, <1>4
    <3>. QED BY ONLY <3>1, NewBuffer
  <2>. DEFINE r == [data |-> Len(heap'), code |-> code, url |-> u]
  <2>2. r \in Result /\ r.data = Len(heap) + 1 /\ r.code = code /\ r.url = u
    BY <1>2, <2>1, FetchUrlAssumption DEF Result
  <2>3. Answer(k, r)
    BY <1>4
  <2>. HIDE DEF r
  <2>4. Whole(r, heap', body, OpCodes(build))
    <3>1. build = "browser"
      BY DEF IInv, Typed
    <3>2. code \in OpCodes(build)
      BY <3>1 DEF OpCodes
    <3>. QED BY <1>2, <2>1, <2>2, <3>2 DEF Whole
  <2>5. \E v, n \in Nat : heap' = malloc(heap, v, n)
    BY <1>2, <1>4
  <2>. QED BY <1>1, <2>1, <2>2, <2>3, <2>4, <2>5, AnswerStep
<1>5. CASE fetch_success(k)
  <2>1. CASE /\ heap' = malloc(heap, u, body[u])
             /\ \E status \in OkStatus :
                  Answer(k, [data |-> Len(heap'), code |-> status, url |-> u])
    BY <1>4, <2>1
  <2>2. CASE UNCHANGED heap /\ Answer(k, [data |-> 0, code |-> 500, url |-> u])
    BY <1>3, <2>2
  <2>. QED BY <1>5, <2>1, <2>2 DEF fetch_success, u
<1>6. CASE fetch_error(k)
  <2>1. PICK status \in OtherStatus \cup {0} :
          Answer(k, [data |-> 0, code |-> IF status > 0 THEN status ELSE 500, url |-> u])
    BY <1>6 DEF fetch_error, u
  <2>2. heap' = heap
    BY <1>6 DEF fetch_error
  <2>3. (IF status > 0 THEN status ELSE 500) \in Nat \ {200}
    BY FetchUrlAssumption
  <2>. QED BY <1>3, <2>1, <2>2, <2>3
<1>. QED BY <1>5, <1>6

\* The result of operation k moves to the application.
LEMMA FinishStep ==
    ASSUME IInv, NEW k \in 1 .. Len(ops), NEW s \in Slots,
           fetch_url_finish(k, s) \/ fetch_url_finish_wasm(k, s)
    PROVE  IInv'
<1>. DEFINE o == <<"op", k>>
            p == <<"slot", s>>
<1>1. /\ Typed /\ Owned(Data, heap) /\ CallPhase /\ OpPhase /\ ResultsWhole
      /\ StatusMatches /\ HeldBy /\ HeldBy' /\ MayFinish(k, s)
      /\ UNCHANGED <<build, call, body, asking, stale, nsyncs>>
  BY HoldersAre DEF IInv, fetch_url_finish, fetch_url_finish_wasm
<1>2. /\ Running /\ Alive(k) /\ wg_op_is_done(ops[k].op) /\ Usable(s)
      /\ heap' = Mark(heap, slots[s].data, "lost")
      /\ wg_op_impl(ops[k].op) = k /\ impl[k].live
  BY <1>1 DEF MayFinish, OpPhase
<1>3. /\ Len(ops) \in Nat /\ Len(impl) = Len(ops) /\ Len(body) \in Nat
      /\ Len(heap) \in Nat
      /\ Held(k) \in Result /\ NoResult \in Result /\ NoResult.data = 0 /\ NoResult.code = 0
      /\ ops[k] \in [op : wg_op_t(Nat), result : Result]
      /\ impl[k] \in [live : BOOLEAN, result : Result]
  BY <1>1, Parts, ElementOfSeq DEF Typed, NoResult
<1>0. heap' \in Seq(Buffer)
  <2>1. slots[s].data \in 0 .. Len(heap) /\ heap \in Seq(Buffer)
    BY <1>1 DEF HeldBy, Owned, Typed
  <2>. QED BY <1>2, <2>1, MarkBuffer
<1>4. /\ slots' = [slots EXCEPT ![s] = Held(k)]
      /\ Typed' /\ Len(ops') = Len(ops) /\ Held(k)' = NoResult
      /\ ops'[k].op = ops[k].op /\ impl'[k].live = impl[k].live
      /\ \A i \in 1 .. Len(ops) : i # k => ops'[i] = ops[i] /\ impl'[i] = impl[i]
  <2>1. CASE fetch_url_finish(k, s)
    <3>. DEFINE x == [ops[k] EXCEPT !.result = impl[k].result]
                y == [impl[k] EXCEPT !.result = NoResult]
    <3>1. /\ slots' = [slots EXCEPT ![s] = impl[k].result] /\ build = "desktop"
          /\ ops' = [ops EXCEPT ![k] = x] /\ impl' = [impl EXCEPT ![k] = y]
      BY <1>2, <2>1 DEF fetch_url_finish
    <3>2. /\ x \in [op : wg_op_t(Nat), result : Result] /\ x.op = ops[k].op
          /\ y \in [live : BOOLEAN, result : Result] /\ y.live = impl[k].live
          /\ y.result = NoResult
      BY <1>3
    <3>. HIDE DEF x, y
    <3>3. /\ ops' \in Seq([op : wg_op_t(Nat), result : Result]) /\ Len(ops') = Len(ops)
          /\ ops'[k] = x /\ \A i \in 1 .. Len(ops) : i # k => ops'[i] = ops[i]
      BY <1>1, <3>1, <3>2, ExceptSeq DEF Typed
    <3>4. /\ impl' \in Seq([live : BOOLEAN, result : Result]) /\ Len(impl') = Len(ops)
          /\ impl'[k] = y /\ \A i \in 1 .. Len(ops) : i # k => impl'[i] = impl[i]
      BY <1>1, <1>3, <3>1, <3>2, ExceptSeq DEF Typed
    <3>5. impl[k].result \in Result
      BY <1>3
    <3>6. Typed'
      BY <1>0, <1>1, <3>1, <3>3, <3>4, <3>5 DEF Typed
    <3>. QED BY <1>1, <3>1, <3>2, <3>3, <3>4, <3>6 DEF Held
  <2>2. CASE fetch_url_finish_wasm(k, s)
    <3>. DEFINE x == [ops[k] EXCEPT !.result = NoResult]
    <3>1. /\ slots' = [slots EXCEPT ![s] = ops[k].result] /\ build = "browser"
          /\ ops' = [ops EXCEPT ![k] = x] /\ impl' = impl
      BY <2>2 DEF fetch_url_finish_wasm
    <3>2. /\ x \in [op : wg_op_t(Nat), result : Result] /\ x.op = ops[k].op
          /\ x.result = NoResult
      BY <1>3
    <3>. HIDE DEF x
    <3>3. /\ ops' \in Seq([op : wg_op_t(Nat), result : Result]) /\ Len(ops') = Len(ops)
          /\ ops'[k] = x /\ \A i \in 1 .. Len(ops) : i # k => ops'[i] = ops[i]
      BY <1>1, <3>1, <3>2, ExceptSeq DEF Typed
    <3>4. ops[k].result \in Result
      BY <1>3
    <3>5. Typed'
      BY <1>0, <1>1, <3>1, <3>3, <3>4 DEF Typed
    <3>. QED BY <1>1, <3>1, <3>2, <3>3, <3>5 DEF Held
  <2>. QED BY <2>1, <2>2
<1>5. Alive(k)' /\ wg_op_impl(ops'[k].op) = k /\ ~(k \in asking' /\ Alive(k)')
  BY <1>1, <1>2, <1>4 DEF Alive, OpPhase
<1>6. /\ OpPhase' /\ StatusMatches' /\ (build' = "desktop" => asking' = {})
      /\ \A i \in 1 .. Len(ops) : i # k => Held(i)' = Held(i)
  BY <1>1, <1>2, <1>3, <1>4, <1>5, OpChanges
<1>7. slots'[s] = Held(k) /\ \A q \in Slots : q # s => slots'[q] = slots[q]
  BY <1>1, <1>4 DEF Typed
<1>8. Changed(o, p)
  <2>1. /\ Whole(slots'[s], heap', body', SlotCodes(build))
        /\ Whole(Held(k)', heap', body', OpCodes(build))
    <3>. DEFINE r == Held(k)
    <3>1. Whole(r, heap, body, OpCodes(build))
      BY <1>1 DEF ResultsWhole
    <3>2. Whole(NoResult, heap', body', OpCodes(build))
      BY <1>3 DEF Whole
    <3>3. r.data # 0 => heap'[r.data] = heap[r.data]
      <4>1. /\ o \in DOMAIN Data /\ p \in DOMAIN Data /\ o # p /\ heap \in Seq(Buffer)
            /\ Data[o] = r.data /\ Data[p] = slots[s].data
        BY <1>1 DEF HeldBy, Typed
      <4>2. /\ slots[s].data \in 0 .. Len(heap) /\ r.data \in 0 .. Len(heap)
            /\ (r.data # 0 => r.data # slots[s].data)
        BY <1>1, <4>1 DEF Owned
      <4>. HIDE DEF r
      <4>3. r.data # 0 => r.data \in 1 .. Len(heap)
        BY <1>3, <4>2
      <4>. QED BY <1>2, <4>1, <4>2, <4>3, MarkBuffer
    <3>4. OpCodes(build) \subseteq SlotCodes(build)
      BY DEF OpCodes, SlotCodes
    <3>. HIDE DEF r
    <3>5. Whole(r, heap', body, SlotCodes(build))
      BY <3>1, <3>3, <3>4 DEF Whole
    <3>. QED BY <1>1, <1>4, <1>7, <3>2, <3>5 DEF r
  <2>. QED BY <1>1, <1>3, <1>4, <1>6, <1>7, <2>1 DEF Changed
<1>9. /\ o \in Holders /\ p \in Holders /\ o # p /\ Data[o] = Held(k).data
      /\ Data[p] = slots[s].data /\ Data'[o] = 0 /\ Data'[p] = Held(k).data
  BY <1>1, <1>2, <1>3, <1>4, <1>7 DEF HeldBy
<1>10. BodyGrows
  BY <1>1, <1>3 DEF BodyGrows
<1>11. Owned(Data', heap') /\ ResultsWhole'
  BY <1>1, <1>2, <1>4, <1>8, <1>9, <1>10, Transfer
<1>12. CallPhase'
  <2>1. call.busy => build = "browser" /\ call.op = 0 /\ call.data = 0 /\ call.slot # s
    BY <1>1, <1>2 DEF CallPhase, Running, Usable
  <2>. QED BY <1>1, <1>7, <2>1 DEF CallPhase
<1>. QED BY <1>4, <1>6, <1>11, <1>12 DEF IInv

\* Operation k is freed with what it holds.
LEMMA FreeStep ==
    ASSUME IInv, NEW k \in 1 .. Len(ops), fetch_url_op_free(k) \/ fetch_url_op_free_wasm(k)
    PROVE  IInv'
<1>. DEFINE o == <<"op", k>>
            c == wg_op_deinit(ops[k].op)
            x == [op |-> c, result |-> NoResult]
            y == [live |-> FALSE, result |-> NoResult]
<1>1. /\ Typed /\ Owned(Data, heap) /\ CallPhase /\ OpPhase /\ ResultsWhole
      /\ HeldBy /\ HeldBy' /\ Running /\ Alive(k)
      /\ UNCHANGED <<build, slots, call, body, asking, stale, nsyncs>>
  BY HoldersAre DEF IInv, fetch_url_op_free, fetch_url_op_free_wasm, Destroy
<1>2. wg_op_impl(ops[k].op) = k /\ impl[k].live
  BY <1>1 DEF OpPhase
<1>3. ops' = [ops EXCEPT ![k] = x] /\ impl' = [impl EXCEPT ![k] = y]
  BY <1>2 DEF fetch_url_op_free, fetch_url_op_free_wasm, Destroy
<1>4. /\ Len(ops) \in Nat /\ Len(impl) = Len(ops) /\ Len(body) \in Nat
      /\ Len(heap) \in Nat /\ heap \in Seq(Buffer)
      /\ NoResult \in Result /\ NoResult.data = 0 /\ NoResult.code = 0
      /\ ops[k].op \in wg_op_t(Nat)
  BY <1>1, Parts DEF Typed, NoResult
<1>5. c \in wg_op_t(Nat) /\ Freed(c)
  BY <1>4, OpDeinit
<1>. HIDE DEF c
<1>6. /\ x \in [op : wg_op_t(Nat), result : Result] /\ x.op = c /\ x.result = NoResult
      /\ y \in [live : BOOLEAN, result : Result] /\ ~y.live /\ y.result = NoResult
  BY <1>4, <1>5
<1>. HIDE DEF x, y
<1>7. /\ ops' \in Seq([op : wg_op_t(Nat), result : Result]) /\ Len(ops') = Len(ops)
      /\ ops'[k] = x /\ \A i \in 1 .. Len(ops) : i # k => ops'[i] = ops[i]
  BY <1>1, <1>3, <1>6, ExceptSeq DEF Typed
<1>8. /\ impl' \in Seq([live : BOOLEAN, result : Result]) /\ Len(impl') = Len(ops)
      /\ impl'[k] = y /\ \A i \in 1 .. Len(ops) : i # k => impl'[i] = impl[i]
  BY <1>1, <1>3, <1>4, <1>6, ExceptSeq DEF Typed
<1>9. heap' = free(heap, Held(k).data)
  BY <1>2 DEF fetch_url_op_free, fetch_url_op_free_wasm, fetch_url_op_destroy_impl, Held
<1>10. heap' \in Seq(Buffer)
  <2>1. Held(k).data \in 0 .. Len(heap)
    BY <1>1 DEF HeldBy, Owned
  <2>. QED BY <1>4, <1>9, <2>1, MarkBuffer DEF free
<1>11. Typed'
  BY <1>1, <1>7, <1>8, <1>10 DEF Typed
<1>12. Held(k)' = NoResult /\ ~Alive(k)'
  BY <1>5, <1>6, <1>7, <1>8 DEF Held, Alive
<1>13. /\ OpPhase' /\ StatusMatches' /\ (build' = "desktop" => asking' = {})
       /\ \A i \in 1 .. Len(ops) : i # k => Held(i)' = Held(i)
  BY <1>1, <1>6, <1>7, <1>8, <1>11, <1>12, OpChanges
<1>14. Changed(o, o)
  <2>1. Whole(Held(k)', heap', body', OpCodes(build))
    BY <1>4, <1>12 DEF Whole
  <2>. QED BY <1>1, <1>4, <1>7, <1>13, <2>1 DEF Changed
<1>15. o \in Holders /\ Data[o] = Held(k).data /\ Data'[o] = 0
  BY <1>1, <1>4, <1>7, <1>12 DEF HeldBy
<1>16. BodyGrows
  BY <1>1, <1>4 DEF BodyGrows
<1>17. Owned(Data', heap') /\ ResultsWhole'
  BY <1>1, <1>9, <1>11, <1>14, <1>15, <1>16, Transfer
<1>18. CallPhase'
  BY <1>1 DEF CallPhase, Running
<1>. QED BY <1>11, <1>13, <1>17, <1>18 DEF IInv

-----------------------------------------------------------------------------
(* The theorems.                                                           *)

\* Nothing is held at the start.
LEMMA IInvInit == Init => IInv
<1>. SUFFICES ASSUME Init PROVE IInv
  OBVIOUS
<1>1. NoResult \in Result /\ NoResult.data = 0 /\ NoResult.code = 0
  BY DEF NoResult, Result
<1>2. NoCall \in [busy : BOOLEAN, op : Nat, slot : Slots \cup {0}, url : Nat, data : Nat]
      /\ NoCall.data = 0 /\ ~NoCall.busy
  BY DEF NoCall
<1>3. Typed
  <2>1. /\ ops = <<>> /\ impl = <<>> /\ heap = <<>> /\ body = <<>> /\ asking = {}
        /\ stale \in BOOLEAN /\ nsyncs = 0 /\ build \in {"desktop", "browser"}
        /\ call = NoCall /\ slots = [s \in Slots |-> NoResult]
    BY DEF Init
  <2>2. /\ ops \in Seq([op : wg_op_t(Nat), result : Result])
        /\ impl \in Seq([live : BOOLEAN, result : Result])
        /\ heap \in Seq(Buffer) /\ body \in Seq(Nat)
    BY <2>1, EmptySeq
  <2>3. Len(ops) = 0 /\ Len(impl) = 0
    BY <2>1, EmptySeq
  <2>4. slots \in [Slots -> Result]
    BY <1>1, <2>1
  <2>. QED BY <1>2, <2>1, <2>2, <2>3, <2>4 DEF Typed
<1>4. CallPhase /\ OpPhase /\ StatusMatches
  BY <1>2 DEF Init, CallPhase, OpPhase, StatusMatches
<1>5. ResultsWhole
  BY <1>1 DEF Init, ResultsWhole, Whole
<1>6. Owned(Data, heap)
  <2>1. \A o \in Holders : Data[o] = 0
    BY <1>1, <1>2, HoldersAre DEF HeldBy, Init
  <2>2. DOMAIN Data = Holders /\ heap = <<>>
    BY HoldersAre DEF HeldBy, Init
  <2>. QED BY <2>1, <2>2 DEF Owned
<1>. QED BY <1>3, <1>4, <1>5, <1>6 DEF IInv, Init

\* A callback that finds its context freed changes nothing of the rest.
LEMMA StaleStep ==
    ASSUME IInv, UNCHANGED <<build, ops, impl, slots, call, heap, body, asking, nsyncs>>,
           stale' \in BOOLEAN
    PROVE  IInv'
<1>1. Typed' /\ CallPhase' /\ OpPhase' /\ (build' = "desktop" => asking' = {})
  BY DEF IInv, Typed, CallPhase, OpPhase, Alive
<1>2. \A i : Held(i)' = Held(i) /\ (Alive(i)' <=> Alive(i))
  BY DEF Held, Alive
<1>3. ResultsWhole' /\ StatusMatches'
  BY <1>2 DEF IInv, ResultsWhole, StatusMatches
<1>4. Data' = Data
  BY DEF Data, Holders, Held
<1>. QED BY <1>1, <1>3, <1>4 DEF IInv

\* Every step keeps the invariant.
LEMMA IInvStep == IInv /\ [Next]_vars => IInv'
<1>. SUFFICES ASSUME IInv, [Next]_vars PROVE IInv'
  OBVIOUS
<1>1. CASE UNCHANGED vars
  BY <1>1, StaleStep DEF vars, IInv, Typed
<1>2. CASE OpAnswers
  <2>1. CASE \E i \in asking : fetch_success(i) \/ fetch_error(i)
    BY <2>1, AnswerSteps
  <2>2. CASE \E i \in asking : StaleAnswer(i)
    BY <2>2, StaleStep DEF StaleAnswer
  <2>. QED BY <1>2, <2>1, <2>2, WriteStep, EndStep DEF OpAnswers
<1>3. CASE JspiAnswers
  BY <1>3, EndStep
<1>4. CASE Application
  BY <1>4, NewStep, SlotSteps, FreeStep, FinishStep DEF Application
<1>. QED BY <1>1, <1>2, <1>3, <1>4 DEF Next

\* Every buffer in use has one holder, and what the holders know of it is true.
THEOREM Invariant == Spec => []IInv
  BY IInvInit, IInvStep, PTL DEF Spec

\* Every buffer has one owner until it is freed, and none after: no result is
\* freed twice or used after it was freed, and none is lost but the one that the
\* application lets fetch_url_finish overwrite, in either build.
THEOREM HeapIsOwned == Spec => []HeapOwned
<1>1. IInv => HeapOwned
  <2>. SUFFICES ASSUME IInv, NEW b \in 1 .. Len(heap)
                PROVE  Cardinality(Owners(b)) = IF heap[b].state = "live" THEN 1 ELSE 0
    BY DEF HeapOwned
  <2>1. Owned(Data, heap) /\ HeldBy /\ Len(heap) \in Nat
    BY HoldersAre, Parts DEF IInv
  <2>2. ASSUME NEW o PROVE o \in Owners(b) <=> o \in Holders /\ Data[o] = b
    <3>1. ASSUME o \in Owners(b) PROVE o \in Holders /\ Data[o] = b
      BY <2>1, <3>1 DEF Owners, HeldBy
    <3>2. ASSUME o \in Holders, Data[o] = b PROVE o \in Owners(b)
      BY <2>1, <3>2 DEF Owners, HeldBy
    <3>. QED BY <3>1, <3>2
  <2>3. CASE heap[b].state = "live"
    <3>1. PICK o \in Holders : Data[o] = b
      BY <2>1, <2>3 DEF Owned, HeldBy
    <3>2. Owners(b) = {o}
      BY <2>1, <2>2, <3>1 DEF Owned, HeldBy
    <3>. QED BY <2>3, <3>2, FS_Singleton
  <2>4. CASE heap[b].state # "live"
    <3>1. Owners(b) = {}
      BY <2>1, <2>2, <2>4 DEF Owned, HeldBy
    <3>. QED BY <2>4, <3>1, FS_EmptySet
  <2>. QED BY <2>3, <2>4
<1>. QED BY <1>1, Invariant, PTL

\* A result holds all that the server sent for its own url, or nothing, which it
\* never does with code 200; what it holds comes with 200 from curl, with a
\* status of success from an operation, and with any status only from JSPI.
THEOREM BodiesAreWhole == Spec => []BodyWhole
<1>1. IInv => BodyWhole
  <2>. SUFFICES ASSUME IInv PROVE BodyWhole
    OBVIOUS
  <2>1. \A r \in OpResults : Whole(r, heap, body, OpCodes(build))
    BY DEF IInv, ResultsWhole, OpResults
  <2>2. OpCodes(build) \subseteq SlotCodes(build) /\ OpCodes(build) \subseteq OkStatus
    BY FetchUrlAssumption DEF OpCodes, SlotCodes
  <2>3. \A r \in Results : Whole(r, heap, body, SlotCodes(build))
    <3>1. \A s \in Slots : Whole(slots[s], heap, body, SlotCodes(build))
      BY DEF IInv, ResultsWhole
    <3>2. \A r \in OpResults : Whole(r, heap, body, SlotCodes(build))
      BY <2>1, <2>2 DEF Whole
    <3>. QED BY <3>1, <3>2 DEF Results
  <2>4. \A r \in OpResults : r.data # 0 => r.code \in OkStatus
    BY <2>1, <2>2 DEF Whole
  <2>. QED BY <2>3, <2>4 DEF BodyWhole, Whole, SlotCodes
<1>. QED BY <1>1, Invariant, PTL

\* An operation that holds a result is done and reports the code of that result.
THEOREM StatusIsTrue == Spec => []StatusMatches
<1>1. IInv => StatusMatches
  BY DEF IInv
<1>. QED BY <1>1, Invariant, PTL
=============================================================================
