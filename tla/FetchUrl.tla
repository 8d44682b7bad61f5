------------------------------ MODULE FetchUrl ------------------------------
(***************************************************************************)
(* fetch_url: operations that are polled, and blocking fetches, of the     *)
(* desktop build (fetch_url.c, on curl) and of the browser build           *)
(* (fetch_url.wasm.c, on emscripten_fetch; fetch_url_sync.wasm.c, on       *)
(* JSPI).  build says which one runs.                                      *)
(*                                                                         *)
(* The data of a result is a buffer of the heap, numbered by its           *)
(* allocation; 0 is NULL.  A url is the number of the request, body[u] the *)
(* number of parts the server sends for it.                                *)
(***************************************************************************)
EXTENDS WgOp, Sequences, FiniteSets

CONSTANTS
    Slots,          \* the fetch_url_result_t the application keeps
    MaxOps,         \* bound: calls of fetch_url_async
    MaxSyncs,       \* bound: calls of fetch_url_sync
    MaxParts,       \* bound: parts of a body
    OkStatus,       \* statuses for which emscripten_fetch calls onsuccess
    OtherStatus     \* the other statuses a server answers with

ASSUME FetchUrlAssumption ==
    /\ MaxOps \in Nat /\ MaxSyncs \in Nat /\ MaxParts \in Nat
    /\ OkStatus \subseteq Nat \ {0} /\ 200 \in OkStatus
    /\ OtherStatus \subseteq Nat \ {0, 200}

VARIABLES
    build,          \* "desktop" or "browser"
    ops,            \* fetch_url_op_t: op and result
    impl,           \* what wg_op_impl points to: the stored result of the
                    \* desktop build, the fetch_context_t of the browser build
    slots,          \* results in the application's hands
    call,           \* the fetch_url_sync that has not returned
    heap,           \* buffers of data
    body,
    asking,         \* operations whose emscripten_fetch has not called back
    stale,          \* a callback has read a context that was freed
    nsyncs

vars == <<build, ops, impl, slots, call, heap, body, asking, stale, nsyncs>>

NoResult == [data |-> 0, code |-> 0, url |-> 0]

NoCall == [busy |-> FALSE, op |-> 0, slot |-> 0, url |-> 0, data |-> 0]

Init ==
    /\ build \in {"desktop", "browser"}
    /\ ops = <<>> /\ impl = <<>>
    /\ slots = [s \in Slots |-> NoResult]
    /\ call = NoCall
    /\ heap = <<>> /\ body = <<>>
    /\ asking = {} /\ stale = FALSE /\ nsyncs = 0

\* curl blocks the program; JSPI suspends one call and lets the others run.
Running == call.busy => build = "browser"

\* The application leaves alone a result that it has passed to a call.
Usable(s) == call.busy => call.slot # s

Alive(i) == ~Freed(ops[i].op)

\* Buffer b is given up: freed, or lost by an application that overwrites the only
\* pointer to it.
Mark(h, b, state) == IF b = 0 THEN h ELSE [h EXCEPT ![b].state = state]

free(h, b) == Mark(h, b, "freed")

malloc(h, u, parts) == Append(h, [state |-> "live", url |-> u, parts |-> parts])

NextUrl == Len(body) + 1

-----------------------------------------------------------------------------
(* fetch_url_sync, for the application or for fetch_url_async.             *)

\* The request goes out.
Perform(i, s, parts) ==
    /\ body' = Append(body, parts)
    /\ call' = [busy |-> TRUE, op |-> i, slot |-> s, url |-> NextUrl, data |-> 0]

\* Mutant: the operation is completed with the code it was created with.
ReturnStale(result) ==
    /\ call' = NoCall
    /\ IF call.op = 0
       THEN slots' = [slots EXCEPT ![call.slot] = result] /\ UNCHANGED <<ops, impl>>
       ELSE /\ impl' = [impl EXCEPT ![call.op].result = result]
            /\ ops' = [ops EXCEPT ![call.op] =
                         [op |-> wg_op_complete(@.op, @.result.code), result |-> result]]
            /\ UNCHANGED slots
    /\ UNCHANGED <<build, body, asking, stale, nsyncs>>

\* Where fetch_url_sync leaves its result, and its caller what follows.
Return(result) ==
    /\ call' = NoCall
    /\ IF call.op = 0
       THEN slots' = [slots EXCEPT ![call.slot] = result] /\ UNCHANGED <<ops, impl>>
       ELSE /\ impl' = [impl EXCEPT ![call.op].result = result]
            /\ ops' = [ops EXCEPT ![call.op] =
                         [op |-> wg_op_complete(@.op, result.code), result |-> result]]
            /\ UNCHANGED slots
    /\ UNCHANGED <<build, body, asking, stale, nsyncs>>

fetch_url_result_reset_common(s) ==
    /\ heap' = free(heap, slots[s].data)
    /\ slots' = [slots EXCEPT ![s] = NoResult]

\* The result is reset first.
fetch_url_sync(s) ==
    /\ Running /\ ~call.busy /\ nsyncs < MaxSyncs
    /\ nsyncs' = nsyncs + 1
    /\ fetch_url_result_reset_common(s)
    /\ \E parts \in 0 .. MaxParts : Perform(0, s, parts)
    /\ UNCHANGED <<build, ops, impl, asking, stale>>

\* curl_easy_init fails, or fetch_url_join_path_common for a url that is too long.
fetch_url_sync_refused(s) ==
    /\ Running /\ Usable(s) /\ nsyncs < MaxSyncs
    /\ nsyncs' = nsyncs + 1
    /\ heap' = free(heap, slots[s].data)
    /\ slots' = [slots EXCEPT ![s] = [NoResult EXCEPT !.code = -1]]
    /\ UNCHANGED <<build, ops, impl, call, body, asking, stale>>

Received == IF call.data = 0 THEN 0 ELSE heap[call.data].parts

Curl == build = "desktop" /\ call.busy

\* A part of the body arrives; when realloc fails curl gives up (PerformFails).
write_callback ==
    /\ Curl /\ Received < body[call.url]
    /\ IF call.data = 0
       THEN /\ heap' = malloc(heap, call.url, 1)
            /\ call' = [call EXCEPT !.data = Len(heap')]
       ELSE heap' = [heap EXCEPT ![call.data].parts = @ + 1] /\ UNCHANGED call
    /\ UNCHANGED <<build, ops, impl, slots, body, asking, stale, nsyncs>>

\* curl_easy_perform fails, after any part.
PerformFails ==
    /\ Curl
    /\ heap' = free(heap, call.data)
    /\ Return([data |-> 0, code |-> 500, url |-> call.url])

\* It succeeds with another status than 200: the body is dropped.
PerformRefused ==
    /\ Curl /\ Received = body[call.url]
    /\ heap' = free(heap, call.data)
    /\ \E status \in (OkStatus \cup OtherStatus) \ {200} :
         Return([data |-> 0, code |-> status, url |-> call.url])

\* Mutant: the code is set before the buffer is made longer, and stays.
PerformOkEarly ==
    /\ Curl /\ Received = body[call.url]
    /\ \/ /\ heap' = IF call.data = 0 THEN malloc(heap, call.url, 0) ELSE heap
          /\ Return([data |-> IF call.data = 0 THEN Len(heap') ELSE call.data,
                     code |-> 200, url |-> call.url])
       \/ /\ heap' = free(heap, call.data)
          /\ Return([data |-> 0, code |-> 200, url |-> call.url])

\* It succeeds; the buffer is made longer by a NUL, or there is no memory.
PerformOk ==
    /\ Curl /\ Received = body[call.url]
    /\ \/ /\ heap' = IF call.data = 0 THEN malloc(heap, call.url, 0) ELSE heap
          /\ Return([data |-> IF call.data = 0 THEN Len(heap') ELSE call.data,
                     code |-> 200, url |-> call.url])
       \/ /\ heap' = free(heap, call.data)
          /\ Return([data |-> 0, code |-> -1, url |-> call.url])

\* JSPI: the body of an answer of any status; or no answer, or no memory.
JspiAnswers ==
    /\ build = "browser" /\ call.busy
    /\ \/ /\ heap' = malloc(heap, call.url, body[call.url])
          /\ \E status \in OkStatus \cup OtherStatus :
               Return([data |-> Len(heap'), code |-> status, url |-> call.url])
       \/ /\ UNCHANGED heap
          /\ Return([data |-> 0, code |-> 500, url |-> call.url])

-----------------------------------------------------------------------------
(* Operations.                                                             *)

\* Without memory, or when the url does not fit, NULL is returned and nothing
\* is left behind.
NewOp(op, result, stored) ==
    /\ Running /\ Len(ops) < MaxOps
    /\ ops' = Append(ops, [op |-> op, result |-> result])
    /\ impl' = Append(impl, [live |-> TRUE, result |-> stored])

PendingOp == wg_op_init("FETCH_URL", Len(ops) + 1)

\* Desktop: the fetch is done before the operation is returned, or fails at once
\* in curl_easy_init.
fetch_url_async ==
    /\ build = "desktop"
    /\ \/ /\ NewOp(PendingOp, NoResult, NoResult)
          /\ \E parts \in 0 .. MaxParts : Perform(Len(ops) + 1, 0, parts)
       \/ /\ LET failed == [NoResult EXCEPT !.code = -1]
             IN NewOp(wg_op_complete(PendingOp, failed.code), failed, failed)
          /\ UNCHANGED <<call, body>>
    /\ UNCHANGED <<build, slots, heap, asking, stale, nsyncs>>

\* Browser: the request goes out, with the context as userData.
fetch_url_async_wasm ==
    /\ build = "browser"
    /\ NewOp(PendingOp, [NoResult EXCEPT !.url = NextUrl], NoResult)
    /\ \E parts \in 0 .. MaxParts : body' = Append(body, parts)
    /\ asking' = asking \cup {Len(ops) + 1}
    /\ UNCHANGED <<build, slots, call, heap, stale, nsyncs>>

\* Both callbacks find the operation through the context.
Answer(i, result) ==
    ops' = [ops EXCEPT ![i] = [op |-> wg_op_complete(@.op, result.code),
                               result |-> result]]

fetch_success(i) ==
    /\ i \in asking /\ impl[i].live
    /\ LET u == ops[i].result.url IN
       \/ /\ heap' = malloc(heap, u, body[u])
          /\ \E status \in OkStatus :
               Answer(i, [data |-> Len(heap'), code |-> status, url |-> u])
       \/ /\ UNCHANGED heap
          /\ Answer(i, [data |-> 0, code |-> 500, url |-> u])
    /\ asking' = asking \ {i}
    /\ UNCHANGED <<build, impl, slots, call, body, stale, nsyncs>>

\* Mutant: an error without a status does not complete the operation.
ErrorIgnored(i) ==
    /\ i \in asking /\ impl[i].live
    /\ \/ \E status \in OtherStatus :
            Answer(i, [data |-> 0, code |-> status, url |-> ops[i].result.url])
       \/ UNCHANGED ops
    /\ asking' = asking \ {i}
    /\ UNCHANGED <<build, impl, slots, call, heap, body, stale, nsyncs>>

\* Status 0 is no answer at all: a timeout, a lost connection.
fetch_error(i) ==
    /\ i \in asking /\ impl[i].live
    /\ \E status \in OtherStatus \cup {0} :
         Answer(i, [data |-> 0, code |-> IF status > 0 THEN status ELSE 500,
                    url |-> ops[i].result.url])
    /\ asking' = asking \ {i}
    /\ UNCHANGED <<build, impl, slots, call, heap, body, stale, nsyncs>>

\* Either callback, when the context has been freed.
StaleAnswer(i) ==
    /\ i \in asking /\ ~impl[i].live
    /\ stale' = TRUE
    /\ UNCHANGED <<build, ops, impl, slots, call, heap, body, asking, nsyncs>>

\* The result is overwritten, whatever it holds.
MayFinish(i, s) ==
    /\ Running /\ Alive(i) /\ wg_op_is_done(ops[i].op) /\ Usable(s)
    /\ heap' = Mark(heap, slots[s].data, "lost")

\* Mutant: the operation keeps its data.
FinishKeeps(i, s) ==
    /\ build = "desktop" /\ MayFinish(i, s)
    /\ slots' = [slots EXCEPT ![s] = impl[i].result]
    /\ ops' = [ops EXCEPT ![i].result = impl[i].result]
    /\ UNCHANGED <<build, impl, call, body, asking, stale, nsyncs>>

\* Desktop: the stored result moves to the application; op->result is a copy.
fetch_url_finish(i, s) ==
    /\ build = "desktop" /\ MayFinish(i, s)
    /\ LET stored == wg_op_impl(ops[i].op) IN
       /\ slots' = [slots EXCEPT ![s] = impl[stored].result]
       /\ ops' = [ops EXCEPT ![i].result = impl[stored].result]
       /\ impl' = [impl EXCEPT ![stored].result = NoResult]
    /\ UNCHANGED <<build, call, body, asking, stale, nsyncs>>

\* Browser: op->result moves.
fetch_url_finish_wasm(i, s) ==
    /\ build = "browser" /\ MayFinish(i, s)
    /\ slots' = [slots EXCEPT ![s] = ops[i].result]
    /\ ops' = [ops EXCEPT ![i].result = NoResult]
    /\ UNCHANGED <<build, impl, call, body, asking, stale, nsyncs>>

\* wg_op_deinit calls the destructor that goes with impl; then the operation
\* itself is freed.
Destroy(i) ==
    /\ Running /\ Alive(i)
    /\ impl' = [impl EXCEPT ![wg_op_impl(ops[i].op)] =
                  [live |-> FALSE, result |-> NoResult]]
    /\ ops' = [ops EXCEPT ![i] = [op |-> wg_op_deinit(@.op), result |-> NoResult]]
    /\ UNCHANGED <<build, slots, call, body, asking, stale, nsyncs>>

\* The stored result, with its data.
fetch_url_op_destroy_impl(i) ==
    heap' = free(heap, impl[wg_op_impl(ops[i].op)].result.data)

fetch_url_op_free(i) ==
    build = "desktop" /\ Alive(i) /\ fetch_url_op_destroy_impl(i) /\ Destroy(i)

\* op->result is reset; the context is freed even if the request is in flight.
fetch_url_op_free_wasm(i) ==
    /\ build = "browser"
    /\ heap' = free(heap, ops[i].result.data)
    /\ Destroy(i)

\* The application is done with a result.
Drop(s) ==
    /\ Running /\ Usable(s) /\ slots[s] # NoResult
    /\ fetch_url_result_reset_common(s)
    /\ UNCHANGED <<build, ops, impl, call, body, asking, stale, nsyncs>>

-----------------------------------------------------------------------------
OpAnswers ==
    \/ write_callback \/ PerformFails \/ PerformRefused \/ PerformOk
    \/ \E i \in asking : fetch_success(i) \/ fetch_error(i) \/ StaleAnswer(i)

Application ==
    \/ fetch_url_async \/ fetch_url_async_wasm
    \/ \E s \in Slots : fetch_url_sync(s) \/ fetch_url_sync_refused(s) \/ Drop(s)
    \/ \E i \in 1 .. Len(ops) : fetch_url_op_free(i) \/ fetch_url_op_free_wasm(i)
    \/ \E i \in 1 .. Len(ops), s \in Slots :
         fetch_url_finish(i, s) \/ fetch_url_finish_wasm(i, s)

\* Nothing is said of what follows a stale read.
Next == ~stale /\ (OpAnswers \/ JspiAnswers \/ Application)

Spec == Init /\ [][Next]_vars

\* curl and emscripten_fetch answer, if only with a timeout; a JSPI fetch has
\* none, and nothing is assumed of it.
FairSpec == Spec /\ WF_vars(~stale /\ OpAnswers)

-----------------------------------------------------------------------------
\* The result that counts: the stored one on the desktop.
Held(i) == IF build = "desktop" THEN impl[i].result ELSE ops[i].result

\* Who has to free buffer b.
Owners(b) ==
    {<<"slot", s>> : s \in {s \in Slots : slots[s].data = b}}
        \cup {<<"op", i>> : i \in {i \in 1 .. Len(ops) : Held(i).data = b}}
        \cup (IF call.data = b THEN {<<"call", 0>>} ELSE {})

\* Every buffer has one owner until it is freed, and none after: through the
\* copies that fetch_url_async and fetch_url_finish make of a result, second
\* finishes, frees before and after, failed fetches and missing memory,
\* nothing is freed twice or used after it was freed, and nothing is left behind
\* but what the application itself overwrites with a finish.
HeapOwned ==
    \A b \in 1 .. Len(heap) :
        Cardinality(Owners(b)) = IF heap[b].state = "live" THEN 1 ELSE 0

OpResults == {Held(i) : i \in {i \in 1 .. Len(ops) : Alive(i)}}

Results == {slots[s] : s \in Slots} \cup OpResults

\* The data of a result is all that the server sent for the url of that result,
\* and 200 comes with data.  No data comes with a code of the library's own (-1,
\* 0), none with another code than 200 from curl (103-136), and none with a
\* status that is not a success from an operation (fetch_url.wasm.c:64); only
\* JSPI hands out the body of any answer, a 500 too (fetch_url_sync.wasm.c:33-35).
BodyWhole ==
    /\ \A r \in Results :
         /\ r.data # 0 =>
              /\ heap[r.data] = [state |-> "live", url |-> r.url, parts |-> body[r.url]]
              /\ r.code \in IF build = "desktop" THEN {200} ELSE OkStatus \cup OtherStatus
         /\ r.code = 200 => r.data # 0
    /\ \A r \in OpResults : r.data # 0 => r.code \in OkStatus

\* An operation whose result has not been taken reports the code of that
\* result, and it is done as soon as it has one.
StatusMatches ==
    \A i \in 1 .. Len(ops) : Alive(i) /\ Held(i).code # 0 =>
        wg_op_is_done(ops[i].op) /\ ops[i].op.status_code = Held(i).code

\* Every fetch that is begun is answered: the operation becomes done unless it
\* is freed (the callback of a freed one finds no context).
FetchCompletes ==
    \A i \in 1 .. MaxOps :
        i \in DOMAIN ops ~> stale \/ (i \in DOMAIN ops /\ wg_op_is_done(ops[i].op))
=============================================================================
