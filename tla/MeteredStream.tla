--------------------------- MODULE MeteredStream ---------------------------
(***************************************************************************)
(* A streamed response on its way to the client: MeteredStream             *)
(* (src/resource/cancelling_stream.rs) meters each chunk it forwards       *)
(* (StreamMeter, src/resource/stream_meter.rs), charges the request's      *)
(* budget envelope with the difference, and, when the stream terminates,   *)
(* releases the reservation and fires the finish hook.                     *)
(*                                                                         *)
(* One action is one poll of the stream by the response body (or its       *)
(* drop); the cancellation token may be set by others between two polls.   *)
(* The upstream is any sequence of chunks and errors; the SSE framing of   *)
(* Provider::chat_stream (src/providers/mod.rs) turns an event it cannot   *)
(* parse into an error and goes on, so chunks may follow an error.  The    *)
(* response body goes on polling after an error too.  A chunk carries a    *)
(* usage report or content, of which only the estimated tokens matter.     *)
(* Nothing panics under the meter's lock, so the path for a poisoned lock  *)
(* (lines 124-138) is left out.                                            *)
(***************************************************************************)
EXTENDS BudgetEnvelope, Integers, Sequences, FiniteSets

CONSTANTS Contents,      \* estimated tokens of a content chunk
          UsageReports,  \* [prompt, completion] of a usage report
          Prices,        \* [input, output] nano-dollars per 1000 tokens; zero
                         \* prices stand for a model without pricing
          MaxItems       \* bound: chunks the upstream sends

ASSUME StreamAssumption ==
    /\ Contents \subseteq Nat
    /\ UsageReports \subseteq [prompt : Nat, completion : Nat]
    /\ Prices \subseteq [input : Nat, output : Nat]
    /\ MaxItems \in Nat
    \* The tokens of a stream fit a u64: a report holds two u32s, and the
    \* estimates add up to a quarter of the bytes received.
    /\ \A r \in UsageReports : r.prompt + r.completion <= CounterMax
    /\ \E most \in 0..CounterMax : /\ \A tokens \in Contents : tokens <= most
                                  /\ MaxItems * most <= CounterMax

ContentChunk(tokens) == [usage |-> FALSE, prompt |-> 0, completion |-> tokens]
UsageChunk(report) == [usage |-> TRUE, prompt |-> report.prompt,
                       completion |-> report.completion]
Chunks == {ContentChunk(t) : t \in Contents} \union {UsageChunk(r) : r \in UsageReports}

VARIABLES price,          \* the model's pricing, of this stream
          has_envelope,   \* with_budget_envelope was called
          env,            \* the envelope
          meter,          \* the StreamMeter
          prev,           \* prev_cost_nanos and prev_tokens
          cancelled,      \* the cancellation token
          guard,          \* the ResourceGuard is still held
          hook,           \* on_finish is still armed
          phase,          \* "live", "ended" (returned None) or "dropped"
          received,       \* history: chunks taken from the upstream
          delivered,      \* history: how many of them went to the client
          reports,        \* history: the reports given to the finish hook
          upstream_failed \* history: the upstream has yielded an error

vars == <<price, has_envelope, env, meter, prev, cancelled, guard, hook, phase,
          received, delivered, reports, upstream_failed>>
history == <<received, delivered, upstream_failed>>

Totals == [cost : Nat, tokens : Nat]

TypeOK ==
    /\ price \in Prices
    /\ has_envelope \in BOOLEAN
    /\ env \in EnvelopeType
    /\ meter \in [prompt : Nat, completion : Nat, cost : Nat, finalized : BOOLEAN]
    /\ prev \in Totals
    /\ cancelled \in BOOLEAN
    /\ guard \in BOOLEAN
    /\ hook \in BOOLEAN
    /\ phase \in {"live", "ended", "dropped"}
    /\ received \in Seq(Chunks)
    /\ delivered \in 0..Len(received)
    /\ reports \in Seq(Totals)
    /\ upstream_failed \in BOOLEAN

Init ==
    /\ price \in Prices
    /\ has_envelope \in BOOLEAN
    /\ env = NewEnvelope
    /\ meter = [prompt |-> 0, completion |-> 0, cost |-> 0, finalized |-> FALSE]
    /\ prev = [cost |-> 0, tokens |-> 0]
    /\ cancelled = FALSE
    /\ guard = TRUE
    /\ hook = TRUE
    /\ phase = "live"
    /\ received = << >>
    /\ delivered = 0
    /\ reports = << >>
    /\ upstream_failed = FALSE

-----------------------------------------------------------------------------
(* StreamMeter *)
nanos_for_tokens(tokens, rate) ==
    LET nanos == (tokens * rate + 500) \div 1000
    IN  IF nanos > CounterMax THEN CounterMax ELSE nanos

\* Each part saturates; their sum is a plain addition of u64s, which wraps.
CostOf(prompt, completion) ==
    (nanos_for_tokens(prompt, price.input) + nanos_for_tokens(completion, price.output))
        % (CounterMax + 1)

\* The first usage report is the authoritative total: it freezes the meter.
record_chunk(m, chunk) ==
    LET prompt == IF chunk.usage THEN chunk.prompt ELSE m.prompt
        completion == IF chunk.usage THEN chunk.completion
                                     ELSE m.completion + chunk.completion
    IN IF m.finalized THEN m
       ELSE [prompt |-> prompt, completion |-> completion,
             cost |-> CostOf(prompt, completion), finalized |-> chunk.usage]

TotalsOf(m) == [cost |-> m.cost, tokens |-> m.prompt + m.completion]

\* Nothing changes the counters without updating the cost, so the update_cost
\* of finalize leaves the cost as it is.
finalize(m) == [m EXCEPT !.finalized = TRUE]

-----------------------------------------------------------------------------
(* MeteredStream *)

\* Faulty variant: refunds everything.
Reconcile_all(e, told, report) ==
    IF report.cost < told.cost \/ report.tokens < told.tokens
    THEN reconcile_refund(e, told.cost, told.tokens)
    ELSE record(e, report.cost - told.cost, report.tokens - told.tokens)

\* The envelope after the final report: a refund when either total came down,
\* a top-up otherwise.  told are the totals charged chunk by chunk.
Reconcile(e, told, report) ==
    IF report.cost < told.cost \/ report.tokens < told.tokens
    THEN reconcile_refund(e, saturating_sub(told.cost, report.cost),
                             saturating_sub(told.tokens, report.tokens))
    ELSE record(e, report.cost - told.cost, report.tokens - told.tokens)

\* Faulty variant: the hook is not taken.
Finish_armed(m, e) ==
    /\ guard' = FALSE
    /\ hook' = hook
    /\ meter' = finalize(m)
    /\ env' = IF has_envelope THEN Reconcile(e, prev, TotalsOf(m)) ELSE e
    /\ reports' = Append(reports, TotalsOf(m))

\* release_guard and fire_finish_hook, on meter m and envelope e: what every
\* path that terminates the stream does, the second time to no effect.
Finish(m, e) ==
    /\ guard' = FALSE
    /\ hook' = FALSE
    /\ IF hook
       THEN /\ meter' = finalize(m)
            /\ env' = IF has_envelope THEN Reconcile(e, prev, TotalsOf(m)) ELSE e
            /\ reports' = Append(reports, TotalsOf(m))
       ELSE meter' = m /\ env' = e /\ UNCHANGED reports

Cancel ==
    /\ ~cancelled
    /\ phase = "live"
    /\ cancelled' = TRUE
    /\ UNCHANGED <<price, has_envelope, env, meter, prev, guard, hook, phase,
                   reports, history>>

PollCancelled ==
    /\ phase = "live"
    /\ cancelled
    /\ Finish(meter, env)
    /\ phase' = "ended"
    /\ UNCHANGED <<price, has_envelope, prev, cancelled, history>>

\* The change of the running totals since the last chunk that was charged.
Delta(m) == [cost   |-> TotalsOf(m).cost - prev.cost,
             tokens |-> TotalsOf(m).tokens - prev.tokens]
Positive(n) == IF n > 0 THEN n ELSE 0

\* Only what is owed is charged; a mixed change is charged, never refunded.
Owes(m) == Delta(m).cost > 0 \/ Delta(m).tokens > 0
Charged(m) == record(env, Positive(Delta(m).cost), Positive(Delta(m).tokens))
Refunded(m) == reconcile_refund(env, Positive(-Delta(m).cost), Positive(-Delta(m).tokens))
Breach(m) == /\ has_envelope /\ Owes(m)
             /\ exceeds(env, Positive(Delta(m).cost), Positive(Delta(m).tokens))

Receive(chunk) ==
    /\ phase = "live"
    /\ ~cancelled
    /\ Len(received) < MaxItems
    /\ received' = Append(received, chunk)
    /\ UNCHANGED <<price, has_envelope, upstream_failed>>

PollChunk(chunk) ==
    LET m == record_chunk(meter, chunk)
    IN /\ Receive(chunk)
       /\ ~Breach(m)
       /\ meter' = m
       /\ env' = CASE ~has_envelope -> env
                   [] has_envelope /\ Owes(m) -> Charged(m)
                   [] has_envelope /\ ~Owes(m) -> Refunded(m)
       /\ prev' = IF has_envelope THEN TotalsOf(m) ELSE prev
       /\ delivered' = delivered + 1
       /\ UNCHANGED <<cancelled, guard, hook, phase, reports>>

\* The chunk is replaced by an error, and the next poll returns None.
PollBreach(chunk) ==
    LET m == record_chunk(meter, chunk)
    IN /\ Receive(chunk)
       /\ Breach(m)
       /\ cancelled' = TRUE
       /\ Finish(m, Charged(m))
       /\ UNCHANGED <<prev, phase, delivered>>

PollError ==
    /\ phase = "live"
    /\ ~cancelled
    /\ Finish(meter, env)
    /\ upstream_failed' = TRUE
    /\ UNCHANGED <<price, has_envelope, prev, cancelled, phase,
                   received, delivered>>

PollEnd ==
    /\ phase = "live"
    /\ ~cancelled
    /\ Finish(meter, env)
    /\ phase' = "ended"
    /\ UNCHANGED <<price, has_envelope, prev, cancelled, history>>

\* The response body is dropped: at its end, or early when the client leaves.
Drop ==
    /\ phase # "dropped"
    /\ cancelled' = TRUE
    /\ Finish(meter, env)
    /\ phase' = "dropped"
    /\ UNCHANGED <<price, has_envelope, prev, history>>

Next ==
    \/ Cancel
    \/ PollCancelled
    \/ \E chunk \in Chunks : PollChunk(chunk) \/ PollBreach(chunk)
    \/ PollError
    \/ PollEnd
    \/ Drop

Spec == Init /\ [][Next]_vars

-----------------------------------------------------------------------------
\* What a list of chunks amounts to: the first usage report if there is one,
\* the sum of the estimates otherwise, counted token by token.
FirstReport(chunks) ==
    {i \in DOMAIN chunks : chunks[i].usage /\ \A j \in 1..i-1 : ~chunks[j].usage}
EstimatedTokens(chunks) ==
    UNION {{i} \X (1..chunks[i].completion) : i \in DOMAIN chunks}
StreamTotals(chunks) ==
    LET first == FirstReport(chunks)
        report == chunks[CHOOSE i \in first : TRUE]
        prompt == IF first = {} THEN 0 ELSE report.prompt
        completion == IF first = {} THEN Cardinality(EstimatedTokens(chunks))
                                    ELSE report.completion
    IN [cost |-> CostOf(prompt, completion), tokens |-> prompt + completion]
Delivered == SubSeq(received, 1, delivered)

\* "Fired exactly once when a streamed response terminates" (line 13): the
\* hook never fires twice, it fires after the reservation is given back, and
\* once the stream has ended or was dropped both have happened.
FinishedOnce ==
    /\ Len(reports) <= 1
    /\ reports # << >> => ~guard
    /\ phase # "live" => Len(reports) = 1

\* As long as the upstream yields no error, the report counts what was taken
\* from the upstream, each chunk once, whatever ended the stream.
ReportComplete ==
    reports # << >> /\ ~upstream_failed => reports[1] = StreamTotals(received)

\* The client never gets more than the envelope allows, short of an upstream
\* error.
DeliveredWithinBudget ==
    has_envelope /\ ~upstream_failed =>
        /\ StreamTotals(Delivered).cost <= MaxCost
        /\ StreamTotals(Delivered).tokens <= MaxTokens

\* The envelope never holds less than what the stream has cost, before or
\* after reconciliation: refunds only give back what was charged.
NeverUndercharged ==
    has_envelope => env.cost >= meter.cost /\ env.tokens >= TotalsOf(meter).tokens

\* Whichever of its ends a stream meets, and however many in turn, there is one
\* report, after the release, of each chunk once (cancelling_stream.rs:184).
ReportedOnce == TypeOK /\ FinishedOnce /\ ReportComplete
=============================================================================
