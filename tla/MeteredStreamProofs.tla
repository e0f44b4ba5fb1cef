------------------------ MODULE MeteredStreamProofs ------------------------
(***************************************************************************)
(* Proofs about module MeteredStream, for all prices, chunks, budgets and  *)
(* counter widths.                                                         *)
(*                                                                         *)
(* While the finish hook is armed the meter stands for the chunks received *)
(* and the envelope for the meter.  A breach is the one step after which   *)
(* they differ, and it also ends the stream: the stream is cancelled and   *)
(* the hook is spent.                                                      *)
(***************************************************************************)
EXTENDS MeteredStream, FiniteSetTheorems, TLAPS

Most == CHOOSE most \in 0..CounterMax : /\ \A tokens \in Contents : tokens <= most
                                        /\ MaxItems * most <= CounterMax

LEMMA MostTokens ==
    /\ Most \in Nat /\ MaxItems * Most <= CounterMax
    /\ \A tokens \in Contents : tokens <= Most
<1>1. \E most \in 0..CounterMax : /\ \A tokens \in Contents : tokens <= most
                                  /\ MaxItems * most <= CounterMax
  BY StreamAssumption
<1>2. /\ Most \in 0..CounterMax
      /\ \A tokens \in Contents : tokens <= Most
      /\ MaxItems * Most <= CounterMax
  BY <1>1, Zenon DEF Most
<1> QED BY <1>2, EnvelopeAssumption

LEMMA Times ==
    ASSUME NEW a \in Nat, NEW b \in Nat, NEW m \in Nat, a <= b
    PROVE  a * m \in Nat /\ a * m <= b * m /\ (a + 1) * m = a * m + m
OBVIOUS

LEMMA ChunkTypes ==
    ASSUME NEW chunk \in Chunks
    PROVE  /\ chunk.usage \in BOOLEAN /\ chunk.prompt \in Nat /\ chunk.completion \in Nat
           /\ chunk.usage => chunk.prompt + chunk.completion <= CounterMax
           /\ ~chunk.usage => chunk.prompt = 0 /\ chunk.completion <= Most
<1>1. CASE \E tokens \in Contents : chunk = ContentChunk(tokens)
  BY <1>1, StreamAssumption, MostTokens DEF ContentChunk
<1>2. CASE \E report \in UsageReports : chunk = UsageChunk(report)
  <2>1. PICK report \in UsageReports : chunk = UsageChunk(report)
    BY <1>2
  <2>2. report \in [prompt : Nat, completion : Nat]
    BY StreamAssumption
  <2>3. report.prompt + report.completion <= CounterMax
    BY StreamAssumption
  <2> QED BY <2>1, <2>2, <2>3 DEF UsageChunk
<1> QED BY <1>1, <1>2 DEF Chunks

\* The cost of a stream is a u64, whatever its tokens (stream_meter.rs:97, 105).
LEMMA CostType ==
    ASSUME price \in Prices, NEW prompt \in Nat, NEW completion \in Nat
    PROVE  CostOf(prompt, completion) \in 0..CounterMax
<1>1. price.input \in Nat /\ price.output \in Nat /\ CounterMax \in Nat
  BY StreamAssumption, EnvelopeAssumption
<1>2. ASSUME NEW tokens \in Nat, NEW rate \in Nat
      PROVE  nanos_for_tokens(tokens, rate) \in 0..CounterMax
  <2>1. tokens * rate \in Nat
    OBVIOUS
  <2>2. \A n \in Nat : (n + 500) \div 1000 \in Nat
    OBVIOUS
  <2>3. (tokens * rate + 500) \div 1000 \in Nat
    BY <2>1, <2>2
  <2> QED BY <1>1, <2>3 DEF nanos_for_tokens
<1> DEFINE a == nanos_for_tokens(prompt, price.input)
           b == nanos_for_tokens(completion, price.output)
<1>3. a \in Nat /\ b \in Nat
  <2>1. a \in 0..CounterMax
    BY <1>1, <1>2
  <2>2. b \in 0..CounterMax
    BY <1>1, <1>2
  <2> QED BY <2>1, <2>2, <1>1
<1> HIDE DEF a, b
<1>4. (a + b) % (CounterMax + 1) \in 0..CounterMax
  BY <1>1, <1>3
<1> QED BY <1>4 DEF CostOf, a, b

-----------------------------------------------------------------------------
(* The envelope. *)

LEMMA RecordTypes ==
    ASSUME NEW e \in EnvelopeType, NEW cost \in Nat, NEW tokens \in Nat
    PROVE  /\ record(e, cost, tokens) \in EnvelopeType
           /\ record(e, cost, tokens).cost >= e.cost
           /\ record(e, cost, tokens).tokens >= e.tokens
           /\ \A n \in 0..CounterMax : n <= e.cost + cost => n <= record(e, cost, tokens).cost
           /\ \A n \in 0..CounterMax : n <= e.tokens + tokens => n <= record(e, cost, tokens).tokens
BY EnvelopeAssumption DEF EnvelopeType, record, saturating_add

LEMMA RecordNothing ==
    ASSUME NEW e \in EnvelopeType
    PROVE  record(e, 0, 0) = e /\ reconcile_refund(e, 0, 0) = e
BY EnvelopeAssumption DEF EnvelopeType, record, saturating_add, reconcile_refund, saturating_sub

LEMMA WithinCeilings ==
    ASSUME NEW e \in EnvelopeType, NEW cost \in Nat, NEW tokens \in Nat,
           ~exceeds(e, cost, tokens)
    PROVE  /\ record(e, cost, tokens).cost <= MaxCost
           /\ record(e, cost, tokens).tokens <= MaxTokens
BY EnvelopeAssumption DEF EnvelopeType, record, saturating_add, exceeds

LEMMA RefundTypes ==
    ASSUME NEW e \in EnvelopeType, NEW cost \in Nat, NEW tokens \in Nat
    PROVE  LET f == reconcile_refund(e, cost, tokens)
           IN  /\ f \in EnvelopeType /\ f.cost <= e.cost /\ f.tokens <= e.tokens
               /\ f.cost + cost >= e.cost /\ f.tokens + tokens >= e.tokens
BY EnvelopeAssumption DEF EnvelopeType, reconcile_refund, saturating_sub

-----------------------------------------------------------------------------
(* What the meter counts. *)

LEMMA OneMoreEstimate ==
    ASSUME NEW chunks \in Seq(Chunks), NEW chunk \in Chunks,
           IsFiniteSet(EstimatedTokens(chunks))
    PROVE  /\ IsFiniteSet(EstimatedTokens(Append(chunks, chunk)))
           /\ Cardinality(EstimatedTokens(Append(chunks, chunk))) =
                Cardinality(EstimatedTokens(chunks)) + chunk.completion
<1> DEFINE n == Len(chunks) + 1
           new == {n} \X (1..chunk.completion)
<1>1. chunk.completion \in Nat /\ Len(chunks) \in Nat
  BY ChunkTypes
<1>2. EstimatedTokens(Append(chunks, chunk)) = EstimatedTokens(chunks) \union new
  <2>1. /\ DOMAIN Append(chunks, chunk) = DOMAIN chunks \union {n}
        /\ \A i \in DOMAIN chunks : Append(chunks, chunk)[i] = chunks[i]
        /\ Append(chunks, chunk)[n] = chunk
    OBVIOUS
  <2>2. \A t : t \in EstimatedTokens(Append(chunks, chunk)) <=>
               \E i \in DOMAIN chunks \union {n} :
                   t \in {i} \X (1..Append(chunks, chunk)[i].completion)
    BY <2>1 DEF EstimatedTokens
  <2>3. \A t : t \in EstimatedTokens(chunks) <=>
               \E i \in DOMAIN chunks : t \in {i} \X (1..chunks[i].completion)
    BY DEF EstimatedTokens
  <2>4. \A t : t \in EstimatedTokens(Append(chunks, chunk)) <=>
               t \in EstimatedTokens(chunks) \/ t \in new
    BY <2>1, <2>2, <2>3
  <2> QED BY <2>4
<1>3. IsFiniteSet(new) /\ Cardinality(new) = chunk.completion
  <2>1. IsFiniteSet({n}) /\ Cardinality({n}) = 1
    BY FS_Singleton
  <2>2. IsFiniteSet(1..chunk.completion) /\ Cardinality(1..chunk.completion) = chunk.completion
    <3>1. 1 \in Int /\ chunk.completion \in Int
      BY <1>1
    <3>2. /\ IsFiniteSet(1..chunk.completion)
          /\ Cardinality(1..chunk.completion) =
               IF 1 > chunk.completion THEN 0 ELSE chunk.completion - 1 + 1
      BY <3>1, FS_Interval, Zenon
    <3> QED BY <1>1, <3>2
  <2>3. /\ IsFiniteSet(new)
        /\ Cardinality(new) = Cardinality({n}) * Cardinality(1..chunk.completion)
    BY <2>1, <2>2, FS_Product, Zenon
  <2> QED BY <1>1, <2>1, <2>2, <2>3
<1>4. EstimatedTokens(chunks) \cap new = {}
  BY DEF EstimatedTokens
<1>5. Cardinality(EstimatedTokens(chunks)) \in Nat
  BY FS_CardinalityType
<1> QED
  <2>1. /\ IsFiniteSet(EstimatedTokens(chunks) \union new)
        /\ Cardinality(EstimatedTokens(chunks) \union new) =
             Cardinality(EstimatedTokens(chunks)) + Cardinality(new)
             - Cardinality(EstimatedTokens(chunks) \cap new)
    BY <1>3, FS_Union
  <2>2. Cardinality(EstimatedTokens(chunks) \cap new) = 0
    BY <1>4, FS_EmptySet
  <2> QED BY <1>1, <1>2, <1>3, <1>5, <2>1, <2>2

\* The meter has added up estimates, or it holds the first report.
Counting(m, chunks) ==
    /\ \A i \in DOMAIN chunks : ~chunks[i].usage
    /\ IsFiniteSet(EstimatedTokens(chunks))
    /\ m.prompt = 0 /\ m.completion = Cardinality(EstimatedTokens(chunks))
    /\ m.completion <= Len(chunks) * Most
Told(m, chunks) ==
    /\ m.finalized
    /\ \E i \in FirstReport(chunks) : /\ m.prompt = chunks[i].prompt
                                      /\ m.completion = chunks[i].completion
Stands(m, chunks) == Counting(m, chunks) \/ Told(m, chunks)
Costed(m) == m.cost = CostOf(m.prompt, m.completion)

LEMMA StandsTotals ==
    ASSUME NEW chunks \in Seq(Chunks), NEW m, Stands(m, chunks), Costed(m)
    PROVE  TotalsOf(m) = StreamTotals(chunks)
<1>1. CASE Counting(m, chunks)
  <2>1. FirstReport(chunks) = {}
    BY <1>1 DEF Counting, FirstReport
  <2> QED BY <1>1, <2>1 DEF Costed, Counting, TotalsOf, StreamTotals
<1>2. CASE Told(m, chunks)
  <2>1. PICK i \in FirstReport(chunks) : /\ m.prompt = chunks[i].prompt
                                         /\ m.completion = chunks[i].completion
    BY <1>2 DEF Told
  <2>2. \A j \in FirstReport(chunks) : j = i
    <3> TAKE j \in FirstReport(chunks)
    <3>1. i \in 1..Len(chunks) /\ j \in 1..Len(chunks) /\ Len(chunks) \in Nat
      BY DEF FirstReport
    <3>2. ~(j < i) /\ ~(i < j)
      BY <3>1 DEF FirstReport
    <3> QED BY <3>1, <3>2
  <2>3. FirstReport(chunks) # {} /\ (CHOOSE j \in FirstReport(chunks) : TRUE) = i
    BY <2>2
  <2> QED BY <2>1, <2>3 DEF Costed, TotalsOf, StreamTotals
<1> QED BY <1>1, <1>2 DEF Stands

Meters == [prompt : Nat, completion : Nat, cost : Nat, finalized : BOOLEAN]
\* The totals fit the envelope's counters.
Fits(m) == m.cost <= CounterMax /\ m.prompt + m.completion <= CounterMax

LEMMA RecordMeters ==
    ASSUME price \in Prices, NEW m \in Meters, Fits(m), Costed(m),
           NEW chunks \in Seq(Chunks), NEW chunk \in Chunks, Len(chunks) < MaxItems,
           Stands(m, chunks), m.finalized => Told(m, chunks)
    PROVE  LET r == record_chunk(m, chunk)
           IN  /\ r \in Meters /\ Fits(r) /\ Costed(r)
               /\ Stands(r, Append(chunks, chunk))
               /\ r.finalized => Told(r, Append(chunks, chunk))
<1> DEFINE r == record_chunk(m, chunk)
           all == Append(chunks, chunk)
<1>1. /\ chunk.usage \in BOOLEAN /\ chunk.prompt \in Nat /\ chunk.completion \in Nat
      /\ chunk.usage => chunk.prompt + chunk.completion <= CounterMax
      /\ ~chunk.usage => chunk.prompt = 0 /\ chunk.completion <= Most
  BY ChunkTypes
<1>2. /\ all \in Seq(Chunks) /\ Len(all) = Len(chunks) + 1 /\ all[Len(chunks) + 1] = chunk
      /\ \A i \in DOMAIN chunks : i \in DOMAIN all /\ all[i] = chunks[i]
      /\ Len(chunks) \in Nat /\ DOMAIN chunks = 1..Len(chunks)
      /\ DOMAIN all = 1..Len(chunks) + 1
  OBVIOUS
<1>3. CASE m.finalized
  <2>1. r = m
    BY <1>3 DEF record_chunk
  <2>2. Told(m, all)
    <3>1. PICK i \in FirstReport(chunks) : /\ m.prompt = chunks[i].prompt
                                           /\ m.completion = chunks[i].completion
      BY <1>3 DEF Told
    <3>2. i \in FirstReport(all) /\ all[i] = chunks[i]
      BY <1>2 DEF FirstReport
    <3> QED BY <1>3, <3>1, <3>2 DEF Told
  <2> QED BY <2>1, <2>2 DEF Stands
<1>4. CASE ~m.finalized
  <2>1. Counting(m, chunks)
    BY <1>4 DEF Stands, Told
  <2> DEFINE prompt == IF chunk.usage THEN chunk.prompt ELSE m.prompt
             completion == IF chunk.usage THEN chunk.completion
                                          ELSE m.completion + chunk.completion
  <2>2. r = [prompt |-> prompt, completion |-> completion,
             cost |-> CostOf(prompt, completion), finalized |-> chunk.usage]
    BY <1>4 DEF record_chunk
  <2>3. prompt \in Nat /\ completion \in Nat
    BY <1>1 DEF Meters
  <2>4. CostOf(prompt, completion) \in 0..CounterMax
    BY <2>3, CostType
  <2>5. r \in Meters /\ Costed(r) /\ r.cost <= CounterMax
    BY <2>2, <2>3, <2>4, <1>1, EnvelopeAssumption DEF Meters, Costed
  <2>6. CASE chunk.usage
    <3>1. Len(chunks) + 1 \in FirstReport(all)
      BY <1>2, <2>1, <2>6 DEF FirstReport, Counting
    <3>2. Told(r, all)
      BY <2>2, <2>6, <3>1, <1>2 DEF Told
    <3>3. r.prompt + r.completion <= CounterMax
      BY <2>2, <2>6, <1>1
    <3> QED BY <2>5, <3>2, <3>3 DEF Stands, Fits
  <2>7. CASE ~chunk.usage
    <3>1. /\ IsFiniteSet(EstimatedTokens(all))
          /\ Cardinality(EstimatedTokens(all)) = m.completion + chunk.completion
      BY <2>1, OneMoreEstimate DEF Counting
    <3>2. r.prompt = 0 /\ r.completion = m.completion + chunk.completion
      BY <2>1, <2>2, <2>7 DEF Counting
    <3>3. /\ (Len(chunks) + 1) * Most = Len(chunks) * Most + Most
          /\ (Len(chunks) + 1) * Most <= MaxItems * Most
          /\ Len(chunks) * Most \in Nat /\ MaxItems * Most \in Nat
      <4> DEFINE n == Len(chunks)
      <4>1. /\ n \in Nat /\ n + 1 \in Nat /\ n <= n + 1 /\ n + 1 <= MaxItems
            /\ MaxItems \in Nat /\ MaxItems <= MaxItems /\ Most \in Nat
        BY <1>2, MostTokens, StreamAssumption
      <4> HIDE DEF n
      <4>2. n * Most \in Nat /\ (n + 1) * Most = n * Most + Most
        BY <4>1, Times
      <4>3. (n + 1) * Most <= MaxItems * Most /\ MaxItems * Most \in Nat
        BY <4>1, Times
      <4> QED BY <4>2, <4>3 DEF n
    <3>4. r.completion <= (Len(chunks) + 1) * Most
      BY <3>2, <3>3, <2>1, <2>7, <1>1, MostTokens DEF Counting, Meters
    <3>5. \A i \in DOMAIN all : ~all[i].usage
      BY <1>2, <2>1, <2>7 DEF Counting
    <3>6. Counting(r, all)
      BY <1>2, <3>1, <3>2, <3>4, <3>5 DEF Counting
    <3>7. r.prompt + r.completion <= CounterMax
      BY <3>2, <3>3, <3>4, <2>5, MostTokens, EnvelopeAssumption DEF Meters
    <3> QED BY <2>2, <2>5, <2>7, <3>6, <3>7 DEF Stands, Fits
  <2> QED BY <2>6, <2>7
<1> QED BY <1>3, <1>4 DEF Meters

-----------------------------------------------------------------------------
(* The inductive invariant. *)

\* The meter stands for the chunks received until the upstream fails: after
\* that it is frozen.
MeterInv ==
    /\ Fits(meter) /\ Costed(meter)
    /\ ~upstream_failed => Stands(meter, received)
    /\ hook /\ meter.finalized => Told(meter, received)

\* The hook is armed, or spent on the meter's final totals.
HookInv ==
    /\ hook => reports = << >> /\ ~upstream_failed /\ phase = "live"
    /\ ~hook => /\ Len(reports) = 1 /\ reports[1] = TotalsOf(meter)
                /\ ~guard /\ meter.finalized
    /\ ~hook /\ ~upstream_failed => cancelled \/ phase # "live"

\* As long as chunks may come, what was charged chunk by chunk is the meter's
\* total; while the hook is armed it is within the ceilings.
ChargeInv ==
    has_envelope =>
        /\ hook \/ (phase = "live" /\ ~cancelled) => prev = TotalsOf(meter)
        /\ hook => env.cost <= MaxCost /\ env.tokens <= MaxTokens

StreamInv == /\ TypeOK /\ MeterInv /\ HookInv /\ ChargeInv /\ NeverUndercharged
             /\ hook => delivered = Len(received)
             /\ DeliveredWithinBudget

\* The totals are numbers an envelope can hold.
LEMMA TotalsType ==
    ASSUME NEW m \in Meters, Fits(m)
    PROVE  /\ TotalsOf(m) \in Totals
           /\ TotalsOf(m).cost \in 0..CounterMax /\ TotalsOf(m).tokens \in 0..CounterMax
BY EnvelopeAssumption DEF Meters, Fits, TotalsOf, Totals

\* A hook that fires on a stream without a breach finds nothing to reconcile,
\* and a hook that was spent does nothing.
LEMMA FinishStep ==
    ASSUME StreamInv, Finish(meter, env),
           UNCHANGED <<price, has_envelope, prev, received, delivered>>,
           cancelled' \in BOOLEAN, upstream_failed' \in BOOLEAN,
           phase' \in {"live", "ended", "dropped"},
           phase' = "live" => phase = "live",
           cancelled => cancelled', upstream_failed => upstream_failed',
           ~upstream_failed' => cancelled' \/ phase' # "live"
    PROVE  StreamInv'
<1> USE DEF StreamInv
<1>1. /\ meter \in Meters /\ Fits(meter) /\ Costed(meter) /\ env \in EnvelopeType
      /\ TotalsOf(meter) \in Totals
  BY TotalsType DEF TypeOK, MeterInv, Meters
<1>2. env' = env
  <2>1. CASE hook /\ has_envelope
    <3>1. prev = TotalsOf(meter)
      BY <2>1 DEF ChargeInv
    <3>2. Reconcile(env, prev, TotalsOf(meter)) = record(env, 0, 0)
      BY <1>1, <3>1 DEF Reconcile, Totals
    <3> QED BY <1>1, <2>1, <3>2, RecordNothing DEF Finish
  <2> QED BY <2>1 DEF Finish
<1>3. /\ meter'.cost = meter.cost /\ meter'.prompt = meter.prompt
      /\ meter'.completion = meter.completion /\ meter' \in Meters /\ meter'.finalized
  BY <1>1 DEF Finish, finalize, Meters, HookInv
<1>4. TotalsOf(meter)' = TotalsOf(meter)
  BY <1>3 DEF TotalsOf
<1>5. /\ hook' = FALSE /\ guard' = FALSE /\ Len(reports') = 1
      /\ reports'[1] = TotalsOf(meter) /\ reports' \in Seq(Totals)
  <2>1. hook' = FALSE /\ guard' = FALSE
    BY DEF Finish
  <2>2. CASE hook
    <3>1. reports' = <<TotalsOf(meter)>>
      BY <2>2 DEF Finish, HookInv
    <3> QED BY <1>1, <2>1, <3>1
  <2>3. CASE ~hook
    BY <2>1, <2>3 DEF Finish, HookInv, TypeOK
  <2> QED BY <2>2, <2>3
<1>6. TypeOK'
  <2>1. /\ price \in Prices /\ has_envelope \in BOOLEAN /\ prev \in Totals
        /\ received \in Seq(Chunks) /\ delivered \in 0..Len(received)
    BY DEF TypeOK
  <2> QED BY <1>1, <1>2, <1>3, <1>5, <2>1 DEF TypeOK, Meters
<1>7. MeterInv'
  <2>1. Fits(meter)' /\ Costed(meter)'
    BY <1>1, <1>3 DEF Fits, Costed, CostOf
  <2>2. Stands(meter, received) => Stands(meter, received)'
    BY <1>3 DEF Stands, Counting, Told
  <2> QED BY <1>5, <2>1, <2>2 DEF MeterInv
<1>8. HookInv'
  BY <1>3, <1>4, <1>5 DEF HookInv
<1>9. ChargeInv'
  BY <1>4, <1>5 DEF ChargeInv
<1>10. NeverUndercharged'
  BY <1>2, <1>3, <1>4 DEF NeverUndercharged
<1>11. DeliveredWithinBudget'
  BY DEF DeliveredWithinBudget, Delivered, StreamTotals, CostOf
<1> QED BY <1>5, <1>6, <1>7, <1>8, <1>9, <1>10, <1>11

\* The change of the totals, for the counters of the envelope.
LEMMA DeltaTypes ==
    ASSUME NEW m \in Meters, Fits(m), prev \in Totals
    PROVE  /\ Delta(m).cost \in Int /\ Delta(m).tokens \in Int
           /\ TotalsOf(m).cost = prev.cost + Delta(m).cost
           /\ TotalsOf(m).tokens = prev.tokens + Delta(m).tokens
BY TotalsType DEF Delta, Totals

LEMMA PositiveTypes ==
    ASSUME NEW n \in Int
    PROVE  /\ Positive(n) \in Nat /\ Positive(n) >= n
           /\ Positive(-n) \in Nat /\ (n <= 0 => Positive(-n) = -n)
BY DEF Positive

\* Charging or refunding a chunk keeps the envelope above the new totals.
LEMMA Settles ==
    ASSUME NEW m \in Meters, Fits(m), prev \in Totals, env \in EnvelopeType,
           prev.cost <= env.cost, prev.tokens <= env.tokens
    PROVE  /\ Charged(m) \in EnvelopeType
           /\ Charged(m).cost >= TotalsOf(m).cost /\ Charged(m).tokens >= TotalsOf(m).tokens
           /\ Charged(m).cost >= prev.cost /\ Charged(m).tokens >= prev.tokens
           /\ ~Owes(m) => /\ Refunded(m) \in EnvelopeType
                          /\ Refunded(m).cost >= TotalsOf(m).cost
                          /\ Refunded(m).tokens >= TotalsOf(m).tokens
                          /\ Refunded(m).cost <= env.cost /\ Refunded(m).tokens <= env.tokens
<1> DEFINE dc == Delta(m).cost
           dt == Delta(m).tokens
           t == TotalsOf(m)
<1>1. /\ dc \in Int /\ dt \in Int /\ t.cost = prev.cost + dc /\ t.tokens = prev.tokens + dt
      /\ t.cost \in 0..CounterMax /\ t.tokens \in 0..CounterMax
  BY DeltaTypes, TotalsType
<1>2. /\ prev.cost \in Nat /\ prev.tokens \in Nat /\ CounterMax \in Nat
      /\ env.cost \in 0..CounterMax /\ env.tokens \in 0..CounterMax
  BY EnvelopeAssumption DEF Totals, EnvelopeType
<1>3. /\ Positive(dc) \in Nat /\ Positive(dc) >= dc /\ Positive(-dc) \in Nat
      /\ Positive(dt) \in Nat /\ Positive(dt) >= dt /\ Positive(-dt) \in Nat
      /\ (dc <= 0 => Positive(-dc) = -dc) /\ (dt <= 0 => Positive(-dt) = -dt)
  BY <1>1, PositiveTypes
<1>4. /\ Charged(m) \in EnvelopeType
      /\ Charged(m).cost >= env.cost /\ Charged(m).tokens >= env.tokens
      /\ \A n \in 0..CounterMax : n <= env.cost + Positive(dc) => n <= Charged(m).cost
      /\ \A n \in 0..CounterMax : n <= env.tokens + Positive(dt) => n <= Charged(m).tokens
  BY <1>3, RecordTypes DEF Charged
<1>5. ASSUME ~Owes(m)
      PROVE  /\ Refunded(m) \in EnvelopeType
             /\ Refunded(m).cost + Positive(-dc) >= env.cost
             /\ Refunded(m).tokens + Positive(-dt) >= env.tokens
             /\ Refunded(m).cost <= env.cost /\ Refunded(m).tokens <= env.tokens
             /\ dc <= 0 /\ dt <= 0
  <2>1. dc <= 0 /\ dt <= 0
    BY <1>1, <1>5 DEF Owes
  <2> DEFINE back == Positive(-dc)
             back2 == Positive(-dt)
  <2>2. Refunded(m) = reconcile_refund(env, back, back2)
    BY DEF Refunded
  <2>3. back \in Nat /\ back2 \in Nat
    BY <1>3
  <2> HIDE DEF back, back2
  <2>4. LET f == reconcile_refund(env, back, back2)
        IN  /\ f \in EnvelopeType /\ f.cost <= env.cost /\ f.tokens <= env.tokens
            /\ f.cost + back >= env.cost /\ f.tokens + back2 >= env.tokens
    BY <2>3, RefundTypes
  <2> QED BY <2>1, <2>2, <2>4 DEF back, back2
<1> HIDE DEF dc, dt, t
<1>6. t.cost <= env.cost + Positive(dc) /\ t.tokens <= env.tokens + Positive(dt)
  BY <1>1, <1>2, <1>3
<1>7. t.cost <= Charged(m).cost /\ t.tokens <= Charged(m).tokens
  BY <1>1, <1>4, <1>6
<1>8. Charged(m).cost >= prev.cost /\ Charged(m).tokens >= prev.tokens
  BY <1>2, <1>4 DEF EnvelopeType
<1>9. ASSUME ~Owes(m)
      PROVE  Refunded(m).cost >= t.cost /\ Refunded(m).tokens >= t.tokens
  BY <1>1, <1>2, <1>3, <1>5, <1>9 DEF EnvelopeType
<1> QED BY <1>1, <1>4, <1>5, <1>7, <1>8, <1>9 DEF t, EnvelopeType

\* A meter that was told the totals, or closed, ignores what follows.
LEMMA FrozenMeter ==
    ASSUME NEW m, NEW chunk, m.finalized
    PROVE  record_chunk(m, chunk) = m
BY DEF record_chunk

\* What polling a chunk does to the meter, with the hook armed or spent.
LEMMA NextMeter ==
    ASSUME StreamInv, NEW chunk \in Chunks, Receive(chunk)
    PROVE  LET m == record_chunk(meter, chunk)
           IN  /\ m \in Meters /\ Fits(m) /\ Costed(m)
               /\ hook => /\ Stands(m, received')
                          /\ m.finalized => Told(m, received')
               /\ ~hook => m = meter /\ upstream_failed
               /\ received' \in Seq(Chunks) /\ Len(received') = Len(received) + 1
               /\ \A n \in 0..Len(received) : SubSeq(received', 1, n) = SubSeq(received, 1, n)
<1> DEFINE m == record_chunk(meter, chunk)
<1>1. /\ price \in Prices /\ meter \in Meters /\ received \in Seq(Chunks)
      /\ Fits(meter) /\ Costed(meter)
  BY DEF StreamInv, TypeOK, MeterInv, Meters
<1>2. received' = Append(received, chunk) /\ Len(received) < MaxItems
  BY DEF Receive
<1>3. received' \in Seq(Chunks) /\ Len(received') = Len(received) + 1
  BY <1>1, <1>2
<1>4. \A n \in 0..Len(received) : SubSeq(received', 1, n) = SubSeq(received, 1, n)
  BY <1>1, <1>2
<1>5. CASE hook
  <2>1. Stands(meter, received) /\ (meter.finalized => Told(meter, received))
    BY <1>5 DEF StreamInv, MeterInv, HookInv
  <2> QED BY <1>1, <1>2, <1>3, <1>4, <1>5, <2>1, RecordMeters
<1>6. CASE ~hook
  <2>1. m = meter
    BY <1>6, FrozenMeter DEF StreamInv, HookInv
  <2>2. upstream_failed
    BY <1>6 DEF StreamInv, HookInv, Receive
  <2> QED BY <1>1, <1>3, <1>4, <1>6, <2>1, <2>2
<1> QED BY <1>5, <1>6

LEMMA ChunkStep ==
    ASSUME StreamInv, NEW chunk \in Chunks, PollChunk(chunk)
    PROVE  StreamInv'
<1> DEFINE m == record_chunk(meter, chunk)
<1>0. /\ Receive(chunk) /\ ~Breach(m) /\ meter' = m /\ delivered' = delivered + 1
      /\ UNCHANGED <<price, has_envelope, upstream_failed, cancelled, guard, hook, phase, reports>>
  BY DEF PollChunk, Receive
<1>1. /\ m \in Meters /\ Fits(m) /\ Costed(m)
      /\ hook => Stands(m, received') /\ (m.finalized => Told(m, received'))
      /\ ~hook => m = meter /\ upstream_failed
      /\ received' \in Seq(Chunks) /\ Len(received') = Len(received) + 1
  BY <1>0, NextMeter
<1>2. /\ meter \in Meters /\ Fits(meter) /\ env \in EnvelopeType /\ prev \in Totals
      /\ delivered \in 0..Len(received) /\ received \in Seq(Chunks)
      /\ phase = "live" /\ ~cancelled
  BY <1>0 DEF StreamInv, TypeOK, MeterInv, Meters, Receive
<1>3. TotalsOf(m) \in Totals
  BY <1>1, TotalsType
<1> HIDE DEF m
<1>4. TotalsOf(meter)' = TotalsOf(m)
  BY <1>0 DEF TotalsOf
<1>5. has_envelope => prev' = TotalsOf(m)
  BY DEF PollChunk, m
<1>6. /\ env' \in EnvelopeType
      /\ has_envelope => env'.cost >= m.cost /\ env'.tokens >= TotalsOf(m).tokens
      /\ has_envelope /\ hook => env'.cost <= MaxCost /\ env'.tokens <= MaxTokens
  <2>1. CASE ~has_envelope
    BY <1>2, <2>1 DEF PollChunk, m
  <2>2. CASE has_envelope
    <3>1. prev = TotalsOf(meter)
      BY <1>2, <2>2 DEF StreamInv, ChargeInv
    <3>2. prev.cost <= env.cost /\ prev.tokens <= env.tokens
      BY <1>2, <2>2, <3>1 DEF StreamInv, NeverUndercharged, TotalsOf, EnvelopeType, Meters
    <3>3. /\ Charged(m) \in EnvelopeType
          /\ Charged(m).cost >= TotalsOf(m).cost /\ Charged(m).tokens >= TotalsOf(m).tokens
          /\ ~Owes(m) => /\ Refunded(m) \in EnvelopeType
                         /\ Refunded(m).cost >= TotalsOf(m).cost
                         /\ Refunded(m).tokens >= TotalsOf(m).tokens
                         /\ Refunded(m).cost <= env.cost /\ Refunded(m).tokens <= env.tokens
      BY <1>1, <1>2, <3>2, Settles
    <3>4. m.cost = TotalsOf(m).cost
      BY DEF TotalsOf
    <3>5. CASE Owes(m)
      <4>1. env' = Charged(m)
        BY <2>2, <3>5 DEF PollChunk, m
      <4>2. /\ Positive(Delta(m).cost) \in Nat /\ Positive(Delta(m).tokens) \in Nat
        BY <1>1, <1>2, DeltaTypes, PositiveTypes
      <4>3. ~exceeds(env, Positive(Delta(m).cost), Positive(Delta(m).tokens))
        BY <1>0, <2>2, <3>5 DEF Breach
      <4>4. Charged(m).cost <= MaxCost /\ Charged(m).tokens <= MaxTokens
        BY <1>2, <4>2, <4>3, WithinCeilings DEF Charged
      <4> QED BY <3>3, <3>4, <4>1, <4>4
    <3>6. CASE ~Owes(m)
      <4>1. env' = Refunded(m)
        BY <2>2, <3>6 DEF PollChunk, m
      <4>2. hook => env.cost <= MaxCost /\ env.tokens <= MaxTokens
        BY <2>2 DEF StreamInv, ChargeInv
      <4> QED BY <1>2, <3>3, <3>4, <3>6, <4>1, <4>2, EnvelopeAssumption DEF EnvelopeType
    <3> QED BY <3>5, <3>6
  <2> QED BY <2>1, <2>2
<1>7. TypeOK'
  <2>1. delivered' \in 0..Len(received')
    BY <1>0, <1>1, <1>2
  <2>2. prev' \in Totals
    BY <1>2, <1>3 DEF PollChunk, m
  <2> QED BY <1>0, <1>1, <1>6, <2>1, <2>2 DEF StreamInv, TypeOK, Meters
<1>8. MeterInv'
  <2>1. Fits(meter)' /\ Costed(meter)'
    BY <1>0, <1>1 DEF Fits, Costed, CostOf
  <2>2. hook => Stands(meter, received)' /\ (meter.finalized => Told(meter, received))'
    BY <1>0, <1>1
  <2> QED BY <1>0, <1>1, <2>1, <2>2 DEF MeterInv
<1>9. HookInv'
  BY <1>0, <1>1, <1>4 DEF StreamInv, HookInv
<1>10. ChargeInv' /\ NeverUndercharged'
  BY <1>0, <1>4, <1>5, <1>6 DEF ChargeInv, NeverUndercharged
<1>11. hook' => delivered' = Len(received')
  BY <1>0, <1>1 DEF StreamInv
<1>12. DeliveredWithinBudget'
  <2> SUFFICES ASSUME has_envelope', ~upstream_failed'
               PROVE  (/\ StreamTotals(Delivered).cost <= MaxCost
                       /\ StreamTotals(Delivered).tokens <= MaxTokens)'
    BY DEF DeliveredWithinBudget
  <2>1. hook /\ has_envelope
    BY <1>0, <1>1
  <2>2. SubSeq(received', 1, delivered') = received'
    BY <1>0, <1>1, <1>11, <2>1
  <2>3. TotalsOf(m) = StreamTotals(received')
    BY <1>1, <2>1, StandsTotals
  <2>4. StreamTotals(Delivered)' = StreamTotals(received')
    BY <1>0, <2>2 DEF StreamTotals, Delivered, CostOf
  <2>5. m.cost = TotalsOf(m).cost /\ m.cost \in Nat /\ TotalsOf(m).tokens \in Nat
    BY <1>1, <1>3 DEF TotalsOf, Meters, Totals
  <2> QED BY <1>6, <2>1, <2>3, <2>4, <2>5, EnvelopeAssumption DEF EnvelopeType
<1> QED BY <1>7, <1>8, <1>9, <1>10, <1>11, <1>12 DEF StreamInv

\* Reconciling an envelope that holds both totals leaves it above the report.
LEMMA ReconcileCovers ==
    ASSUME NEW e \in EnvelopeType, NEW told \in Totals, NEW report \in Totals,
           e.cost >= told.cost, e.tokens >= told.tokens,
           e.cost >= report.cost, e.tokens >= report.tokens
    PROVE  LET f == Reconcile(e, told, report)
           IN  f \in EnvelopeType /\ f.cost >= report.cost /\ f.tokens >= report.tokens
<1>1. /\ told.cost \in Nat /\ told.tokens \in Nat /\ report.cost \in Nat /\ report.tokens \in Nat
      /\ e.cost \in 0..CounterMax /\ e.tokens \in 0..CounterMax /\ CounterMax \in Nat
  BY EnvelopeAssumption DEF Totals, EnvelopeType
<1>2. CASE report.cost < told.cost \/ report.tokens < told.tokens
  BY <1>1, <1>2 DEF Reconcile, reconcile_refund, saturating_sub, EnvelopeType
<1>3. CASE ~(report.cost < told.cost \/ report.tokens < told.tokens)
  BY <1>1, <1>3 DEF Reconcile, record, saturating_add, EnvelopeType
<1> QED BY <1>2, <1>3

LEMMA BreachStep ==
    ASSUME StreamInv, NEW chunk \in Chunks, PollBreach(chunk)
    PROVE  StreamInv'
<1> DEFINE m == record_chunk(meter, chunk)
<1>0. /\ Receive(chunk) /\ Breach(m) /\ cancelled' = TRUE /\ Finish(m, Charged(m))
      /\ UNCHANGED <<price, has_envelope, upstream_failed, prev, phase, delivered>>
  BY DEF PollBreach, Receive
<1>1. /\ m \in Meters /\ Fits(m) /\ Costed(m)
      /\ hook => Stands(m, received')
      /\ ~hook => m = meter
      /\ received' \in Seq(Chunks) /\ Len(received') = Len(received) + 1
      /\ \A n \in 0..Len(received) : SubSeq(received', 1, n) = SubSeq(received, 1, n)
  BY <1>0, NextMeter
<1>2. /\ meter \in Meters /\ env \in EnvelopeType /\ prev \in Totals
      /\ delivered \in 0..Len(received) /\ has_envelope /\ phase = "live" /\ ~cancelled
      /\ price \in Prices /\ upstream_failed \in BOOLEAN
  BY <1>0 DEF StreamInv, TypeOK, Meters, Receive, Breach
<1>3. TotalsOf(m) \in Totals
  BY <1>1, TotalsType
<1>4. prev = TotalsOf(meter)
  BY <1>2 DEF StreamInv, ChargeInv
<1>5. hook
  <2> SUFFICES ASSUME ~hook PROVE FALSE
    OBVIOUS
  <2>1. Owes(m)
    BY <1>0 DEF Breach
  <2>2. TotalsOf(m) = prev
    BY <1>1, <1>4
  <2> QED BY <1>2, <2>1, <2>2 DEF Owes, Delta, Totals
<1> HIDE DEF m
<1>6. /\ meter' = finalize(m) /\ hook' = FALSE /\ guard' = FALSE
      /\ env' = Reconcile(Charged(m), prev, TotalsOf(m))
      /\ reports' = <<TotalsOf(m)>>
  BY <1>0, <1>2, <1>5 DEF Finish, StreamInv, HookInv
<1>7. /\ meter' \in Meters /\ meter'.finalized /\ meter'.cost = m.cost
      /\ meter'.prompt = m.prompt /\ meter'.completion = m.completion
  BY <1>1, <1>6 DEF finalize, Meters
<1>8. TotalsOf(meter)' = TotalsOf(m) /\ m.cost = TotalsOf(m).cost
  BY <1>7 DEF TotalsOf
<1>9. /\ env' \in EnvelopeType
      /\ env'.cost >= m.cost /\ env'.tokens >= TotalsOf(m).tokens
  <2>1. prev.cost <= env.cost /\ prev.tokens <= env.tokens
    BY <1>2, <1>4 DEF StreamInv, NeverUndercharged, TotalsOf, EnvelopeType, Meters
  <2>2. /\ Charged(m) \in EnvelopeType
        /\ Charged(m).cost >= TotalsOf(m).cost /\ Charged(m).tokens >= TotalsOf(m).tokens
        /\ Charged(m).cost >= prev.cost /\ Charged(m).tokens >= prev.tokens
    BY <1>1, <1>2, <2>1, Settles
  <2> QED BY <1>2, <1>3, <1>6, <1>8, <2>2, ReconcileCovers
<1>10. TypeOK'
  <2>1. delivered' \in 0..Len(received') /\ reports' \in Seq(Totals)
    BY <1>0, <1>1, <1>2, <1>3, <1>6
  <2> QED BY <1>0, <1>1, <1>2, <1>6, <1>7, <1>9, <2>1 DEF StreamInv, TypeOK, Meters
<1>11. MeterInv'
  <2>1. Fits(meter)' /\ Costed(meter)'
    BY <1>0, <1>1, <1>7 DEF Fits, Costed, CostOf
  <2>2. Stands(meter, received)'
    BY <1>1, <1>5, <1>7 DEF Stands, Counting, Told
  <2> QED BY <1>6, <2>1, <2>2 DEF MeterInv
<1>12. HookInv'
  BY <1>0, <1>6, <1>7, <1>8 DEF HookInv
<1>13. ChargeInv' /\ NeverUndercharged'
  BY <1>0, <1>6, <1>7, <1>8, <1>9 DEF ChargeInv, NeverUndercharged
<1>14. DeliveredWithinBudget'
  <2>1. SubSeq(received', 1, delivered') = SubSeq(received, 1, delivered)
    BY <1>0, <1>1, <1>2
  <2>2. DeliveredWithinBudget
    BY DEF StreamInv
  <2> QED BY <1>0, <2>1, <2>2 DEF DeliveredWithinBudget, Delivered, StreamTotals, CostOf
<1> QED BY <1>6, <1>10, <1>11, <1>12, <1>13, <1>14 DEF StreamInv

LEMMA StreamInit == Init => StreamInv
<1> SUFFICES ASSUME Init PROVE StreamInv
  OBVIOUS
<1>1. CounterMax \in Nat /\ MaxCost \in Nat /\ MaxTokens \in Nat
      /\ price.input \in Nat /\ price.output \in Nat
  BY EnvelopeAssumption, StreamAssumption DEF Init
<1>2. CostOf(0, 0) = 0
  <2>1. nanos_for_tokens(0, price.input) = 0 /\ nanos_for_tokens(0, price.output) = 0
    BY <1>1 DEF nanos_for_tokens
  <2> QED BY <1>1, <2>1 DEF CostOf
<1>3. EstimatedTokens(received) = {} /\ DOMAIN received = {}
  BY DEF Init, EstimatedTokens
<1>4. IsFiniteSet({}) /\ Cardinality({}) = 0
  BY FS_EmptySet
<1>5. /\ received \in Seq(Chunks) /\ reports \in Seq(Totals) /\ Len(received) = 0
      /\ Len(received) * Most = 0
  BY MostTokens DEF Init
<1>6. Counting(meter, received)
  <2>1. meter.prompt = 0 /\ meter.completion = 0
    BY DEF Init
  <2> QED BY <1>3, <1>4, <1>5, <2>1 DEF Counting
<1>7. TypeOK
  <2>1. /\ env \in EnvelopeType /\ prev \in Totals /\ delivered \in 0..Len(received)
        /\ meter \in Meters
    BY <1>1, <1>5 DEF Init, NewEnvelope, EnvelopeType, Totals, Meters
  <2> QED BY <1>5, <2>1 DEF Init, TypeOK, Meters
<1>8. MeterInv
  BY <1>1, <1>2, <1>6 DEF Init, MeterInv, Fits, Costed, Stands
<1>9. TotalsOf(meter) = [cost |-> 0, tokens |-> 0]
  BY DEF Init, TotalsOf
<1>10. HookInv /\ ChargeInv /\ NeverUndercharged
  BY <1>1, <1>9 DEF Init, HookInv, ChargeInv, NeverUndercharged, NewEnvelope
<1>11. DeliveredWithinBudget
  <2>1. Delivered = received
    BY DEF Init, Delivered
  <2>2. StreamTotals(received) = TotalsOf(meter)
    BY <1>6, <1>7, <1>8, StandsTotals DEF Stands, MeterInv, TypeOK
  <2> QED BY <1>1, <1>9, <2>1, <2>2 DEF DeliveredWithinBudget
<1> QED BY <1>7, <1>8, <1>10, <1>11 DEF StreamInv, Init

LEMMA StreamStep ==
    ASSUME StreamInv, [Next]_vars
    PROVE  StreamInv'
<1>1. CASE Cancel
  <2>1. UNCHANGED <<price, has_envelope, env, meter, prev, guard, hook, phase,
                    reports, received, delivered, upstream_failed>> /\ cancelled' = TRUE
    BY <1>1 DEF Cancel, history
  <2>2. TypeOK'
    BY <2>1 DEF StreamInv, TypeOK
  <2>3. MeterInv'
    BY <2>1 DEF StreamInv, MeterInv, Fits, Costed, CostOf
  <2>4. HookInv' /\ ChargeInv' /\ NeverUndercharged'
    BY <2>1 DEF StreamInv, HookInv, ChargeInv, NeverUndercharged, TotalsOf
  <2>5. DeliveredWithinBudget'
    BY <2>1 DEF StreamInv, DeliveredWithinBudget, Delivered, StreamTotals, CostOf
  <2> QED BY <2>1, <2>2, <2>3, <2>4, <2>5 DEF StreamInv
<1>2. CASE PollCancelled
  BY <1>2, FinishStep DEF PollCancelled, history, StreamInv, TypeOK
<1>3. ASSUME NEW chunk \in Chunks, PollChunk(chunk)
      PROVE  StreamInv'
  BY <1>3, ChunkStep
<1>4. ASSUME NEW chunk \in Chunks, PollBreach(chunk)
      PROVE  StreamInv'
  BY <1>4, BreachStep
<1>5. CASE PollError
  BY <1>5, FinishStep DEF PollError, StreamInv, TypeOK
<1>6. CASE PollEnd
  BY <1>6, FinishStep DEF PollEnd, history, StreamInv, TypeOK
<1>7. CASE Drop
  BY <1>7, FinishStep DEF Drop, history, StreamInv, TypeOK
<1>8. CASE UNCHANGED vars
  <2>1. UNCHANGED <<price, has_envelope, env, meter, prev, guard, hook, phase, cancelled,
                    reports, received, delivered, upstream_failed>>
    BY <1>8 DEF vars
  <2>2. TypeOK' /\ MeterInv'
    BY <2>1 DEF StreamInv, TypeOK, MeterInv, Fits, Costed, CostOf
  <2>3. HookInv' /\ ChargeInv' /\ NeverUndercharged'
    BY <2>1 DEF StreamInv, HookInv, ChargeInv, NeverUndercharged, TotalsOf
  <2>4. DeliveredWithinBudget'
    BY <2>1 DEF StreamInv, DeliveredWithinBudget, Delivered, StreamTotals, CostOf
  <2> QED BY <2>1, <2>2, <2>3, <2>4 DEF StreamInv
<1> QED BY <1>1, <1>2, <1>3, <1>4, <1>5, <1>6, <1>7, <1>8 DEF Next

\* The meter stands for the chunks, the envelope for the meter, the hook for the
\* report, in every state of every stream.
THEOREM StreamInvariant == Spec => []StreamInv
BY StreamInit, StreamStep, PTL DEF Spec

-----------------------------------------------------------------------------

\* Whatever ends the stream (an end, an error, a breach, a cancellation, a
\* drop, several of them in turn), fire_finish_hook reports once, after the
\* guard is released, and short of an upstream error it reports each chunk
\* received once (cancelling_stream.rs:184).
THEOREM FinishReportsOnce == Spec => []ReportedOnce
<1>1. StreamInv => ReportedOnce
  <2> SUFFICES ASSUME StreamInv PROVE ReportedOnce
    OBVIOUS
  <2>1. TypeOK /\ FinishedOnce
    BY SMTT(30) DEF StreamInv, TypeOK, HookInv, FinishedOnce
  <2>2. ASSUME reports # << >>, ~upstream_failed
        PROVE  reports[1] = StreamTotals(received)
    <3>1. ~hook /\ reports[1] = TotalsOf(meter)
      BY <2>2 DEF StreamInv, HookInv
    <3>2. Stands(meter, received) /\ Costed(meter) /\ received \in Seq(Chunks)
      BY <2>2 DEF StreamInv, MeterInv, TypeOK
    <3> QED BY <3>1, <3>2, StandsTotals
  <2> QED BY <2>1, <2>2 DEF ReportedOnce, ReportComplete
<1> QED BY <1>1, StreamInvariant, PTL

\* The chunks that went to the client cost at most the ceilings of the
\* request's envelope, for all chunks, reports and prices, a cost that wraps
\* around included: check_and_charge stops the stream before it forwards the
\* chunk that would exceed them.
THEOREM ClientWithinBudget == Spec => []DeliveredWithinBudget
<1>1. StreamInv => DeliveredWithinBudget
  BY DEF StreamInv
<1> QED BY <1>1, StreamInvariant, PTL

\* The envelope covers what the meter has counted, whichever mix of charges,
\* refunds and reconciliation led there.
THEOREM EnvelopeCovers == Spec => []NeverUndercharged
<1>1. StreamInv => NeverUndercharged
  BY DEF StreamInv
<1> QED BY <1>1, StreamInvariant, PTL
=============================================================================
