--------------------------- MODULE BudgetEnvelope ---------------------------
(***************************************************************************)
(* BudgetEnvelope (crates/fusion-types/src/lib.rs): the per-request        *)
(* spending guard.  Its counters are u64s with saturating arithmetic.  An  *)
(* envelope is the record of its two spend counters; the scheduler's use   *)
(* of the iteration counter is in module Scheduler.                        *)
(***************************************************************************)
EXTENDS Naturals

CONSTANTS MaxCost,      \* max_cost, in nano-dollars
          MaxTokens,    \* max_tokens
          CounterMax    \* u64::MAX

ASSUME EnvelopeAssumption ==
    /\ CounterMax \in Nat
    /\ MaxCost \in 0..CounterMax
    /\ MaxTokens \in 0..CounterMax

EnvelopeType == [cost : 0..CounterMax, tokens : 0..CounterMax]
NewEnvelope == [cost |-> 0, tokens |-> 0]

saturating_add(a, b) == IF a + b > CounterMax THEN CounterMax ELSE a + b
saturating_sub(a, b) == IF a > b THEN a - b ELSE 0

\* The spend is committed first; whether record_and_check then fails is
\* decided on what was committed.
record(env, cost, tokens) ==
    [cost   |-> saturating_add(env.cost, cost),
     tokens |-> saturating_add(env.tokens, tokens)]

\* Faulty variant: only the cost ceiling.
exceeds_cost(env, cost, tokens) ==
    env.cost + cost > CounterMax \/ record(env, cost, tokens).cost > MaxCost

exceeds(env, cost, tokens) ==
    LET new == record(env, cost, tokens)
    IN \/ env.cost + cost > CounterMax \/ new.cost > MaxCost
       \/ env.tokens + tokens > CounterMax \/ new.tokens > MaxTokens

reconcile_refund(env, cost, tokens) ==
    [cost   |-> saturating_sub(env.cost, cost),
     tokens |-> saturating_sub(env.tokens, tokens)]
=============================================================================
