------------------------------ MODULE MCGuards ------------------------------
(***************************************************************************)
(* What keeps a client from consuming too much: the rate limiter, the      *)
(* quota ledger, the breaker of a provider target, and the ceilings of an  *)
(* agent's runner.  They share no state, so each is explored by itself, as *)
(* the focus of a behaviour, while the others rest in an initial state.    *)
(*                                                                         *)
(* The agent's skill has two versions of its schema, and patches that are  *)
(* accepted, refused, ambiguous, deleting and nested.                      *)
(***************************************************************************)
EXTENDS CircuitBreaker, QuotaLedger, RateLimiter, AgentRunner

VARIABLE focus

guard_vars == <<breaker_vars, ledger_vars, limiter_vars, agent_vars, focus>>

Slowest == [rate |-> 1, burst |-> 1]
ThreeLimits == {Slowest, [rate |-> 1, burst |-> 2], [rate |-> 2, burst |-> 3]}

Integer == JsonScalar("integer")
Obj(leaf) == [type |-> "object", fields |-> [f \in Fields |-> leaf]]
On(a, c) == [k \in Keys |-> IF k = "a" THEN a ELSE c]

FreshState == On(Integer, Absent)
\* Version 1 lets c be anything; version 2 wants an object there.
TwoSchemas ==
    {[properties |-> [k \in Keys |-> IF k = "a" THEN "integer" ELSE "undeclared"],
      required |-> {"a"}, additional |-> TRUE],
     [properties |-> [k \in Keys |-> IF k = "a" THEN "integer" ELSE "object"],
      required |-> {"a"}, additional |-> FALSE]}
SomePatches ==
    {On(Integer, Absent), On(JsonScalar("null"), Absent), On(Absent, Obj("integer")),
     On(Absent, Obj("null")), On(Absent, JsonScalar("string")),
     On(Obj("integer"), Absent), On(Absent, JsonScalar("null"))}

GuardsInit ==
    /\ focus \in {"breaker", "ledger", "limiter", "agent"}
    /\ BreakerInit /\ LedgerInit /\ LimiterInit /\ AgentInit
    /\ focus = "limiter" \/ limits = Slowest

OfBreaker(A) == /\ focus = "breaker" /\ A
                /\ UNCHANGED <<ledger_vars, limiter_vars, agent_vars, focus>>
OfLedger(A)  == /\ focus = "ledger" /\ A
                /\ UNCHANGED <<breaker_vars, limiter_vars, agent_vars, focus>>
OfLimiter(A) == /\ focus = "limiter" /\ A
                /\ UNCHANGED <<breaker_vars, ledger_vars, agent_vars, focus>>
OfAgent(A)   == /\ focus = "agent" /\ A
                /\ UNCHANGED <<breaker_vars, ledger_vars, limiter_vars, focus>>

GuardsNext == \/ OfBreaker(BreakerNext) \/ OfLedger(LedgerNext)
              \/ OfLimiter(LimiterNext) \/ OfAgent(AgentNext)

\* The fairness of each component.
GuardsSpec ==
    /\ GuardsInit /\ [][GuardsNext]_guard_vars
    /\ WF_guard_vars(OfBreaker(CooldownElapses))
    /\ \A c \in Callers : WF_guard_vars(OfBreaker(Step(c)))
    /\ \A r \in Requests : /\ WF_guard_vars(OfLedger(Runtime(r)))
                           /\ WF_guard_vars(OfLedger(phase[r] # "new" /\ Handler(r)))
    /\ WF_guard_vars(OfAgent(RunnerStep))

\* Where the breaker is the focus: with requests coming in, calls are admitted again
\* and again, unless one was dropped while a probe was out ("circuit breaker resets
\* after cooldown", docs/superpowers/specs/2026-07-26-reliability-engineering.md:29).
AdmitsAgain == focus = "breaker" => KeepsAdmitting
=============================================================================
