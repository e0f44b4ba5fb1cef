------------------------------ MODULE Compiler ------------------------------
(***************************************************************************)
(* The workflow compiler: the mandatory passes every workflow goes         *)
(* through before it may run, the policy pass, and the lowering to an      *)
(* execution graph with the strategies' subgraphs attached.                *)
(*                                                                         *)
(* A workflow is a record of a sequence of nodes and a sequence of edges   *)
(* (the code's vectors: parallel edges count).  Of a node's configuration  *)
(* only what the passes read is kept: its capability, whether a loop has   *)
(* max_iterations, and what its strategy is given, a number (the count of  *)
(* a consensus, the steps of a chain, ...) and a list (the members of a    *)
(* consensus, the stages of a chain, the roles of a debate).  Generate     *)
(* stands for the four kinds of node that call a model.                    *)
(***************************************************************************)
EXTENDS Naturals, Sequences, FiniteSets, SequencesExt, FiniteSetsExt

CONSTANTS
    MAX_IR_NODES,
    MAX_CONSENSUS_MEMBERS,
    MAX_CHAIN_STEPS,
    DEFAULT_MODEL,  \* model_catalog.fast
    Unset,          \* an absent configuration entry
    Mistyped        \* an entry, or an item of a list, of another type

ASSUME CompilerAssumption ==
    /\ MAX_IR_NODES \in Nat \ {0} /\ MAX_CONSENSUS_MEMBERS \in Nat \ {0}
    /\ MAX_CHAIN_STEPS \in Nat \ {0}
    /\ Unset \notin Nat /\ Mistyped \notin Nat

ControlKinds == {"Conditional", "Loop", "Split", "Join", "Barrier"}
Kinds == {"Generate", "Gate"} \union ControlKinds
Strategies ==
    {"Single", "Consensus", "Reflection", "Chain", "Debate", "ReAct", "Fusion", "Custom"}

IRNode(id, kind, strategy, size, list, model, capability, bounded) ==
    [id |-> id, kind |-> kind, strategy |-> strategy, size |-> size, list |-> list,
     model |-> model, capability |-> capability, max_iterations |-> bounded]
IREdge(from, to, condition) == [from |-> from, to |-> to, condition |-> condition]

\* The given positions of a sequence in increasing order, and what stands there.
InOrder(positions) ==
    CHOOSE at \in Bijection(1 .. Cardinality(positions), positions) :
        \A i, j \in DOMAIN at : i < j => at[i] < at[j]
Kept(s, positions) == LET at == InOrder(positions) IN [i \in DOMAIN at |-> s[at[i]]]

\* The id of the gate of a node, above the ids of all submitted nodes.
GateOf(n) == 100 + n

IsArray(node) == node.list \notin {Unset, Mistyped}

\* What a submission is: a workflow of nodes with ids below those of the gates.
IsNode(n) ==
    n = IRNode(n.id, n.kind, n.strategy, n.size, n.list, n.model, n.capability, n.max_iterations)
IsWorkflow(ir) ==
    /\ ir.nodes \in Seq(ToSet(ir.nodes)) /\ ir.edges \in Seq(ToSet(ir.edges))
    /\ \A i \in DOMAIN ir.nodes : IsNode(ir.nodes[i]) /\ ir.nodes[i].id \in 1 .. GateOf(0) - 1
    /\ \A i \in DOMAIN ir.nodes : IsArray(ir.nodes[i]) =>
          ir.nodes[i].list \in Seq(ToSet(ir.nodes[i].list))

Ids(ir) == {ir.nodes[i].id : i \in DOMAIN ir.nodes}

\* The edges out of a node and into it, by their positions.
Outgoing(ir, n) == {i \in DOMAIN ir.edges : ir.edges[i].from = n}
Incoming(ir, n) == {i \in DOMAIN ir.edges : ir.edges[i].to = n}

\* What a pass returns: the workflow it passes on, or the pass that refused it.
Ok(ir) == [ok |-> TRUE, ir |-> ir]
Err(pass) == [ok |-> FALSE, pass |-> pass]

-----------------------------------------------------------------------------
(* constraint_validation                                                   *)

ConstraintValidationPass(ir) ==
    IF Len(ir.nodes) \in 1 .. MAX_IR_NODES THEN Ok(ir) ELSE Err("constraint")

-----------------------------------------------------------------------------
(* control_flow_validation                                                 *)

EdgesKnown(ir) == \A i \in DOMAIN ir.edges : {ir.edges[i].from, ir.edges[i].to} \subseteq Ids(ir)

\* The invariants of each kind of control-flow node.
KindOk(ir, node) ==
    LET out == Outgoing(ir, node.id)
        inc == Incoming(ir, node.id)
    IN  CASE node.kind = "Conditional" -> \E i \in out : ir.edges[i].condition # Unset
          [] node.kind = "Loop"        -> out # {} /\ node.max_iterations
          [] node.kind = "Split"       -> Cardinality(out) >= 2
          [] node.kind = "Join"        -> Cardinality(inc) >= 2
          [] node.kind = "Barrier"     -> inc # {} /\ out # {}
          [] OTHER                     -> TRUE

KindsOk(ir) == \A i \in DOMAIN ir.nodes : KindOk(ir, ir.nodes[i])

\* The edges the cycle detection walks: all but the loops' back edges.
Forward(ir) == {i \in DOMAIN ir.edges : ir.edges[i].condition # "loop"}

\* The state of the iterative depth-first search: the colours, the stack of nodes
\* with the edges still to be walked, and the verdict.
Search(colour, stack, cyclic) == [colour |-> colour, stack |-> stack, cyclic |-> cyclic]
Frame(ir, n) == [node |-> n, left |-> Outgoing(ir, n) \intersect Forward(ir)]

\* Faulty variant of one iteration: a node is never blackened.
Visit_grey(ir, dfs) ==
    LET top == Last(dfs.stack)
        edge == Min(top.left)
        next == ir.edges[edge].to
        resumed == Append(Front(dfs.stack), [node |-> top.node, left |-> top.left \ {edge}])
    IN  IF top.left = {} THEN Search(dfs.colour, Front(dfs.stack), FALSE)
        ELSE CASE dfs.colour[next] = "grey"  -> Search(dfs.colour, resumed, TRUE)
               [] dfs.colour[next] = "white" ->
                    Search([dfs.colour EXCEPT ![next] = "grey"], Append(resumed, Frame(ir, next)), FALSE)
               [] OTHER -> Search(dfs.colour, resumed, FALSE)

\* One iteration of the inner loop: walk the next edge of the top node, or blacken
\* the node when it has none left.
Visit(ir, dfs) ==
    LET top == Last(dfs.stack)
        edge == Min(top.left)
        next == ir.edges[edge].to
        resumed == Append(Front(dfs.stack), [node |-> top.node, left |-> top.left \ {edge}])
    IN  IF top.left = {}
        THEN Search([dfs.colour EXCEPT ![top.node] = "black"], Front(dfs.stack), FALSE)
        ELSE CASE dfs.colour[next] = "grey"  -> Search(dfs.colour, resumed, TRUE)
               [] dfs.colour[next] = "white" ->
                    Search([dfs.colour EXCEPT ![next] = "grey"], Append(resumed, Frame(ir, next)), FALSE)
               [] OTHER -> Search(dfs.colour, resumed, FALSE)

\* An iteration of either loop: the search goes on, or starts from a root that is
\* still white.  The roots are tried in the order of a hash map, and those without
\* edges are left out; the verdict depends on neither.
Advance(ir, dfs) ==
    LET white == {n \in DOMAIN dfs.colour : dfs.colour[n] = "white"}
        root == CHOOSE n \in white : TRUE
    IN  IF dfs.cyclic THEN dfs
        ELSE IF dfs.stack # <<>> THEN Visit(ir, dfs)
        ELSE IF white # {}
        THEN Search([dfs.colour EXCEPT ![root] = "grey"], <<Frame(ir, root)>>, FALSE)
        ELSE dfs

\* Each node is pushed once and popped once and each edge walked once, so as many
\* iterations end the search.
Iterations(ir) == 2 * Cardinality(Ids(ir)) + Len(ir.edges)

three_color_cycle_detect(ir) ==
    LET search[k \in 0 .. Iterations(ir)] ==
            IF k = 0 THEN Search([n \in Ids(ir) |-> "white"], <<>>, FALSE)
            ELSE Advance(ir, search[k - 1])
    IN  search[Iterations(ir)].cyclic

ControlFlowValidationPass(ir) ==
    IF ~EdgesKnown(ir) THEN Err("edges")
    ELSE IF ~KindsOk(ir) THEN Err("kinds")
    ELSE IF three_color_cycle_detect(ir) THEN Err("cycle")
    ELSE Ok(ir)

-----------------------------------------------------------------------------
(* strategy_lowering: what a strategy may be given.  No custom strategy is *)
(* registered with the production pipeline.                                *)

SizeOk(node) ==
    LET size == node.size
        length == Len(node.list)
    IN  CASE node.strategy \in {"Single", "Fusion"}    -> TRUE
          [] node.strategy = "Consensus" -> /\ size \notin Nat \/ size \in 1 .. MAX_CONSENSUS_MEMBERS
                                            /\ IsArray(node) => length =< MAX_CONSENSUS_MEMBERS
          [] node.strategy \in {"Reflection", "ReAct"} -> size # 0
          [] node.strategy = "Debate"                  -> IsArray(node) => length >= 2
          [] node.strategy = "Chain" -> IF node.list = Unset THEN size \notin {0, Mistyped}
                                        ELSE IsArray(node) /\ length \in 1 .. MAX_CHAIN_STEPS
          [] OTHER                                     -> FALSE

StrategyLoweringPass(ir) ==
    IF \A i \in DOMAIN ir.nodes : SizeOk(ir.nodes[i]) THEN Ok(ir) ELSE Err("strategy")

-----------------------------------------------------------------------------
(* dead_node_elimination                                                   *)

\* Closed under the edges; the least such set around `from' is what it reaches.
Closed(edges, set) ==
    \A i \in DOMAIN edges : edges[i].from \in set => edges[i].to \in set

Reach(ir, from) ==
    {n \in Ids(ir) : \A set \in SUBSET Ids(ir) :
        from \subseteq set /\ Closed(ir.edges, set) => n \in set}

\* Entry points: nothing comes in (a loop's back edge counts), something goes out.
Entries(ir) == {n \in Ids(ir) : Incoming(ir, n) = {} /\ Outgoing(ir, n) # {}}

Restricted(ir, live) ==
    [nodes |-> Kept(ir.nodes, {i \in DOMAIN ir.nodes : ir.nodes[i].id \in live}),
     edges |-> Kept(ir.edges, {i \in DOMAIN ir.edges : {ir.edges[i].from, ir.edges[i].to} \subseteq live})]

DeadNodeEliminationPass(ir) ==
    IF ir.edges = <<>> \/ Entries(ir) = {} THEN Ok(ir)
    ELSE Ok(Restricted(ir, Reach(ir, Entries(ir))))

-----------------------------------------------------------------------------
(* model_resolution, budget_optimisation                                   *)

ModelResolutionPass(ir) ==
    Ok([nodes |-> [i \in DOMAIN ir.nodes |->
                      IF ir.nodes[i].kind \in ControlKinds \/ ir.nodes[i].model # Unset THEN ir.nodes[i]
                      ELSE [ir.nodes[i] EXCEPT !.model = DEFAULT_MODEL]],
        edges |-> ir.edges])

BudgetOptimisationPass(ir, can_afford) == IF can_afford THEN Ok(ir) ELSE Err("budget")

-----------------------------------------------------------------------------
(* The policy pass.  A rule names the symbols its pattern matches and the  *)
(* kinds its conditions admit.                                             *)

Rank(effect) == CASE effect = "deny" -> 2 [] effect = "approval" -> 1 [] OTHER -> 0

SymbolKey(node) ==
    IF node.capability # Unset THEN node.capability
    ELSE IF node.model # Unset THEN node.model ELSE "general"

Matches(rule, node) == SymbolKey(node) \in rule.symbols /\ node.kind \in rule.kinds

\* The effect of the highest-precedence rule matching the node: deny before
\* approval before allow, then the higher priority.
evaluate_matching_rule(rules, node) ==
    LET hits == {r \in rules : Matches(r, node)}
    IN  IF hits = {} THEN "allow"
        ELSE (CHOOSE r \in hits : \A q \in hits :
                \/ Rank(r.effect) > Rank(q.effect)
                \/ Rank(r.effect) = Rank(q.effect) /\ r.priority >= q.priority).effect

IsGate(ir, n) == \E i \in DOMAIN ir.nodes : ir.nodes[i].id = n /\ ir.nodes[i].kind = "Gate"
Guarded(ir, n) == \E i \in DOMAIN ir.edges : ir.edges[i].to = n /\ IsGate(ir, ir.edges[i].from)

ApprovalGate(n) == IRNode(GateOf(n), "Gate", "Single", Unset, Unset, "policy.approval_gate", Unset, FALSE)

\* A node held for approval is given a gate unless one of the workflow's own gates
\* precedes it; the new gates come after all other nodes.
PolicyCompilerPass(ir, rules) ==
    LET effect(i) == evaluate_matching_rule(rules, ir.nodes[i])
        unguarded == Kept(ir.nodes, {i \in DOMAIN ir.nodes :
                             effect(i) = "approval" /\ ~Guarded(ir, ir.nodes[i].id)})
    IN  IF \E i \in DOMAIN ir.nodes : effect(i) = "deny" THEN Err("policy")
        ELSE Ok([nodes |-> ir.nodes \o [k \in DOMAIN unguarded |-> ApprovalGate(unguarded[k].id)],
                 edges |-> ir.edges \o [k \in DOMAIN unguarded |->
                                IREdge(GateOf(unguarded[k].id), unguarded[k].id, Unset)]])

-----------------------------------------------------------------------------
(* Lowering: the subgraph a strategy is expanded to, after the policy pass *)
(* has run.  `model' is what each of its nodes calls.                      *)

Clamp(x, lo, hi) == IF x < lo THEN lo ELSE IF x > hi THEN hi ELSE x

Child(role, i) == <<role, i>>

\* Some stages, each with its model, all feeding one last node.
FanIn(role, models, last, own) ==
    [nodes |-> {Child(role, i) : i \in 1 .. Len(models)} \union {last},
     edges |-> {<<Child(role, i), last>> : i \in 1 .. Len(models)},
     entry |-> Child(role, 1), exit |-> last,
     model |-> [c \in {Child(role, i) : i \in 1 .. Len(models)} \union {last} |->
                   IF c = last THEN own ELSE models[c[2]]]]

\* The given children one after the other, all with the node's own model.
Pipeline(children, own) ==
    [nodes |-> ToSet(children),
     edges |-> {<<children[i], children[i + 1]>> : i \in 1 .. Len(children) - 1},
     entry |-> Head(children), exit |-> Last(children),
     model |-> [c \in ToSet(children) |-> own]]

\* The length of the list of stages, or else the number of steps, or else two.
resolved_chain_steps(node) ==
    IF IsArray(node) THEN Clamp(Len(node.list), 1, MAX_CHAIN_STEPS)
    ELSE IF node.size \in Nat THEN Clamp(node.size, 1, MAX_CHAIN_STEPS) ELSE 2

\* The models the client lists, those over the maximum cut off; without any, the
\* node's own model as often as the count says.
ConsensusModels(node) ==
    LET count == Clamp(IF node.size \in Nat THEN node.size ELSE 3, 1, MAX_CONSENSUS_MEMBERS)
        members == IF IsArray(node)
                   THEN Kept(node.list, {i \in DOMAIN node.list : node.list[i] # Mistyped})
                   ELSE <<>>
    IN  IF members = <<>> THEN [i \in 1 .. count |-> node.model]
        ELSE SubSeq(members, 1, Clamp(Len(members), 1, MAX_CONSENSUS_MEMBERS))

expand_consensus(node) == FanIn("gen", ConsensusModels(node), Child("judge", 0), node.model)
expand_reflection(node) ==
    Pipeline(<<Child("generator", 0), Child("reviewer", 0)>>, node.model)
expand_chain(node) ==
    Pipeline([i \in 1 .. resolved_chain_steps(node) |-> Child("step", i)], node.model)
expand_debate(node) ==
    Pipeline(<<Child("proposer", 0), Child("opposer", 0), Child("judge", 0)>>, node.model)
expand_react(node) == Pipeline(<<Child("reason", 0), Child("tool", 0)>>, node.model)
expand_fusion(node) ==
    FanIn("candidate", <<node.model, node.model>>, Child("merger", 0), node.model)

expanded_subgraph(node) ==
    CASE node.strategy = "Consensus"  -> expand_consensus(node)
      [] node.strategy = "Fusion"     -> expand_fusion(node)
      [] node.strategy = "Reflection" -> expand_reflection(node)
      [] node.strategy = "ReAct"      -> expand_react(node)
      [] node.strategy = "Debate"     -> expand_debate(node)
      [] node.strategy = "Chain"      -> expand_chain(node)
      [] OTHER                        -> [nodes |-> {}, edges |-> {}]

lower_to_graph(ir) ==
    [nodes |-> ir.nodes, edges |-> ir.edges,
     subgraphs |-> [i \in DOMAIN ir.nodes |-> expanded_subgraph(ir.nodes[i])]]

-----------------------------------------------------------------------------
(* The pipeline: each pass gets what the one before it returned, and the   *)
(* first error is the result.                                              *)

Then(result, next) == IF result.ok THEN next ELSE result

\* `rules' is the policy snapshot; without rules no policy pass is appended.
RunPasses(ir, rules, can_afford) ==
    LET bounded   == ConstraintValidationPass(ir)
        validated == Then(bounded, ControlFlowValidationPass(bounded.ir))
        lowered   == Then(validated, StrategyLoweringPass(validated.ir))
        live      == Then(lowered, DeadNodeEliminationPass(lowered.ir))
        resolved  == Then(live, ModelResolutionPass(live.ir))
        priced    == Then(resolved, BudgetOptimisationPass(resolved.ir, can_afford))
    IN  IF rules = {} THEN priced ELSE Then(priced, PolicyCompilerPass(priced.ir, rules))
=============================================================================
