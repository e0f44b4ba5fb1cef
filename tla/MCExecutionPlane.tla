-------------------------- MODULE MCExecutionPlane --------------------------
(***************************************************************************)
(* Model checking of the execution plane with its compiler.  The           *)
(* submissions are of two sorts: one request with each of many small       *)
(* workflows (all graphs of three nodes, every kind of control-flow node,  *)
(* every strategy and size), and two concurrent requests.                  *)
(***************************************************************************)
EXTENDS ExecutionPlane

CONSTANTS e1, e2, nothing, unset, mistyped

MCExecs == {e1, e2}

Plain(id) == IRNode(id, "Generate", "Single", unset, unset, unset, unset, FALSE)
OfKind(id, kind) == IRNode(id, kind, "Single", unset, unset, unset, unset, TRUE)
Three == <<Plain(1), Plain(2), Plain(3)>>

\* A sequence of edges from a set of pairs, those in `back' marked as loops.
Edges(pairs, back) ==
    LET inOrder == SetToSeq(pairs)
    IN  [i \in DOMAIN inOrder |->
            IREdge(inOrder[i][1], inOrder[i][2],
                   IF inOrder[i] \in back THEN "loop" ELSE unset)]

Pairs == (1 .. 3) \X (1 .. 3)

\* Every graph of three nodes with at most three edges.
Graphs3 == {[nodes |-> Three, edges |-> Edges(p, {})] : p \in {q \in SUBSET Pairs : Cardinality(q) =< 3}}

\* A cycle of three nodes of which one is the loop's back edge, and an inner loop.
Loops3 == {[nodes |-> <<OfKind(1, "Loop"), Plain(2), Plain(3)>>, edges |-> Edges(p, b)] :
              p \in {{<<1, 2>>, <<2, 3>>, <<3, 1>>}, {<<1, 2>>, <<2, 1>>, <<2, 3>>},
                     {<<2, 1>>, <<1, 3>>, <<3, 1>>}},
              b \in {{}, {<<3, 1>>}, {<<2, 1>>}}}

\* Each control-flow node in first, second or last place, with few edges.
Shapes == {{<<1, 2>>, <<2, 3>>}, {<<1, 2>>, <<1, 3>>}, {<<1, 3>>, <<2, 3>>}, {<<1, 2>>}, {}}
Kinds3 == {[nodes |-> [i \in 1 .. 3 |-> IF i = at THEN OfKind(i, kind) ELSE Plain(i)],
            edges |-> Edges(p, {})] : at \in 1 .. 3, kind \in ControlKinds, p \in Shapes}

\* A conditional edge, an edge to nowhere, a loop without a bound.
Odd == {[nodes |-> <<OfKind(1, "Conditional"), Plain(2)>>, edges |-> <<IREdge(1, 2, "yes")>>],
        [nodes |-> <<Plain(1)>>, edges |-> <<IREdge(1, 2, unset)>>],
        [nodes |-> <<[OfKind(1, "Loop") EXCEPT !.max_iterations = FALSE], Plain(2)>>,
         edges |-> <<IREdge(1, 2, unset)>>],
        [nodes |-> <<>>, edges |-> <<>>],
        [nodes |-> <<Plain(1), Plain(2), Plain(3), Plain(4), Plain(5)>>, edges |-> <<>>]}

\* Every strategy with every sort of number and every sort of list.
Given(st, size, list) ==
    [nodes |-> <<IRNode(1, "Generate", st, size, list, unset, unset, FALSE)>>, edges |-> <<>>]
Lists == {unset, mistyped, <<>>, <<"big">>, <<mistyped, "big">>, <<"big", "big", "fast">>,
          <<"big", "big", "big", "big", "big">>}
OneStrategy == {Given(st, size, unset) : st \in Strategies, size \in {unset, mistyped, 0, 1, 2, 7}}
               \union {Given(st, 2, list) : st \in {"Consensus", "Chain", "Debate"}, list \in Lists}

\* Nodes that rules single out by capability or by model.
Chosen(id, model, capability) == IRNode(id, "Generate", "Single", unset, unset, model, capability, FALSE)
Policed == {[nodes |-> <<Chosen(1, m, c), Plain(2)>>, edges |-> <<IREdge(1, 2, unset)>>] :
               m \in {unset, "big"}, c \in {unset, "shell"}}
Gated == {[nodes |-> <<OfKind(1, "Gate"), Chosen(2, unset, "shell")>>,
           edges |-> <<IREdge(1, 2, unset)>>]}

Sweep == Graphs3 \union Loops3 \union Kinds3 \union Odd \union OneStrategy
\* Workflows no rule is about.
Tiny(n) == [nodes |-> [i \in 1 .. n |-> Chosen(i, "tiny", unset)], edges |-> <<>>]

One(w) == [e \in MCExecs |-> IF e = e1 THEN w ELSE nothing]
Both == {[e \in MCExecs |-> Tiny(1)]}
MCSubmissions == {One(w) : w \in Sweep \union Policed \union Gated \union {Tiny(1), Tiny(2)}}
                 \union Both

\* The listener runs beside short workflows, one or two at a time; the registry
\* changes and faults happen while one is run.
MCObserved == {One(Tiny(1)), One(Tiny(2))} \union Both
MCDisturbed == {One(w) : w \in Policed \union Gated \union {Tiny(1)}}

Rule(id, effect, symbols, priority, malformed) ==
    [id |-> id, effect |-> effect, symbols |-> symbols, priority |-> priority, kinds |-> Kinds,
     malformed |-> malformed]
Deny == Rule("a", "deny", {"shell"}, 1, FALSE)
Approve == Rule("b", "approval", {"shell", "big", "fast"}, 2, FALSE)
MCRules == {Deny, Approve, Rule("b", "allow", {}, 1, TRUE)}
MCRegistries == {{}, {Approve}}

\* For the nodes of a subgraph: a consensus whose members include a denied model.
DenyBig == Rule("a", "deny", {"big"}, 1, FALSE)
MemberRules == {DenyBig}
MemberRegistries == {MemberRules}
MemberSubmissions == {One(Given("Consensus", 2, <<"fast", "big">>))}
\* For the checkpoints: two executions of one node each.
BothSubmissions == Both
NoRegistries == {{}}
=============================================================================
