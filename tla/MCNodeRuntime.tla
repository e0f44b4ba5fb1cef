--------------------------- MODULE MCNodeRuntime ---------------------------
(* Two nodes side by side; a subgraph of two, in sequence, in a cycle and    *)
(* behind a gate; control nodes and a malformed configuration.               *)
EXTENDS NodeRuntime, TLC

Shape(kinds, inner, edges) ==
    [kind |-> kinds, top |-> {1}, inner |-> (1 :> inner), edges |-> edges, fallback |-> FALSE,
     approved |-> {}, malformed |-> {}, allowlist |-> [n \in Nodes |-> Tools],
     cached |-> FALSE, max_retries |-> 1, usages |-> {0, 2},
     requests |-> {{}, Tools}, prompt |-> [n \in Nodes |-> 1]]
KindsOf(a, b, c) == (1 :> a) @@ (2 :> b) @@ (3 :> c)

Single == Shape(KindsOf("llm", "llm", "llm"), {}, {})
Pair(edges) == Shape(KindsOf("subgraph", "llm", "llm"), {2, 3}, edges)
Chain(a, b) == Shape(KindsOf("subgraph", a, b), {2, 3}, {<<2, 3>>})

\* Three nodes on one cache, two of them with the same prompt; and one node
\* whose tool rounds go through it.
Trio == [Single EXCEPT !.top = {1, 2, 3}, !.inner = [n \in Nodes |-> {}], !.cached = TRUE, !.requests = {{}},
                       !.max_retries = 0, !.usages = {2},
                       !.prompt = [n \in Nodes |-> IF n = 3 THEN 2 ELSE 1]]

SomeShapes ==
    {Trio, [Single EXCEPT !.cached = TRUE],
     [Single EXCEPT !.fallback = TRUE], [Single EXCEPT !.top = {1, 2}, !.inner = <<{}, {}>>],
     Pair({}), Pair({<<3, 2>>}), Pair({<<2, 3>>, <<3, 2>>}),
     Chain("control", "llm"), Chain("gate", "llm"),
     [Chain("gate", "llm") EXCEPT !.approved = {2}, !.fallback = TRUE],
     [Chain("llm", "llm") EXCEPT !.malformed = {3}]}
=============================================================================
