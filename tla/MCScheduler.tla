---------------------------- MODULE MCScheduler ----------------------------
(***************************************************************************)
(* Instances of the scheduler for TLC: every small acyclic graph, and the  *)
(* loop graphs of the scheduler's tests.                                   *)
(***************************************************************************)
EXTENDS Scheduler, Sequences

Identity == [n \in Nodes |-> n]
Reversed == [n \in Nodes |-> 10 - n]
AllTasks == [n \in Nodes |-> "Task"]

\* A graph from a sequence of <<from, to, condition>> triples.
GraphOf(kind, position, caps, triples) ==
    [kind |-> kind,
     edges |-> {[ix |-> i, from |-> triples[i][1], to |-> triples[i][2],
                 condition |-> triples[i][3]] : i \in DOMAIN triples},
     max_iterations |-> caps,
     position |-> position]

NoCaps == [n \in Nodes |-> 0]

\* Every acyclic graph on the nodes (edges go from lower to higher ids).
Pairs == {p \in Nodes \X Nodes : p[1] < p[2]}
Ix(p) == 10 * p[1] + p[2]
DagOf(kind, position, E, condition) ==
    [kind |-> kind,
     edges |-> {[ix |-> Ix(p), from |-> p[1], to |-> p[2],
                 condition |-> condition[p]] : p \in E},
     max_iterations |-> NoCaps,
     position |-> position]

TaskDags == {DagOf(AllTasks, Reversed, E, [p \in Pairs |-> "none"]) : E \in SUBSET Pairs}

\* Node 1 a Conditional with at least one labelled edge (as the compiler's
\* control-flow validation requires).
BranchDags ==
    {DagOf([AllTasks EXCEPT ![1] = "Conditional"], Identity, E,
           [p \in Pairs |-> IF p[1] = 1 THEN c[p[2]] ELSE "none"]) :
       E \in {F \in SUBSET Pairs : <<1, 2>> \in F},
       c \in {d \in [Nodes -> {"none", "true", "false"}] : d[1] = "none" /\ d[2] = "true"}}

\* Parallel edges between one pair of nodes.
ParallelDag == GraphOf(AllTasks, Identity, NoCaps,
                       << <<1, 2, "none">>, <<1, 2, "none">>, <<1, 3, "none">> >>)

Dags == TaskDags \union BranchDags \union {ParallelDag}

\* Node 1 is a loop head with body 2 and exit target 3; the graph of
\* test_loop_exit_target_runs_only_after_loop_finishes.
LoopKind == [AllTasks EXCEPT ![1] = "Loop"]
LoopEdges == << <<1, 2, "none">>, <<1, 3, "exit">>, <<2, 1, "loop">> >>
TestLoop == GraphOf(LoopKind, Identity, [NoCaps EXCEPT ![1] = 2], LoopEdges)
\* The same loop with the body listed before the head.
BodyFirstLoop == GraphOf(LoopKind, Reversed, [NoCaps EXCEPT ![1] = 2], LoopEdges)
\* A loop head behind an upstream task, with two body nodes; and a
\* loop with two body nodes and an exit target.
GatedLoop == GraphOf([AllTasks EXCEPT ![2] = "Loop"], Identity,
                     [NoCaps EXCEPT ![2] = 1],
                     << <<1, 2, "none">>, <<2, 3, "none">>, <<2, 4, "none">>,
                        <<3, 2, "loop">>, <<4, 2, "loop">> >>)
TwoBodyLoop == GraphOf(LoopKind, Identity, [NoCaps EXCEPT ![1] = 2],
                       << <<1, 2, "none">>, <<1, 3, "none">>, <<2, 1, "loop">>,
                          <<3, 1, "loop">>, <<1, 4, "exit">> >>)
\* A body of two nodes in a row; the head's only direct successor is node 2.
LongBodyLoop == GraphOf(LoopKind, Identity, [NoCaps EXCEPT ![1] = 2],
                        << <<1, 2, "none">>, <<2, 3, "none">>, <<3, 1, "loop">>,
                           <<1, 4, "exit">> >>)
Loops == {TestLoop, BodyFirstLoop, GatedLoop, TwoBodyLoop, LongBodyLoop}

MCGraphs == Dags \union Loops
=============================================================================
