------------------------- MODULE NodeRuntimeProofs -------------------------
(***************************************************************************)
(* Proofs about the execution of nodes, for any number of nodes, any shape *)
(* of the graph, any limits and any capacity of the cache: usage is        *)
(* accounted, nothing runs that was not let through, and the entries and   *)
(* the index of the cache agree.                                           *)
(*                                                                         *)
(* What is true of one node whatever the others do is NodeOK; what relates *)
(* a subgraph to its nodes is OrderInv; the sums are MoneyInv; and the     *)
(* cache, which only sees its callers, has an invariant of its own.        *)
(***************************************************************************)
EXTENDS NodeRuntime, FiniteSetTheorems, WellFoundedInduction, TLAPS

Places == {"idle", "gate", "control", "subgraph", "attempt", "afford", "lookup", "calling",
           "storing", "recording", "tools", "done", "dropped"}
Executions == [pc : Places, attempts : Nat, fallback : BOOLEAN, iteration : Nat,
               usage : Nat, calls : SUBSET Tools, batch : SUBSET Nodes]
Results == [state : {"Pending", "Succeeded", "Failed"}, usage : Nat]

\* The places between the check of the quota and the recording of the answer.
Asking == {"lookup", "calling", "storing", "recording"}

RuntimeType ==
    /\ shape \in Shapes
    /\ exec \in [Nodes -> Executions] /\ result \in [Nodes -> Results]
    /\ spent \in Nat /\ dropped \in BOOLEAN
    /\ asked \in [Nodes -> Nat] /\ answered \in [Nodes -> Nat]
    /\ ran \in [Nodes -> SUBSET Tools]

\* The provider calls the current attempt may still make.
Left(e) == IF e.pc = "afford" THEN max_tool_iterations + 1 - e.iteration
           ELSE IF e.pc \in Asking \union {"tools"} THEN max_tool_iterations - e.iteration
           ELSE 0

\* The attempts that may still begin, the one with the fallback model included.
AttemptsLeft(e) == IF e.fallback THEN e.attempts ELSE e.attempts + 1

\* The place fits the kind of the node.
KindOK(n, e) ==
    /\ e.pc \in {"attempt", "afford", "tools"} \union Asking => shape.kind[n] = "llm"
    /\ e.pc \in {"gate", "control", "subgraph"} => shape.kind[n] = e.pc
    /\ e.pc = "idle" => e = Fresh

\* Attempts, rounds and calls stay within their limits.
LimitsOK(n, e, k) ==
    /\ e.attempts <= shape.max_retries + 1 /\ (e.fallback => e.attempts = 0)
    /\ e.iteration <= max_tool_iterations
    /\ e.pc = "tools" => e.iteration < max_tool_iterations
    /\ e.pc = "idle" => k = 0
    /\ k + Left(e) + AttemptsLeft(e) * (max_tool_iterations + 1)
          <= (shape.max_retries + 2) * (max_tool_iterations + 1)

\* What an answer and a result rest on.
ResultOK(n, e, r, k) ==
    /\ e.pc \in Asking => k > 0
    /\ e.pc \in {"storing", "recording"} => e.usage \in shape.usages
    /\ e.pc # "done" => r = Pending
    /\ e.pc = "done" => r.state \in {"Succeeded", "Failed"}
    /\ r.state = "Succeeded" /\ shape.kind[n] = "llm" => k > 0
    /\ r.state = "Succeeded" /\ shape.kind[n] = "gate" => n \in shape.approved

NodeOK(n, e, r, k) == KindOK(n, e) /\ LimitsOK(n, e, k) /\ ResultOK(n, e, r, k)

NodesInv == RuntimeType /\ \A n \in Nodes : NodeOK(n, exec[n], result[n], asked[n])

-----------------------------------------------------------------------------
(* Shapes. *)

LEMMA ShapeFacts ==
    ASSUME shape \in Shapes
    PROVE  /\ shape.kind \in [Nodes -> Kinds] /\ shape.top \subseteq Nodes
           /\ shape.inner \in [shape.top -> SUBSET (Nodes \ shape.top)]
           /\ \A m, n \in shape.top : m # n => shape.inner[m] \intersect shape.inner[n] = {}
           /\ \A n \in Nodes \ shape.top : shape.kind[n] # "subgraph"
           /\ shape.edges \subseteq UNION {shape.inner[n] \X shape.inner[n] : n \in shape.top}
           /\ shape.allowlist \in [Nodes -> SUBSET Tools]
           /\ shape.fallback \in BOOLEAN /\ shape.cached \in BOOLEAN
           /\ shape.requests \subseteq SUBSET Tools
           /\ shape.max_retries \in Nat /\ shape.usages \subseteq Nat
           /\ \E u \in shape.usages : \A v \in shape.usages : v <= u
BY RuntimeAssumption

LEMMA ConstantFacts ==
    /\ Nodes \subseteq Nat /\ IsFiniteSet(Nodes) /\ Callers = Nodes
    /\ max_tool_iterations \in Nat /\ max_tool_iterations > 0 /\ allow_auto_exec \in BOOLEAN
    /\ Registered \subseteq Tools /\ Permitted \subseteq Tools
    /\ Quota \in Nat /\ Estimate \in Nat /\ max_entries \in Nat /\ max_entries > 0
BY RuntimeAssumption, CacheAssumption

LEMMA LessRelated ==
    ASSUME NEW x \in Nat, NEW y \in Nat, x < y
    PROVE  <<x, y>> \in OpToRel(<, Nat)
BY Zenon DEF OpToRel

LEMMA LeastExists ==
    ASSUME NEW S \in SUBSET Nat, S # {}
    PROVE  \E i \in S : \A j \in S : i <= j
<1>1. PICK i \in S : \A j \in S : ~(<<j, i>> \in OpToRel(<, Nat))
  BY NatLessThanWellFounded, WFMin, Zenon
<1>2. ASSUME NEW j \in S, j < i PROVE FALSE
  <2>1. i \in Nat /\ j \in Nat
    OBVIOUS
  <2>2. <<j, i>> \in OpToRel(<, Nat)
    BY <1>2, <2>1, LessRelated, Zenon
  <2> QED BY <1>1, <2>2, Zenon
<1> QED BY <1>2

LEMMA FirstInBatch ==
    ASSUME NEW S \in SUBSET Nodes, S # {}
    PROVE  First(S) \in S
<1>1. \E i \in S : \A j \in S : i <= j
  BY ConstantFacts, LeastExists
<1> QED BY <1>1 DEF First

-----------------------------------------------------------------------------
(* One node at a time. *)

LEMMA NodesInit == Init => NodesInv
<1> SUFFICES ASSUME Init PROVE NodesInv
  OBVIOUS
<1>1. RuntimeType
  BY DEF Init, RuntimeType, Executions, Results, Fresh, Pending, Places
<1>2. ASSUME NEW n \in Nodes PROVE NodeOK(n, exec[n], result[n], asked[n])
  <2>1. exec[n] = Fresh /\ result[n] = Pending /\ asked[n] = 0
    BY DEF Init
  <2>2. shape.max_retries \in Nat /\ max_tool_iterations \in Nat
    BY <1>1, ShapeFacts, ConstantFacts DEF RuntimeType
  <2>3. KindOK(n, Fresh) /\ ResultOK(n, Fresh, Pending, 0)
    BY DEF KindOK, ResultOK, Fresh, Pending, Asking
  <2>4. LimitsOK(n, Fresh, 0)
    <3>1. Left(Fresh) = 0 /\ AttemptsLeft(Fresh) = 1
      BY DEF Left, AttemptsLeft, Fresh, Asking
    <3>2. 1 * (max_tool_iterations + 1)
             <= (shape.max_retries + 2) * (max_tool_iterations + 1)
      BY <2>2
    <3> QED BY <2>2, <3>1, <3>2 DEF LimitsOK, Fresh
  <2> QED BY <2>1, <2>3, <2>4 DEF NodeOK
<1> QED BY <1>1, <1>2 DEF NodesInv

\* A step that concerns one node.
LEMMA OneNode ==
    ASSUME NodesInv, NEW n \in Nodes, NEW e \in Executions, NEW r \in Results, NEW k \in Nat,
           exec' = [exec EXCEPT ![n] = e], result' = [result EXCEPT ![n] = r],
           asked' = [asked EXCEPT ![n] = k], shape' = shape,
           spent' \in Nat, dropped' = dropped, answered' \in [Nodes -> Nat],
           ran' \in [Nodes -> SUBSET Tools], NodeOK(n, e, r, k)
    PROVE  NodesInv'
<1>1. RuntimeType'
  BY DEF NodesInv, RuntimeType
<1>2. ASSUME NEW m \in Nodes PROVE NodeOK(m, exec'[m], result'[m], asked'[m])
  BY DEF NodesInv, RuntimeType
<1>3. ASSUME NEW m \in Nodes PROVE NodeOK(m, exec[m], result[m], asked[m])'
  BY <1>2 DEF NodeOK, KindOK, LimitsOK, ResultOK, Left, AttemptsLeft
<1> QED BY <1>1, <1>3 DEF NodesInv

LEMMA SameFunction ==
    ASSUME NEW S, NEW T, NEW f \in [S -> T], NEW x \in S
    PROVE  [f EXCEPT ![x] = f[x]] = f
OBVIOUS

\* A step that only moves a node.
LEMMA OneMoves ==
    ASSUME NodesInv, NEW n \in Nodes, NEW e \in Executions,
           exec' = [exec EXCEPT ![n] = e], result' = result, asked' = asked,
           shape' = shape, spent' \in Nat, dropped' = dropped, answered' \in [Nodes -> Nat],
           ran' \in [Nodes -> SUBSET Tools], NodeOK(n, e, result[n], asked[n])
    PROVE  NodesInv'
<1>1. result[n] \in Results /\ asked[n] \in Nat
  BY DEF NodesInv, RuntimeType
<1>2. result' = [result EXCEPT ![n] = result[n]] /\ asked' = [asked EXCEPT ![n] = asked[n]]
  BY SameFunction DEF NodesInv, RuntimeType
<1> QED BY <1>1, <1>2, OneNode

LEMMA Moved ==
    ASSUME NEW e \in Executions, NEW p \in Places
    PROVE  /\ [e EXCEPT !.pc = p] \in Executions
           /\ [e EXCEPT !.pc = p].pc = p
           /\ [e EXCEPT !.pc = p].attempts = e.attempts
           /\ [e EXCEPT !.pc = p].fallback = e.fallback
           /\ [e EXCEPT !.pc = p].iteration = e.iteration
           /\ [e EXCEPT !.pc = p].usage = e.usage
           /\ [e EXCEPT !.pc = p].calls = e.calls
           /\ [e EXCEPT !.pc = p].batch = e.batch
BY DEF Executions

LEMMA LeftType ==
    ASSUME NEW e \in Executions, e.iteration <= max_tool_iterations
    PROVE  Left(e) \in Nat
BY ConstantFacts DEF Left, Executions

\* Within an attempt, calls made and calls left to make add up.
LEMMA LimitsStep ==
    ASSUME shape \in Shapes, NEW n \in Nodes, NEW e \in Executions, NEW f \in Executions,
           NEW j \in Nat, NEW k \in Nat, LimitsOK(n, e, k),
           f.attempts = e.attempts, f.fallback = e.fallback, f.pc # "idle",
           f.iteration <= max_tool_iterations,
           f.pc = "tools" => f.iteration < max_tool_iterations,
           j + Left(f) <= k + Left(e)
    PROVE  LimitsOK(n, f, j)
<1>1. Left(e) \in Nat /\ Left(f) \in Nat
  BY LeftType DEF LimitsOK
<1>2. shape.max_retries \in Nat /\ max_tool_iterations \in Nat
  BY ShapeFacts, ConstantFacts
<1>3. AttemptsLeft(f) = AttemptsLeft(e) /\ AttemptsLeft(e) \in Nat
  BY DEF AttemptsLeft, Executions
<1>4. /\ AttemptsLeft(e) * (max_tool_iterations + 1) \in Nat
      /\ (shape.max_retries + 2) * (max_tool_iterations + 1) \in Nat
  BY <1>2, <1>3
<1> QED BY <1>1, <1>2, <1>3, <1>4 DEF LimitsOK

\* A node that ends.
LEMMA OneEnds ==
    ASSUME NodesInv, NEW n \in Nodes, NEW state \in {"Succeeded", "Failed"}, NEW u \in Nat,
           exec[n].pc \notin {"idle", "done", "dropped"}, Ends(n, state, u),
           state = "Succeeded" /\ shape.kind[n] = "llm" => asked[n] > 0,
           state = "Succeeded" /\ shape.kind[n] = "gate" => n \in shape.approved,
           shape' = shape, spent' \in Nat, UNCHANGED history
    PROVE  NodesInv'
<1> DEFINE e == [exec[n] EXCEPT !.pc = "done"]
           r == [state |-> state, usage |-> u]
<1>0. RuntimeType /\ NodeOK(n, exec[n], result[n], asked[n])
  BY DEF NodesInv
<1>1. e \in Executions /\ r \in Results /\ asked[n] \in Nat
  <2>1. exec[n] \in Executions /\ "done" \in Places
    BY <1>0 DEF RuntimeType, Places
  <2>2. r \in Results /\ asked[n] \in Nat
    BY <1>0 DEF RuntimeType, Results
  <2> QED BY <2>1, <2>2, Moved
<1>2. /\ exec' = [exec EXCEPT ![n] = e] /\ result' = [result EXCEPT ![n] = r]
      /\ dropped' = dropped /\ answered' \in [Nodes -> Nat] /\ ran' \in [Nodes -> SUBSET Tools]
      /\ asked' = asked
  BY <1>0 DEF Ends, Set, history, RuntimeType
<1>5. asked' = [asked EXCEPT ![n] = asked[n]]
  BY <1>0, <1>2, SameFunction DEF RuntimeType
<1>3. KindOK(n, e) /\ ResultOK(n, e, r, asked[n])
  BY <1>0 DEF KindOK, ResultOK, NodeOK, RuntimeType, Executions, Asking
<1>4. LimitsOK(n, e, asked[n])
  <2>1. /\ e.pc = "done" /\ e.attempts = exec[n].attempts /\ e.fallback = exec[n].fallback
        /\ e.iteration = exec[n].iteration /\ exec[n] \in Executions
    BY <1>0 DEF RuntimeType, Executions
  <2>2. Left(e) = 0 /\ Left(exec[n]) \in Nat
    BY <1>0, <2>1, LeftType DEF Left, Asking, NodeOK, LimitsOK
  <2> HIDE DEF e
  <2>3. e.iteration <= max_tool_iterations /\ LimitsOK(n, exec[n], asked[n])
    BY <1>0, <2>1 DEF NodeOK, LimitsOK
  <2>4. asked[n] + Left(e) <= asked[n] + Left(exec[n]) /\ e.pc # "idle" /\ e.pc # "tools"
    BY <1>1, <2>1, <2>2
  <2> QED BY <1>0, <1>1, <2>1, <2>3, <2>4, LimitsStep DEF RuntimeType
<1> HIDE DEF e, r
<1> QED BY <1>1, <1>2, <1>3, <1>4, <1>5, OneNode DEF NodeOK

\* A node that moves on within its attempt, or back to the choice of the next.
LEMMA OneProceeds ==
    ASSUME NodesInv, NEW n \in Nodes, NEW e \in Executions, NEW k \in Nat,
           exec' = [exec EXCEPT ![n] = e], result' = result,
           asked' = [asked EXCEPT ![n] = k], shape' = shape, spent' \in Nat,
           dropped' = dropped, answered' \in [Nodes -> Nat], ran' \in [Nodes -> SUBSET Tools],
           shape.kind[n] = "llm", exec[n].pc # "done",
           e.pc \in {"attempt", "afford", "tools"} \union Asking,
           e.attempts = exec[n].attempts, e.fallback = exec[n].fallback,
           e.iteration <= max_tool_iterations,
           e.pc = "tools" => e.iteration < max_tool_iterations,
           k + Left(e) <= asked[n] + Left(exec[n]),
           e.pc \in Asking => k > 0,
           e.pc \in {"storing", "recording"} => e.usage \in shape.usages
    PROVE  NodesInv'
<1>0. RuntimeType /\ NodeOK(n, exec[n], result[n], asked[n])
  BY DEF NodesInv
<1>1. exec[n] \in Executions /\ asked[n] \in Nat /\ result[n] \in Results
  BY <1>0 DEF RuntimeType
<1>2. result[n] = Pending
  BY <1>0 DEF NodeOK, ResultOK
<1>3. KindOK(n, e) /\ ResultOK(n, e, result[n], k)
  BY <1>2 DEF KindOK, ResultOK, Asking, Pending
<1>4. LimitsOK(n, e, k)
  BY <1>0, <1>1, LimitsStep DEF NodeOK, RuntimeType, Asking
<1>5. result' = [result EXCEPT ![n] = result[n]]
  BY <1>0, SameFunction DEF RuntimeType
<1> QED BY <1>1, <1>3, <1>4, <1>5, OneNode DEF NodeOK

-----------------------------------------------------------------------------
(* The same, action by action. *)

LEMMA NodesInvType == NodesInv => RuntimeType
BY DEF NodesInv

\* A node that is entered is as it was at first, apart from its place.
LEMMA EntersNodes ==
    ASSUME NodesInv, NEW n \in Nodes, exec[n].pc = "idle", Set(n, Entered(n)),
           UNCHANGED <<shape, result, spent, history>>
    PROVE  NodesInv'
<1> DEFINE e == Entered(n)
<1>0. RuntimeType /\ NodeOK(n, exec[n], result[n], asked[n])
  BY DEF NodesInv
<1>1. shape.kind[n] \in Kinds /\ shape.max_retries \in Nat /\ max_tool_iterations \in Nat
  BY <1>0, ShapeFacts, ConstantFacts DEF RuntimeType
<1>2. /\ e \in Executions
      /\ e.pc = IF shape.kind[n] = "llm" THEN "attempt" ELSE shape.kind[n]
      /\ e.attempts = IF shape.kind[n] = "llm" THEN shape.max_retries + 1 ELSE 0
      /\ e.fallback = FALSE /\ e.iteration = 0 /\ e.pc \in {"attempt", "gate", "control", "subgraph"}
  <2> DEFINE p == IF shape.kind[n] = "llm" THEN "attempt" ELSE shape.kind[n]
             a == IF shape.kind[n] = "llm" THEN shape.max_retries + 1 ELSE 0
             f == [Fresh EXCEPT !.pc = p, !.attempts = a]
  <2>1. a \in Nat /\ p \in {"attempt", "gate", "control", "subgraph"}
    BY <1>1 DEF Kinds
  <2>2. e = f
    BY DEF Entered
  <2> HIDE DEF p, a
  <2>3. /\ f \in Executions /\ f.pc = p /\ f.attempts = a /\ f.fallback = FALSE
        /\ f.iteration = 0
    BY <2>1 DEF Fresh, Executions, Places
  <2> QED BY <2>1, <2>2, <2>3 DEF p, a
<1> HIDE DEF e
<1>3. asked[n] = 0 /\ result[n] = Pending
  BY <1>0 DEF NodeOK, LimitsOK, ResultOK
<1>4. KindOK(n, e) /\ ResultOK(n, e, result[n], asked[n])
  <2>1. CASE shape.kind[n] = "llm"
    BY <1>2, <1>3, <2>1 DEF KindOK, ResultOK, Asking, Pending
  <2>2. CASE shape.kind[n] # "llm"
    BY <1>1, <1>2, <1>3, <2>2 DEF KindOK, ResultOK, Asking, Pending, Kinds
  <2> QED BY <2>1, <2>2
<1>5. LimitsOK(n, e, asked[n])
  <2>1. Left(e) = 0 /\ AttemptsLeft(e) = e.attempts + 1
    BY <1>2 DEF Left, AttemptsLeft, Asking
  <2>2. AttemptsLeft(e) \in Nat /\ AttemptsLeft(e) <= shape.max_retries + 2
    BY <1>1, <1>2, <2>1
  <2>3. \A a, b, c \in Nat : a <= b => a * c <= b * c
    OBVIOUS
  <2>4. AttemptsLeft(e) * (max_tool_iterations + 1)
          <= (shape.max_retries + 2) * (max_tool_iterations + 1)
    BY <1>1, <2>2, <2>3
  <2>5. AttemptsLeft(e) * (max_tool_iterations + 1) \in Nat
    BY <1>1, <2>2
  <2> QED BY <1>1, <1>2, <1>3, <2>1, <2>4, <2>5 DEF LimitsOK
<1>6. /\ exec' = [exec EXCEPT ![n] = e] /\ result' = result /\ asked' = asked /\ shape' = shape
      /\ spent' = spent /\ dropped' = dropped /\ answered' = answered /\ ran' = ran
  BY DEF Set, history, e
<1> QED BY <1>0, <1>2, <1>4, <1>5, <1>6, OneMoves DEF NodeOK, RuntimeType

\* The moves within an attempt and their effect on the calls left.
LEMMA AttemptFailsNodes ==
    ASSUME NodesInv, NEW n \in Nodes, exec[n].pc \in Asking \union {"afford"}, AttemptFails(n),
           UNCHANGED <<shape, result, asked, answered, ran, dropped>>, spent' \in Nat
    PROVE  NodesInv'
<1> DEFINE e == [exec[n] EXCEPT !.pc = "attempt", !.calls = {}]
<1>0. RuntimeType /\ NodeOK(n, exec[n], result[n], asked[n]) /\ exec[n] \in Executions
  BY DEF NodesInv, RuntimeType
<1>1. /\ e \in Executions /\ e.pc = "attempt" /\ e.attempts = exec[n].attempts
      /\ e.fallback = exec[n].fallback /\ e.iteration = exec[n].iteration
  BY <1>0 DEF Executions, Places
<1>2. exec' = [exec EXCEPT ![n] = e]
  BY DEF AttemptFails, Set
<1> HIDE DEF e
<1>3. /\ Left(e) = 0 /\ Left(exec[n]) \in Nat /\ shape.kind[n] = "llm"
      /\ e.iteration <= max_tool_iterations /\ asked[n] \in Nat
  BY <1>0, <1>1, LeftType DEF Left, Asking, NodeOK, LimitsOK, KindOK, RuntimeType
<1>4. asked' = [asked EXCEPT ![n] = asked[n]] /\ exec[n].pc # "done"
  BY <1>0, SameFunction DEF RuntimeType, Asking
<1>5. /\ answered' \in [Nodes -> Nat] /\ ran' \in [Nodes -> SUBSET Tools]
      /\ asked[n] + Left(e) <= asked[n] + Left(exec[n])
      /\ e.pc \in {"attempt", "afford", "tools"} \union Asking /\ e.pc \notin Asking
  BY <1>0, <1>1, <1>3 DEF RuntimeType, Asking
<1> QED BY <1>1, <1>2, <1>3, <1>4, <1>5, OneProceeds DEF Asking

LEMMA AttemptBeginsNodes ==
    ASSUME NodesInv, NEW n \in Nodes, AttemptBegins(n)
    PROVE  NodesInv'
<1> DEFINE again == exec[n].attempts > 0
           a == IF again THEN exec[n].attempts - 1 ELSE 0
           e == [exec[n] EXCEPT !.pc = "afford", !.iteration = 0, !.attempts = a,
                                !.fallback = ~again]
<1>0. RuntimeType /\ NodeOK(n, exec[n], result[n], asked[n]) /\ exec[n] \in Executions
  BY DEF NodesInv, RuntimeType
<1>1. shape.kind[n] = "llm" /\ exec[n].pc = "attempt"
  BY <1>0 DEF AttemptBegins, NodeOK, KindOK
<1>2. CASE ~((again \/ (shape.fallback /\ ~exec[n].fallback)) /\ n \notin shape.malformed)
  <2>1. Ends(n, "Failed", 0) /\ shape' = shape /\ spent' = spent /\ UNCHANGED history
    BY <1>2 DEF AttemptBegins, Fails
  <2> QED BY <1>0, <1>1, <2>1, OneEnds DEF RuntimeType
<1>3. CASE (again \/ (shape.fallback /\ ~exec[n].fallback)) /\ n \notin shape.malformed
  <2>1. /\ exec' = [exec EXCEPT ![n] = e] /\ result' = result /\ shape' = shape
        /\ spent' = spent /\ UNCHANGED history
    BY <1>3 DEF AttemptBegins, Set
  <2>2. /\ exec[n].attempts \in Nat /\ exec[n].fallback \in BOOLEAN
        /\ (exec[n].fallback => exec[n].attempts = 0)
        /\ exec[n].attempts <= shape.max_retries + 1
        /\ shape.max_retries \in Nat /\ max_tool_iterations \in Nat /\ asked[n] \in Nat
    BY <1>0, ShapeFacts, ConstantFacts DEF Executions, NodeOK, LimitsOK, RuntimeType
  <2>3. /\ e.pc = "afford" /\ e.iteration = 0 /\ e.fallback = ~again /\ e.attempts = a
        /\ e \in Executions
    <3> DEFINE b == ~again
    <3>1. a \in Nat /\ b \in BOOLEAN
      BY <2>2
    <3>2. e = [exec[n] EXCEPT !.pc = "afford", !.iteration = 0, !.attempts = a, !.fallback = b]
      OBVIOUS
    <3> HIDE DEF a, b, e
    <3>3. e \in Executions
      BY <1>0, <3>1, <3>2 DEF Executions, Places
    <3>4. e.pc = "afford" /\ e.iteration = 0 /\ e.attempts = a /\ (e.fallback <=> b)
      BY <1>0, <3>1, <3>2 DEF Executions
    <3>5. e.fallback \in BOOLEAN
      BY <3>3 DEF Executions
    <3> QED BY <3>1, <3>3, <3>4, <3>5, Zenon DEF b
  <2> HIDE DEF e
  <2>5. AttemptsLeft(e) + 1 = AttemptsLeft(exec[n]) /\ AttemptsLeft(e) \in Nat
    <3>1. e.fallback <=> ~again
      BY <2>3, Zenon
    <3>2. CASE again
      BY <2>2, <2>3, <3>1, <3>2 DEF AttemptsLeft
    <3>3. CASE ~again
      BY <1>3, <2>2, <2>3, <3>1, <3>3 DEF AttemptsLeft
    <3> QED BY <3>2, <3>3
  <2>6. Left(e) = max_tool_iterations + 1 /\ Left(exec[n]) = 0
    BY <1>1, <2>2, <2>3 DEF Left, Asking
  <2>7. LimitsOK(n, e, asked[n])
    <3> DEFINE M == max_tool_iterations + 1
               most == (shape.max_retries + 2) * M
    <3>1. asked[n] + AttemptsLeft(exec[n]) * M <= most
      BY <1>0, <2>2, <2>5, <2>6 DEF NodeOK, LimitsOK
    <3>2. AttemptsLeft(exec[n]) * M = AttemptsLeft(e) * M + M
      BY <2>2, <2>5
    <3>3. AttemptsLeft(e) * M \in Nat /\ M \in Nat /\ most \in Nat
      BY <2>2, <2>5
    <3>4. asked[n] + Left(e) + AttemptsLeft(e) * M <= most
      <4> HIDE DEF most
      <4> QED BY <2>2, <2>6, <3>1, <3>2, <3>3
    <3> QED BY <2>2, <2>3, <3>4 DEF LimitsOK
  <2>8. KindOK(n, e) /\ ResultOK(n, e, result[n], asked[n])
    BY <1>0, <1>1, <2>3 DEF KindOK, ResultOK, NodeOK, Asking
  <2>9. asked' = asked /\ answered' = answered /\ ran' = ran /\ dropped' = dropped
    BY <2>1 DEF history
  <2> QED BY <1>0, <2>1, <2>3, <2>7, <2>8, <2>9, OneMoves DEF NodeOK, RuntimeType
<1> QED BY <1>2, <1>3

LEMMA Added ==
    ASSUME NEW S, NEW f \in [S -> Nat], NEW x \in S, NEW u \in Nat
    PROVE  [f EXCEPT ![x] = f[x] + u] \in [S -> Nat]
OBVIOUS

LEMMA CheckQuotaNodes ==
    ASSUME NodesInv, NEW n \in Nodes, CheckQuota(n)
    PROVE  NodesInv'
<1>0. /\ RuntimeType /\ NodeOK(n, exec[n], result[n], asked[n]) /\ exec[n] \in Executions
      /\ asked[n] \in Nat
  BY DEF NodesInv, RuntimeType
<1>1. /\ exec[n].pc = "afford" /\ shape' = shape /\ result' = result /\ spent' = spent
      /\ answered' = answered /\ ran' = ran /\ dropped' = dropped
  BY DEF CheckQuota
<1>2. CASE can_afford(n)
  <2> DEFINE p == IF shape.cached THEN "lookup" ELSE "calling"
             e == [exec[n] EXCEPT !.pc = p]
  <2>1. exec' = [exec EXCEPT ![n] = e] /\ asked' = [asked EXCEPT ![n] = asked[n] + 1]
    BY <1>2 DEF CheckQuota, Set
  <2>2. p \in Asking /\ p \in Places /\ p \notin {"storing", "recording", "tools", "afford"}
    BY DEF Asking, Places
  <2> HIDE DEF p
  <2>3. /\ e \in Executions /\ e.pc = p /\ e.attempts = exec[n].attempts
        /\ e.fallback = exec[n].fallback /\ e.iteration = exec[n].iteration
    BY <1>0, <2>2, Moved
  <2> HIDE DEF e
  <2>4. /\ exec[n].iteration \in Nat /\ exec[n].iteration <= max_tool_iterations
        /\ max_tool_iterations \in Nat /\ shape.kind[n] = "llm"
    BY <1>0, <1>1, ConstantFacts DEF NodeOK, LimitsOK, KindOK, Executions
  <2>5. asked[n] + 1 + Left(e) <= asked[n] + Left(exec[n])
    BY <1>0, <1>1, <2>2, <2>3, <2>4 DEF Left
  <2>6. asked[n] + 1 \in Nat /\ asked[n] + 1 > 0 /\ spent' \in Nat /\ answered' \in [Nodes -> Nat]
        /\ ran' \in [Nodes -> SUBSET Tools]
    BY <1>0, <1>1 DEF RuntimeType
  <2> QED BY <1>1, <2>1, <2>2, <2>3, <2>4, <2>5, <2>6, OneProceeds
<1>3. CASE ~can_afford(n)
  <2>1. AttemptFails(n) /\ asked' = [asked EXCEPT ![n] = asked[n]]
    BY <1>3 DEF CheckQuota
  <2>2. asked' = asked
    BY <1>0, <2>1, SameFunction DEF RuntimeType
  <2> QED BY <1>0, <1>1, <2>1, <2>2, AttemptFailsNodes DEF RuntimeType
<1> QED BY <1>2, <1>3

\* A node that goes on from where it waits for the provider or the cache.
LEMMA AskingGoesOn ==
    ASSUME NodesInv, NEW n \in Nodes, exec[n].pc \in Asking, NEW e \in Executions,
           e.pc \in Asking, e.pc \in {"storing", "recording"} => e.usage \in shape.usages,
           e.attempts = exec[n].attempts, e.fallback = exec[n].fallback,
           e.iteration = exec[n].iteration, exec' = [exec EXCEPT ![n] = e],
           UNCHANGED <<shape, result, spent, asked, ran, dropped>>,
           answered' \in [Nodes -> Nat]
    PROVE  NodesInv'
<1>0. /\ RuntimeType /\ NodeOK(n, exec[n], result[n], asked[n]) /\ exec[n] \in Executions
      /\ asked[n] \in Nat
  BY DEF NodesInv, RuntimeType
<1>2. /\ e.iteration <= max_tool_iterations /\ shape.kind[n] = "llm" /\ asked[n] > 0
      /\ e.pc \notin {"tools", "afford"} /\ exec[n].pc \notin {"afford", "done"}
      /\ Left(exec[n]) \in Nat
  BY <1>0, LeftType DEF NodeOK, LimitsOK, KindOK, ResultOK, Asking
<1>3. Left(e) = Left(exec[n])
  BY <1>2 DEF Left
<1>4. /\ asked' = [asked EXCEPT ![n] = asked[n]] /\ spent' \in Nat /\ shape' = shape
      /\ ran' \in [Nodes -> SUBSET Tools] /\ dropped' = dropped /\ result' = result
  BY <1>0, SameFunction DEF RuntimeType
<1>5. asked[n] + Left(e) <= asked[n] + Left(exec[n])
  BY <1>0, <1>2, <1>3
<1> QED BY <1>0, <1>2, <1>4, <1>5, OneProceeds

LEMMA ProviderNodes ==
    ASSUME NodesInv, NEW n \in Nodes,
           \/ ProviderFails(n)
           \/ \E u \in shape.usages, calls \in shape.requests : ProviderAnswers(n, u, calls)
           \/ CacheMisses(n) \/ \E u \in shape.usages : CacheHits(n, u)
           \/ EndPut(n)
    PROVE  NodesInv'
<1>0. /\ RuntimeType /\ NodeOK(n, exec[n], result[n], asked[n]) /\ exec[n] \in Executions
      /\ asked[n] \in Nat
  BY DEF NodesInv, RuntimeType
<1>1. /\ shape.usages \subseteq Nat /\ shape.requests \subseteq SUBSET Tools
      /\ answered \in [Nodes -> Nat]
  BY <1>0, ShapeFacts DEF RuntimeType
<1>2. Asking \subseteq Places
  BY DEF Asking, Places
<1>3. CASE ProviderFails(n)
  <2>1. /\ exec[n].pc \in Asking /\ AttemptFails(n) /\ spent' \in Nat
        /\ UNCHANGED <<shape, result, asked, answered, ran, dropped>>
    BY <1>0, <1>3 DEF ProviderFails, history, Asking, RuntimeType
  <2> QED BY <2>1, AttemptFailsNodes
<1>4. ASSUME NEW u \in shape.usages, NEW calls \in shape.requests, ProviderAnswers(n, u, calls)
      PROVE  NodesInv'
  <2>0. u \in Nat /\ calls \in SUBSET Tools
    BY <1>1
  <2>1. PICK next \in {"recording", "storing"} :
               exec' = [exec EXCEPT ![n] = [exec[n] EXCEPT !.pc = next, !.usage = u, !.calls = calls]]
    BY <1>4 DEF ProviderAnswers, Set
  <2>2. /\ exec[n].pc \in Asking /\ next \in Asking
        /\ UNCHANGED <<shape, result, spent, asked, ran, dropped>>
        /\ answered' = [answered EXCEPT ![n] = answered[n] + u]
    BY <1>4 DEF ProviderAnswers, Asking
  <2>3. answered' \in [Nodes -> Nat]
    BY <1>1, <2>0, <2>2, Added
  <2> DEFINE e == [exec[n] EXCEPT !.pc = next, !.usage = u, !.calls = calls]
  <2>4. /\ e \in Executions /\ e.pc = next /\ e.usage = u /\ e.attempts = exec[n].attempts
        /\ e.fallback = exec[n].fallback /\ e.iteration = exec[n].iteration
    BY <1>0, <1>2, <2>0, <2>2 DEF Executions
  <2>5. exec' = [exec EXCEPT ![n] = e]
    BY <2>1
  <2> HIDE DEF e
  <2> QED BY <2>2, <2>3, <2>4, <2>5, AskingGoesOn
<1>5. CASE CacheMisses(n)
  <2>1. /\ exec[n].pc \in Asking /\ "calling" \in Asking
        /\ exec' = [exec EXCEPT ![n] = [exec[n] EXCEPT !.pc = "calling"]]
        /\ UNCHANGED <<shape, result, spent, asked, ran, dropped>> /\ answered' = answered
    BY <1>5 DEF CacheMisses, Asking, Set, history
  <2>2. "calling" \in Places
    BY DEF Places
  <2> DEFINE e == [exec[n] EXCEPT !.pc = "calling"]
  <2>3. /\ e \in Executions /\ e.pc = "calling" /\ e.attempts = exec[n].attempts
        /\ e.fallback = exec[n].fallback /\ e.iteration = exec[n].iteration
    BY <1>0, <2>2, Moved
  <2>4. exec' = [exec EXCEPT ![n] = e]
    BY <2>1
  <2> HIDE DEF e
  <2>5. answered' \in [Nodes -> Nat] /\ UNCHANGED <<shape, result, spent, asked, ran, dropped>>
    BY <1>1, <2>1
  <2>6. exec[n].pc \in Asking /\ e.pc \in Asking /\ e.pc \notin {"storing", "recording"}
    BY <2>1, <2>3
  <2> QED BY <2>3, <2>4, <2>5, <2>6, AskingGoesOn
<1>6. ASSUME NEW u \in shape.usages, CacheHits(n, u) PROVE NodesInv'
  <2>0. u \in Nat /\ {} \in SUBSET Tools /\ "recording" \in Places
    BY <1>1 DEF Places
  <2>1. /\ exec[n].pc \in Asking /\ "recording" \in Asking
        /\ exec' = [exec EXCEPT ![n] = [exec[n] EXCEPT !.pc = "recording", !.usage = u, !.calls = {}]]
        /\ UNCHANGED <<shape, result, spent, asked, ran, dropped>>
        /\ answered' = [answered EXCEPT ![n] = answered[n] + u]
    BY <1>6 DEF CacheHits, Asking, Set
  <2>2. answered' \in [Nodes -> Nat]
    BY <1>1, <2>0, <2>1, Added
  <2> DEFINE e == [exec[n] EXCEPT !.pc = "recording", !.usage = u, !.calls = {}]
  <2>3. /\ e \in Executions /\ e.pc = "recording" /\ e.usage = u
        /\ e.attempts = exec[n].attempts /\ e.fallback = exec[n].fallback
        /\ e.iteration = exec[n].iteration
    BY <1>0, <2>0 DEF Executions
  <2>4. exec' = [exec EXCEPT ![n] = e]
    BY <2>1
  <2> HIDE DEF e
  <2>5. /\ exec[n].pc \in Asking /\ e.pc \in Asking
        /\ UNCHANGED <<shape, result, spent, asked, ran, dropped>>
    BY <2>1, <2>3
  <2> QED BY <2>2, <2>3, <2>4, <2>5, AskingGoesOn
<1>7. CASE EndPut(n)
  <2>1. /\ exec[n].pc = "storing" /\ "recording" \in Asking /\ "storing" \in Asking
        /\ exec' = [exec EXCEPT ![n] = [exec[n] EXCEPT !.pc = "recording"]]
        /\ UNCHANGED <<shape, result, spent, asked, ran, dropped>> /\ answered' = answered
    BY <1>7 DEF EndPut, Asking, Set, history
  <2>2. exec[n].usage \in shape.usages /\ "recording" \in Places
    BY <1>0, <2>1 DEF NodeOK, ResultOK, Places
  <2> DEFINE e == [exec[n] EXCEPT !.pc = "recording"]
  <2>3. /\ e \in Executions /\ e.pc = "recording" /\ e.usage = exec[n].usage
        /\ e.attempts = exec[n].attempts /\ e.fallback = exec[n].fallback
        /\ e.iteration = exec[n].iteration
    BY <1>0, <2>2, Moved
  <2>4. exec' = [exec EXCEPT ![n] = e]
    BY <2>1
  <2> HIDE DEF e
  <2>5. answered' \in [Nodes -> Nat] /\ UNCHANGED <<shape, result, spent, asked, ran, dropped>>
    BY <1>1, <2>1
  <2>6. exec[n].pc \in Asking /\ e.pc \in Asking /\ e.usage \in shape.usages
    BY <2>1, <2>2, <2>3
  <2> QED BY <2>3, <2>4, <2>5, <2>6, AskingGoesOn
<1> QED BY <1>3, <1>4, <1>5, <1>6, <1>7

LEMMA RecordUsageNodes ==
    ASSUME NodesInv, NEW n \in Nodes, RecordUsage(n)
    PROVE  NodesInv'
<1>0. /\ RuntimeType /\ NodeOK(n, exec[n], result[n], asked[n]) /\ exec[n] \in Executions
      /\ asked[n] \in Nat
  BY DEF NodesInv, RuntimeType
<1>1. /\ exec[n].pc = "recording" /\ spent' = spent + exec[n].usage /\ AfterRecording(n)
      /\ shape' = shape /\ UNCHANGED history
      /\ asked' = asked /\ answered' = answered /\ ran' = ran /\ dropped' = dropped
  BY DEF RecordUsage, history
<1>2. /\ spent' \in Nat /\ asked[n] > 0 /\ shape.kind[n] = "llm" /\ exec[n].usage \in Nat
      /\ exec[n].iteration <= max_tool_iterations /\ exec[n].iteration \in Nat
      /\ max_tool_iterations \in Nat
  BY <1>0, <1>1, ConstantFacts
     DEF NodeOK, KindOK, LimitsOK, ResultOK, Asking, RuntimeType, Executions
<1>3. CASE exec[n].calls = {}
  <2>1. Ends(n, "Succeeded", exec[n].usage)
    BY <1>1, <1>3 DEF AfterRecording
  <2> QED BY <1>1, <1>2, <2>1, OneEnds
<1>4. CASE exec[n].calls # {} /\ (exec[n].iteration = max_tool_iterations \/ ~allow_auto_exec)
  <2>1. AttemptFails(n) /\ result' = result
    BY <1>1, <1>4 DEF AfterRecording
  <2> QED BY <1>1, <1>2, <2>1, AttemptFailsNodes DEF Asking
<1>5. CASE exec[n].calls # {} /\ exec[n].iteration # max_tool_iterations /\ allow_auto_exec
  <2> DEFINE e == [exec[n] EXCEPT !.pc = "tools"]
  <2>1. exec' = [exec EXCEPT ![n] = e] /\ result' = result
    BY <1>1, <1>5 DEF AfterRecording, Set
  <2>2. /\ e \in Executions /\ e.pc = "tools" /\ e.attempts = exec[n].attempts
        /\ e.fallback = exec[n].fallback /\ e.iteration = exec[n].iteration
    BY <1>0, Moved DEF Places
  <2> HIDE DEF e
  <2>3. Left(e) = Left(exec[n]) /\ Left(e) \in Nat
    BY <1>1, <1>2, <2>2 DEF Left, Asking
  <2>4. asked' = [asked EXCEPT ![n] = asked[n]] /\ e.pc \notin Asking /\ e.pc # "storing"
    BY <1>0, <1>1, <2>2, SameFunction DEF RuntimeType, Asking
  <2>5. asked[n] + Left(e) <= asked[n] + Left(exec[n]) /\ e.iteration < max_tool_iterations
    BY <1>0, <1>2, <1>5, <2>2, <2>3
  <2>6. answered' \in [Nodes -> Nat] /\ ran' \in [Nodes -> SUBSET Tools]
    BY <1>0, <1>1 DEF RuntimeType
  <2> QED BY <1>0, <1>1, <1>2, <2>1, <2>2, <2>4, <2>5, <2>6, OneProceeds
<1> QED BY <1>3, <1>4, <1>5

LEMMA ToolNodes ==
    ASSUME NodesInv, NEW n \in Nodes, RunTool(n) \/ NextRound(n)
    PROVE  NodesInv'
<1>0. /\ RuntimeType /\ NodeOK(n, exec[n], result[n], asked[n]) /\ exec[n] \in Executions
      /\ asked[n] \in Nat /\ asked = [asked EXCEPT ![n] = asked[n]]
  BY SameFunction DEF NodesInv, RuntimeType
<1>1. exec[n].pc = "tools" /\ shape' = shape /\ result' = result /\ spent' = spent
      /\ asked' = asked /\ answered' = answered /\ dropped' = dropped
  BY DEF RunTool, NextRound, history
<1>2. /\ spent' \in Nat /\ shape.kind[n] = "llm" /\ exec[n].iteration < max_tool_iterations
      /\ exec[n].iteration \in Nat /\ max_tool_iterations \in Nat /\ answered' \in [Nodes -> Nat]
      /\ exec[n].calls \subseteq Tools
  BY <1>0, <1>1, ConstantFacts
     DEF NodeOK, KindOK, LimitsOK, Asking, RuntimeType, Executions
<1>3. CASE RunTool(n)
  <2> DEFINE t == CHOOSE t \in exec[n].calls : TRUE
             e == [exec[n] EXCEPT !.calls = exec[n].calls \ {t}]
  <2>1. /\ exec' = [exec EXCEPT ![n] = e]
        /\ ran' = [ran EXCEPT ![n] =
                     ran[n] \union ({t} \intersect tool_allowlist(n) \intersect Registered)]
    BY <1>3 DEF RunTool, Set
  <2> HIDE DEF t
  <2>2. /\ e \in Executions /\ e.pc = "tools" /\ e.attempts = exec[n].attempts
        /\ e.fallback = exec[n].fallback /\ e.iteration = exec[n].iteration
    BY <1>0, <1>1, <1>2 DEF Executions
  <2> HIDE DEF e
  <2>3. Left(e) = Left(exec[n]) /\ Left(e) \in Nat
    BY <1>1, <1>2, <2>2 DEF Left, Asking
  <2>4. ran' \in [Nodes -> SUBSET Tools]
    <3>1. ran \in [Nodes -> SUBSET Tools] /\ Registered \subseteq Tools
      BY <1>0, ConstantFacts DEF RuntimeType
    <3> QED BY <2>1, <3>1
  <2>5. /\ asked[n] + Left(e) <= asked[n] + Left(exec[n]) /\ e.pc \notin Asking
        /\ e.iteration <= max_tool_iterations
    BY <1>0, <1>2, <2>2, <2>3 DEF Asking
  <2> QED BY <1>0, <1>1, <1>2, <2>1, <2>2, <2>4, <2>5, OneProceeds DEF Asking
<1>4. CASE NextRound(n)
  <2> DEFINE k == exec[n].iteration + 1
             e == [exec[n] EXCEPT !.pc = "afford", !.iteration = k]
  <2>1. exec' = [exec EXCEPT ![n] = e] /\ ran' = ran
    BY <1>4 DEF NextRound, Set, history
  <2>2. /\ e \in Executions /\ e.pc = "afford" /\ e.attempts = exec[n].attempts
        /\ e.fallback = exec[n].fallback /\ e.iteration = k
    <3>1. k \in Nat /\ "afford" \in Places
      BY <1>2 DEF Places
    <3> HIDE DEF k
    <3> QED BY <1>0, <3>1 DEF Executions
  <2> HIDE DEF e
  <2>3. Left(e) = Left(exec[n]) /\ Left(e) \in Nat
    BY <1>1, <1>2, <2>2 DEF Left, Asking
  <2>4. ran' \in [Nodes -> SUBSET Tools]
    BY <1>0, <2>1 DEF RuntimeType
  <2>5. /\ asked[n] + Left(e) <= asked[n] + Left(exec[n]) /\ e.pc \notin Asking
        /\ e.iteration <= max_tool_iterations
    BY <1>0, <1>2, <2>2, <2>3 DEF Asking
  <2> QED BY <1>0, <1>1, <1>2, <2>1, <2>2, <2>4, <2>5, OneProceeds DEF Asking
<1> QED BY <1>3, <1>4

-----------------------------------------------------------------------------
(* Sums, counted one by one. *)

LEMMA UnitsOf ==
    ASSUME NEW amount, NEW S, NEW t
    PROVE  t \in Units(amount, S) <=> \E r \in S : t \in {r} \X (1..amount[r])
BY DEF Units

\* Finitely many of finitely many.
LEMMA UnitsFinite ==
    ASSUME NEW S \in SUBSET Nodes, NEW amount, \A n \in S : amount[n] \in Nat
    PROVE  IsFiniteSet(Units(amount, S)) /\ Total(amount, S) \in Nat
<1> DEFINE f == [n \in S |-> {n} \X (1..amount[n])]
           T == {{n} \X (1..amount[n]) : n \in S}
<1>1. IsFiniteSet(S)
  BY ConstantFacts, FS_Subset
<1>2. f \in Surjection(S, T)
  BY DEF Surjection
<1>3. IsFiniteSet(T)
  <2> HIDE DEF f, T
  <2> QED BY <1>1, <1>2, FS_Surjection
<1>4. ASSUME NEW U \in T PROVE IsFiniteSet(U)
  <2>1. PICK n \in S : U = {n} \X (1..amount[n])
    OBVIOUS
  <2>2. IsFiniteSet({n}) /\ IsFiniteSet(1..amount[n])
    <3>1. 1 \in Int /\ amount[n] \in Int
      OBVIOUS
    <3> QED BY <3>1, FS_Singleton, FS_Interval
  <2> QED BY <2>1, <2>2, FS_Product
<1>5. IsFiniteSet(UNION T)
  <2> HIDE DEF T
  <2> QED BY <1>3, <1>4, FS_UNION
<1> QED BY <1>5, FS_CardinalityType DEF Units, Total

LEMMA SameUnits ==
    ASSUME NEW S, NEW f, NEW g, \A n \in S : f[n] = g[n]
    PROVE  Units(f, S) = Units(g, S) /\ Total(f, S) = Total(g, S)
BY DEF Units, Total

\* One summand taken out.
LEMMA TotalWithout ==
    ASSUME NEW S \in SUBSET Nodes, NEW f, \A m \in S : f[m] \in Nat, NEW n \in S
    PROVE  Total(f, S) = Total(f, S \ {n}) + f[n]
<1> DEFINE rest == Units(f, S \ {n})
           own == {n} \X (1..f[n])
<1>1. Units(f, S) = rest \union own
  <2>1. \A t : t \in Units(f, S) <=> t \in rest \/ t \in own
    BY UnitsOf
  <2> HIDE DEF rest, own
  <2> QED BY <2>1
<1>2. rest \intersect own = {}
  <2>1. ASSUME NEW t \in rest, t \in own PROVE FALSE
    <3>1. PICK m \in S \ {n} : t \in {m} \X (1..f[m])
      BY UnitsOf
    <3> QED BY <2>1, <3>1
  <2> QED BY <2>1
<1>3. IsFiniteSet(rest)
  BY UnitsFinite
<1>4. f[n] \in Nat /\ 1 \in Int /\ f[n] \in Int
  OBVIOUS
<1>5. IsFiniteSet(own) /\ Cardinality(own) = f[n]
  <2>1. IsFiniteSet({n}) /\ Cardinality({n}) = 1
    BY FS_Singleton
  <2>2. IsFiniteSet(1..f[n]) /\ Cardinality(1..f[n]) = f[n]
    <3>1. ASSUME NEW k \in Nat PROVE IsFiniteSet(1..k) /\ Cardinality(1..k) = k
      BY FS_Interval
    <3> QED BY <1>4, <3>1
  <2> DEFINE A == {n}
             B == 1..f[n]
  <2> HIDE DEF A, B
  <2>3. IsFiniteSet(A \X B) /\ Cardinality(A \X B) = Cardinality(A) * Cardinality(B)
    <3>1. IsFiniteSet(A) /\ IsFiniteSet(B)
      BY <2>1, <2>2 DEF A, B
    <3> QED BY <3>1, FS_Product
  <2>4. own = A \X B /\ Cardinality(A) = 1 /\ Cardinality(B) = f[n]
    BY <2>1, <2>2 DEF A, B
  <2> HIDE DEF own
  <2> QED BY <1>4, <2>3, <2>4
<1>6. Cardinality(rest \union own) = Cardinality(rest) + Cardinality(own)
  <2> HIDE DEF rest, own
  <2>1. Cardinality(rest \union own)
           = Cardinality(rest) + Cardinality(own) - Cardinality(rest \intersect own)
    BY <1>3, <1>5, FS_Union
  <2>2. Cardinality({}) = 0 /\ Cardinality(rest) \in Nat /\ Cardinality(own) \in Nat
    BY <1>3, <1>5, FS_EmptySet, FS_CardinalityType
  <2> QED BY <1>2, <2>1, <2>2
<1> QED BY <1>1, <1>5, <1>6 DEF Total

\* One summand changed.
LEMMA TotalChanged ==
    ASSUME NEW S \in SUBSET Nodes, NEW f, NEW g, \A m \in S : f[m] \in Nat /\ g[m] \in Nat,
           NEW n \in S, \A m \in S \ {n} : f[m] = g[m]
    PROVE  Total(g, S) + f[n] = Total(f, S) + g[n]
<1>1. Total(f, S) = Total(f, S \ {n}) + f[n] /\ Total(g, S) = Total(g, S \ {n}) + g[n]
  BY TotalWithout
<1>2. Total(f, S \ {n}) = Total(g, S \ {n})
  BY SameUnits
<1>3. Total(f, S \ {n}) \in Nat
  BY UnitsFinite
<1> QED BY <1>1, <1>2, <1>3

LEMMA ReportedTotal ==
    ASSUME RuntimeType, NEW S \in SUBSET Nodes
    PROVE  Total(Reported, S) \in Nat
<1>1. \A n \in S : Reported[n] \in Nat
  BY DEF RuntimeType, Results, Reported
<1> QED BY <1>1, UnitsFinite

LEMMA NoTotal ==
    ASSUME NEW S \in SUBSET Nodes, NEW f, \A n \in S : f[n] = 0
    PROVE  Total(f, S) = 0
<1>1. Units(f, S) = {}
  <2>1. ASSUME NEW t \in Units(f, S) PROVE FALSE
    <3>1. PICK m \in S : t \in {m} \X (1..f[m])
      BY UnitsOf
    <3> QED BY <3>1
  <2> QED BY <2>1
<1> QED BY <1>1, FS_EmptySet DEF Total

-----------------------------------------------------------------------------
(* Nodes without a provider, subgraphs, and drops. *)

LEMMA GateAndControlNodes ==
    ASSUME NodesInv, NEW n \in Nodes, GateDecides(n) \/ ControlPasses(n)
    PROVE  NodesInv'
<1>0. RuntimeType /\ NodeOK(n, exec[n], result[n], asked[n])
  BY DEF NodesInv
<1>1. CASE GateDecides(n)
  <2> DEFINE state == IF n \in shape.approved THEN "Succeeded" ELSE "Failed"
  <2>1. /\ exec[n].pc = "gate" /\ Ends(n, state, 0) /\ shape' = shape /\ spent' = spent
        /\ UNCHANGED history /\ shape.kind[n] = "gate"
    BY <1>0, <1>1 DEF GateDecides, NodeOK, KindOK
  <2>2. /\ state \in {"Succeeded", "Failed"} /\ (state = "Succeeded" => n \in shape.approved)
        /\ 0 \in Nat
    OBVIOUS
  <2> HIDE DEF state
  <2> QED BY <1>0, <2>1, <2>2, OneEnds DEF RuntimeType
<1>2. CASE ControlPasses(n)
  <2>1. /\ exec[n].pc = "control" /\ Ends(n, "Succeeded", 0) /\ shape' = shape /\ spent' = spent
        /\ UNCHANGED history /\ shape.kind[n] = "control"
    BY <1>0, <1>2 DEF ControlPasses, NodeOK, KindOK
  <2> QED BY <1>0, <2>1, OneEnds DEF RuntimeType
<1> QED BY <1>1, <1>2

LEMMA SubgraphFacts ==
    ASSUME NodesInv, NEW n \in Nodes, exec[n].pc = "subgraph"
    PROVE  /\ shape.kind[n] = "subgraph" /\ n \in shape.top
           /\ shape.inner[n] \subseteq Nodes \ shape.top
           /\ Completed(n) \subseteq shape.inner[n] /\ ReadyInner(n) \subseteq shape.inner[n]
<1>1. RuntimeType /\ NodeOK(n, exec[n], result[n], asked[n])
  BY DEF NodesInv
<1>2. shape.kind[n] = "subgraph" /\ n \in shape.top
  BY <1>1, ShapeFacts DEF RuntimeType, NodeOK, KindOK
<1> QED BY <1>1, <1>2, ShapeFacts DEF RuntimeType, Completed, ReadyInner

\* A node whose batch changes, and nothing else.
LEMMA Batched ==
    ASSUME NodesInv, NEW n \in Nodes, exec[n].pc = "subgraph", NEW b \in SUBSET Nodes,
           Set(n, [exec[n] EXCEPT !.batch = b]), result' = result,
           UNCHANGED <<shape, spent, history>>
    PROVE  NodesInv'
<1> DEFINE e == [exec[n] EXCEPT !.batch = b]
<1>0. /\ RuntimeType /\ NodeOK(n, exec[n], result[n], asked[n]) /\ exec[n] \in Executions
      /\ asked[n] \in Nat
  BY DEF NodesInv, RuntimeType
<1>1. /\ e \in Executions /\ e.pc = "subgraph" /\ e.attempts = exec[n].attempts
      /\ e.fallback = exec[n].fallback /\ e.iteration = exec[n].iteration
  BY <1>0 DEF Executions
<1>2. exec' = [exec EXCEPT ![n] = e]
  BY DEF Set
<1> HIDE DEF e
<1>3. Left(e) = 0 /\ Left(exec[n]) = 0
  BY <1>1 DEF Left, Asking
<1>4. KindOK(n, e) /\ ResultOK(n, e, result[n], asked[n])
  BY <1>0, <1>1 DEF NodeOK, KindOK, ResultOK, Asking
<1>5. LimitsOK(n, e, asked[n])
  <2>1. e.iteration <= max_tool_iterations /\ LimitsOK(n, exec[n], asked[n])
    BY <1>0, <1>1 DEF NodeOK, LimitsOK
  <2>2. asked[n] + Left(e) <= asked[n] + Left(exec[n]) /\ e.pc # "idle" /\ e.pc # "tools"
    BY <1>0, <1>1, <1>3
  <2> QED BY <1>0, <1>1, <2>1, <2>2, LimitsStep DEF RuntimeType
<1>6. asked' = asked /\ answered' = answered /\ ran' = ran /\ dropped' = dropped
  BY DEF history
<1> QED BY <1>0, <1>1, <1>2, <1>4, <1>5, <1>6, OneMoves DEF NodeOK, RuntimeType

LEMMA SubgraphNodes ==
    ASSUME NodesInv, NEW n \in Nodes, SubgraphBatch(n) \/ SubgraphStep(n)
    PROVE  NodesInv'
<1>0. RuntimeType /\ NodeOK(n, exec[n], result[n], asked[n]) /\ exec[n] \in Executions
  BY DEF NodesInv, RuntimeType
<1>1. /\ exec[n].pc = "subgraph" /\ UNCHANGED <<shape, cache, spent, history>>
      /\ shape' = shape /\ spent' = spent /\ UNCHANGED history /\ spent' \in Nat
  BY <1>0 DEF SubgraphBatch, SubgraphStep, RuntimeType
<1>2. /\ shape.kind[n] = "subgraph" /\ n \in shape.top
      /\ shape.inner[n] \subseteq Nodes \ shape.top
      /\ ReadyInner(n) \subseteq shape.inner[n]
  BY <1>1, SubgraphFacts
<1>3. ASSUME Fails(n) PROVE NodesInv'
  BY <1>1, <1>2, <1>3, OneEnds DEF Fails
<1>4. CASE SubgraphBatch(n)
  <2>1. CASE Completed(n) = shape.inner[n]
    <3>1. Ends(n, "Succeeded", Total(Reported, shape.inner[n]))
      BY <1>4, <2>1 DEF SubgraphBatch
    <3>2. Total(Reported, shape.inner[n]) \in Nat
      BY <1>0, <1>2, ReportedTotal
    <3> QED BY <1>1, <1>2, <3>1, <3>2, OneEnds
  <2>2. CASE Completed(n) # shape.inner[n] /\ ReadyInner(n) = {}
    BY <1>3, <1>4, <2>2 DEF SubgraphBatch
  <2>3. CASE Completed(n) # shape.inner[n] /\ ReadyInner(n) # {}
    <3>1. Set(n, [exec[n] EXCEPT !.batch = ReadyInner(n)]) /\ result' = result
      BY <1>4, <2>3 DEF SubgraphBatch
    <3>2. ReadyInner(n) \in SUBSET Nodes
      BY <1>2
    <3> QED BY <1>1, <3>1, <3>2, Batched
  <2> QED BY <2>1, <2>2, <2>3
<1>5. CASE SubgraphStep(n)
  <2> DEFINE i == First(exec[n].batch)
  <2>1. i \in exec[n].batch /\ i \in Nodes
    BY <1>0, <1>5, FirstInBatch DEF SubgraphStep, Executions
  <2>2. CASE exec[i].pc = "idle"
    <3>1. Set(i, Entered(i)) /\ result' = result
      BY <1>5, <2>2 DEF SubgraphStep, Ended
    <3> HIDE DEF i
    <3> QED BY <1>1, <2>1, <2>2, <3>1, EntersNodes
  <2>3. CASE Ended(i) /\ result[i].state = "Succeeded"
    <3>1. Set(n, [exec[n] EXCEPT !.batch = exec[n].batch \ {i}]) /\ result' = result
      BY <1>5, <2>3 DEF SubgraphStep, Ended
    <3>2. exec[n].batch \ {i} \in SUBSET Nodes
      BY <1>0 DEF Executions
    <3> QED BY <1>1, <3>1, <3>2, Batched
  <2>4. CASE Ended(i) /\ result[i].state = "Failed"
    BY <1>3, <1>5, <2>4 DEF SubgraphStep, Ended
  <2> QED BY <1>5, <2>2, <2>3, <2>4 DEF SubgraphStep
<1> QED BY <1>4, <1>5

\* A dropped execution stops where it was.
LEMMA DropNodes ==
    ASSUME NodesInv, NEW n \in Nodes, Drop(n)
    PROVE  NodesInv'
<1> DEFINE gone(m) == m = n \/ (shape.kind[n] = "subgraph" /\ m \in shape.inner[n] /\ ~Ended(m))
<1>0. RuntimeType
  BY DEF NodesInv
<1>1. /\ exec[n].pc \notin {"idle", "done", "dropped"}
      /\ exec' = [m \in Nodes |-> IF gone(m) THEN [exec[m] EXCEPT !.pc = "dropped"] ELSE exec[m]]
      /\ dropped' = TRUE /\ UNCHANGED <<shape, result, spent, asked, answered, ran>>
  BY DEF Drop
<1>2. ASSUME NEW m \in Nodes
      PROVE  /\ exec'[m] \in Executions
             /\ NodeOK(m, exec'[m], result[m], asked[m])
  <2>0. /\ NodeOK(m, exec[m], result[m], asked[m]) /\ exec[m] \in Executions
        /\ asked[m] \in Nat /\ result[m] \in Results
    BY DEF NodesInv, RuntimeType
  <2>1. CASE ~gone(m)
    <3>1. exec'[m] = exec[m]
      BY <1>1, <2>1
    <3> QED BY <2>0, <3>1
  <2>2. CASE gone(m)
    <3> DEFINE e == [exec[m] EXCEPT !.pc = "dropped"]
    <3>1. exec'[m] = e /\ exec[m].pc # "done"
      BY <1>1, <2>2 DEF Ended
    <3>2. /\ e \in Executions /\ e.pc = "dropped" /\ e.attempts = exec[m].attempts
          /\ e.fallback = exec[m].fallback /\ e.iteration = exec[m].iteration
      BY <2>0, Moved DEF Places
    <3> HIDE DEF e
    <3>3. KindOK(m, e) /\ ResultOK(m, e, result[m], asked[m])
      BY <2>0, <3>1, <3>2 DEF NodeOK, KindOK, ResultOK, Asking, Pending
    <3>4. Left(e) = 0 /\ Left(exec[m]) \in Nat
      BY <2>0, <3>2, LeftType DEF Left, Asking, NodeOK, LimitsOK
    <3>5. LimitsOK(m, e, asked[m])
      <4>1. e.iteration <= max_tool_iterations /\ LimitsOK(m, exec[m], asked[m])
        BY <2>0, <3>2 DEF NodeOK, LimitsOK
      <4>2. asked[m] + Left(e) <= asked[m] + Left(exec[m]) /\ e.pc # "idle" /\ e.pc # "tools"
        BY <2>0, <3>2, <3>4
      <4> QED BY <1>0, <2>0, <3>2, <4>1, <4>2, LimitsStep DEF RuntimeType
    <3> QED BY <3>1, <3>2, <3>3, <3>5 DEF NodeOK
  <2> QED BY <2>1, <2>2
<1> HIDE DEF gone
<1>3. DOMAIN exec' = Nodes
  BY <1>1
<1>4. exec' \in [Nodes -> Executions]
  <2>1. exec' = [m \in Nodes |-> exec'[m]]
    BY <1>1
  <2> QED BY <1>2, <2>1
<1>5. RuntimeType'
  BY <1>0, <1>1, <1>4 DEF RuntimeType
<1>6. ASSUME NEW m \in Nodes PROVE NodeOK(m, exec[m], result[m], asked[m])'
  BY <1>1, <1>2 DEF NodeOK, KindOK, LimitsOK, ResultOK, Left, AttemptsLeft
<1> QED BY <1>5, <1>6 DEF NodesInv

\* The steps of the cache alone leave the nodes as they are.
InCacheOnly == UNCHANGED <<shape, exec, result, spent, asked, answered, ran, dropped>>

LEMMA UnchangedNodes ==
    ASSUME NodesInv, InCacheOnly
    PROVE  NodesInv'
<1>1. RuntimeType'
  BY DEF NodesInv, RuntimeType, InCacheOnly
<1>2. ASSUME NEW m \in Nodes PROVE NodeOK(m, exec[m], result[m], asked[m])'
  BY DEF NodesInv, InCacheOnly, NodeOK, KindOK, LimitsOK, ResultOK, Left, AttemptsLeft
<1> QED BY <1>1, <1>2 DEF NodesInv

LEMMA CacheSteps ==
    ASSUME NEW n \in Nodes, BeginLookup(n) \/ BeginPut(n) \/ InCache(n)
    PROVE  InCacheOnly
BY DEF BeginLookup, BeginPut, InCache, InCacheOnly, history

\* What a step may be, in the order of the proofs.
LEMMA StepCases ==
    ASSUME NEW n \in Nodes, Step(n)
    PROVE  \/ GateDecides(n) \/ ControlPasses(n) \/ SubgraphBatch(n) \/ SubgraphStep(n)
           \/ AttemptBegins(n) \/ CheckQuota(n) \/ ProviderFails(n)
           \/ \E u \in shape.usages, calls \in shape.requests : ProviderAnswers(n, u, calls)
           \/ CacheMisses(n) \/ (\E u \in shape.usages : CacheHits(n, u))
           \/ EndPut(n) \/ RecordUsage(n) \/ RunTool(n) \/ NextRound(n)
           \/ InCacheOnly
BY CacheSteps DEF Step

LEMMA NodesNext == NodesInv /\ [Next]_vars => NodesInv'
<1> SUFFICES ASSUME NodesInv, [Next]_vars PROVE NodesInv'
  OBVIOUS
<1>1. CASE UNCHANGED vars
  BY <1>1, UnchangedNodes DEF vars, InCacheOnly
<1>2. ASSUME NEW l \in Labels, Expiry(l) PROVE NodesInv'
  BY <1>2, UnchangedNodes DEF Expiry, InCacheOnly, history
<1>3. ASSUME NEW n \in Nodes, Start(n) PROVE NodesInv'
  BY <1>3, EntersNodes DEF Start
<1>4. ASSUME NEW n \in Nodes, Drop(n) PROVE NodesInv'
  BY <1>4, DropNodes
<1>5. ASSUME NEW n \in Nodes, Step(n) PROVE NodesInv'
  BY <1>5, StepCases, GateAndControlNodes, SubgraphNodes, AttemptBeginsNodes, CheckQuotaNodes,
     ProviderNodes, RecordUsageNodes, ToolNodes, UnchangedNodes
<1> QED BY <1>1, <1>2, <1>3, <1>4, <1>5 DEF Next

-----------------------------------------------------------------------------
(* A subgraph and its nodes. *)

Succeeded(i) == exec[i].pc = "done" /\ result[i].state = "Succeeded"

\* A batch was ready when it was formed, and what it waited for has succeeded for good.
BatchesReady ==
    \A n \in Nodes : \A i \in exec[n].batch :
        /\ n \in shape.top /\ i \in shape.inner[n]
        /\ \A e \in shape.edges : e[2] = i => Succeeded(e[1])

StartedInOrder ==
    \A e \in shape.edges : exec[e[2]].pc \notin {"idle", "dropped"} => Succeeded(e[1])

\* A subgraph that succeeded has the usage of its nodes, which all succeeded; one
\* that did not has none.
SubgraphsReport ==
    \A n \in shape.top : shape.kind[n] = "subgraph" =>
        /\ result[n].state = "Succeeded" =>
              /\ \A i \in shape.inner[n] : Succeeded(i)
              /\ result[n].usage <= Total(Reported, shape.inner[n])
        /\ result[n].state # "Succeeded" => result[n].usage = 0

OrderInv == BatchesReady /\ StartedInOrder /\ SubgraphsReport

\* What has ended stays as it ended.
Settled == \A m \in Nodes : exec[m].pc = "done" => exec'[m] = exec[m] /\ result'[m] = result[m]

LEMMA EdgeEnds ==
    ASSUME shape \in Shapes, NEW e \in shape.edges
    PROVE  e[1] \in Nodes /\ e[2] \in Nodes \ shape.top
<1>1. PICK n \in shape.top : e \in shape.inner[n] \X shape.inner[n]
  BY ShapeFacts
<1>2. shape.inner[n] \subseteq Nodes \ shape.top
  BY ShapeFacts
<1> QED BY <1>1, <1>2

\* A step keeps the order when it only starts nodes of a batch, forms batches of
\* ready nodes, and lets a subgraph succeed when its nodes have.
LEMMA OrderKept ==
    ASSUME NodesInv, NodesInv', OrderInv, Settled, shape' = shape,
           \A m \in Nodes : \A i \in exec'[m].batch :
               i \in exec[m].batch
               \/ /\ m \in shape.top /\ i \in shape.inner[m]
                  /\ \A e \in shape.edges : e[2] = i => Succeeded(e[1]),
           \A i \in Nodes \ shape.top :
               exec[i].pc = "idle" /\ exec'[i].pc \notin {"idle", "dropped"} =>
                   \E m \in Nodes : i \in exec[m].batch,
           \A i \in Nodes : exec[i].pc = "dropped" => exec'[i].pc = "dropped",
           \A n \in shape.top : shape.kind[n] = "subgraph" /\ result'[n] # result[n] =>
               \/ /\ result'[n].state = "Succeeded" /\ \A i \in shape.inner[n] : Succeeded(i)
                  /\ result'[n].usage = Total(Reported, shape.inner[n])
               \/ result'[n].state # "Succeeded" /\ result'[n].usage = 0
    PROVE  OrderInv'
<1>0. /\ RuntimeType /\ RuntimeType' /\ shape \in Shapes /\ shape.top \subseteq Nodes
      /\ \A n \in shape.top : shape.inner[n] \subseteq Nodes
  BY ShapeFacts DEF NodesInv, RuntimeType
<1>1. \A m \in Nodes : Succeeded(m) => Succeeded(m)' /\ result'[m] = result[m]
  BY DEF Settled, Succeeded
<1>2. \A e \in shape.edges : e[1] \in Nodes /\ e[2] \in Nodes \ shape.top
  BY <1>0, EdgeEnds
<1>3. BatchesReady'
  BY <1>1, <1>2 DEF OrderInv, BatchesReady
<1>4. StartedInOrder'
  <2>1. ASSUME NEW e \in shape.edges, exec'[e[2]].pc \notin {"idle", "dropped"}
        PROVE  Succeeded(e[1])'
    <3>1. CASE exec[e[2]].pc \notin {"idle", "dropped"}
      BY <1>1, <1>2, <3>1 DEF OrderInv, StartedInOrder
    <3>2. CASE exec[e[2]].pc = "idle"
      <4>1. PICK m \in Nodes : e[2] \in exec[m].batch
        BY <1>2, <2>1, <3>2
      <4> QED BY <1>1, <1>2, <4>1 DEF OrderInv, BatchesReady
    <3>3. CASE exec[e[2]].pc = "dropped"
      BY <1>2, <2>1, <3>3
    <3> QED BY <3>1, <3>2, <3>3
  <2> QED BY <2>1 DEF StartedInOrder
<1>5. SubgraphsReport'
  <2>1. ASSUME NEW n \in shape.top, shape.kind[n] = "subgraph"
        PROVE  /\ result'[n].state = "Succeeded" =>
                     /\ \A i \in shape.inner[n] : Succeeded(i)'
                     /\ result'[n].usage <= Total(Reported', shape.inner[n])
               /\ result'[n].state # "Succeeded" => result'[n].usage = 0
    <3>0. /\ result'[n].state = "Succeeded" =>
                /\ \A i \in shape.inner[n] : Succeeded(i)
                /\ result'[n].usage <= Total(Reported, shape.inner[n])
          /\ result'[n].state # "Succeeded" => result'[n].usage = 0
      <4>1. CASE result'[n] = result[n]
        BY <2>1, <4>1 DEF OrderInv, SubgraphsReport
      <4>2. CASE result'[n] # result[n]
        <5>1. Total(Reported, shape.inner[n]) \in Nat
          BY <1>0, ReportedTotal
        <5> QED BY <2>1, <4>2, <5>1
      <4> QED BY <4>1, <4>2
    <3>1. CASE result'[n].state = "Succeeded"
      <4>1. \A i \in shape.inner[n] : Reported[i] = Reported'[i]
        BY <1>0, <1>1, <3>0, <3>1 DEF Reported
      <4>2. Total(Reported, shape.inner[n]) = Total(Reported', shape.inner[n])
        BY <4>1, SameUnits
      <4> QED BY <1>0, <1>1, <3>0, <3>1, <4>2
    <3> QED BY <3>0, <3>1
  <2> QED BY <2>1 DEF SubgraphsReport, Total, Units
<1> QED BY <1>3, <1>4, <1>5 DEF OrderInv

\* A step of a node that is neither entered nor a subgraph.
Plain(n) ==
    /\ exec[n].pc \notin {"idle", "done", "dropped", "subgraph"} /\ shape' = shape
    /\ \A m \in Nodes \ {n} : exec'[m] = exec[m] /\ result'[m] = result[m]
    /\ exec'[n].batch = exec[n].batch /\ exec'[n].pc \notin {"idle", "dropped"}

LEMMA PlainOrder ==
    ASSUME NodesInv, NodesInv', OrderInv, NEW n \in Nodes, Plain(n)
    PROVE  OrderInv'
<1>1. Settled /\ shape' = shape
  BY DEF Plain, Settled
<1>2. shape.kind[n] # "subgraph"
  BY DEF Plain, NodesInv, RuntimeType, NodeOK, KindOK, Executions, Places, Asking
<1>3. \A m \in Nodes : exec'[m].batch = exec[m].batch
  BY DEF Plain
<1>4. \A i \in Nodes : exec[i].pc \in {"idle", "dropped"} => exec'[i] = exec[i]
  BY DEF Plain
<1>5. \A m \in shape.top : shape.kind[m] = "subgraph" => result'[m] = result[m]
  <2>1. shape.top \subseteq Nodes
    BY ShapeFacts DEF NodesInv, RuntimeType
  <2> QED BY <1>2, <2>1 DEF Plain
<1> QED BY <1>1, <1>3, <1>4, <1>5, OrderKept

\* A step that writes the execution and perhaps the result of one node.
LEMMA OneWrites ==
    ASSUME NodesInv, NEW n \in Nodes, NEW e \in Executions,
           exec[n].pc \notin {"idle", "done", "dropped", "subgraph"},
           Set(n, e), shape' = shape, e.batch = exec[n].batch, e.pc \notin {"idle", "dropped"},
           \/ result' = result
           \/ \E r : result' = [result EXCEPT ![n] = r]
    PROVE  Plain(n)
<1>1. exec \in [Nodes -> Executions] /\ result \in [Nodes -> Results]
  BY DEF NodesInv, RuntimeType
<1>2. exec'[n] = e /\ \A m \in Nodes \ {n} : exec'[m] = exec[m]
  BY <1>1 DEF Set
<1>3. \A m \in Nodes \ {n} : result'[m] = result[m]
  BY <1>1
<1> QED BY <1>2, <1>3 DEF Plain

LEMMA EndsPlain ==
    ASSUME NodesInv, NEW n \in Nodes, NEW state, NEW u, Ends(n, state, u), shape' = shape,
           exec[n].pc \notin {"idle", "done", "dropped", "subgraph"}
    PROVE  Plain(n)
<1> DEFINE e == [exec[n] EXCEPT !.pc = "done"]
<1>1. exec[n] \in Executions
  BY DEF NodesInv, RuntimeType
<1>2. e \in Executions /\ e.pc = "done" /\ e.batch = exec[n].batch
  BY <1>1, Moved DEF Places
<1>3. Set(n, e) /\ \E r : result' = [result EXCEPT ![n] = r]
  BY DEF Ends
<1> HIDE DEF e
<1> QED BY <1>2, <1>3, OneWrites

LEMMA AttemptFailsPlain ==
    ASSUME NodesInv, NEW n \in Nodes, AttemptFails(n), shape' = shape, result' = result,
           exec[n].pc \notin {"idle", "done", "dropped", "subgraph"}
    PROVE  Plain(n)
<1> DEFINE e == [exec[n] EXCEPT !.pc = "attempt", !.calls = {}]
<1>1. exec[n] \in Executions
  BY DEF NodesInv, RuntimeType
<1>2. e \in Executions /\ e.pc = "attempt" /\ e.batch = exec[n].batch
  BY <1>1 DEF Executions, Places
<1>3. Set(n, e)
  BY DEF AttemptFails
<1> HIDE DEF e
<1> QED BY <1>2, <1>3, OneWrites

LEMMA MovesPlain ==
    ASSUME NodesInv, NEW n \in Nodes, NEW p \in Places \ {"idle", "dropped"},
           Set(n, [exec[n] EXCEPT !.pc = p]), shape' = shape, result' = result,
           exec[n].pc \notin {"idle", "done", "dropped", "subgraph"}
    PROVE  Plain(n)
<1> DEFINE e == [exec[n] EXCEPT !.pc = p]
<1>1. exec[n] \in Executions
  BY DEF NodesInv, RuntimeType
<1>2. e \in Executions /\ e.pc = p /\ e.batch = exec[n].batch
  BY <1>1, Moved
<1> HIDE DEF e
<1> QED BY <1>2, OneWrites DEF e

LEMMA PlainSteps ==
    ASSUME NodesInv, NEW n \in Nodes,
           \/ GateDecides(n) \/ ControlPasses(n) \/ AttemptBegins(n) \/ CheckQuota(n)
           \/ ProviderFails(n)
           \/ \E u \in shape.usages, calls \in shape.requests : ProviderAnswers(n, u, calls)
           \/ CacheMisses(n) \/ (\E u \in shape.usages : CacheHits(n, u))
           \/ EndPut(n) \/ RecordUsage(n) \/ RunTool(n) \/ NextRound(n)
    PROVE  Plain(n)
<1>0. exec[n] \in Executions /\ shape \in Shapes
  BY DEF NodesInv, RuntimeType
<1>1. shape.usages \subseteq Nat /\ shape.requests \subseteq SUBSET Tools
  BY <1>0, ShapeFacts
<1>2. CASE GateDecides(n)
  BY <1>2, EndsPlain DEF GateDecides
<1>3. CASE ControlPasses(n)
  BY <1>3, EndsPlain DEF ControlPasses
<1>4. CASE AttemptBegins(n)
  <2>1. CASE Fails(n)
    BY <1>4, <2>1, EndsPlain DEF AttemptBegins, Fails
  <2>2. CASE ~Fails(n)
    <3> DEFINE e == [exec[n] EXCEPT !.pc = "afford", !.iteration = 0,
                       !.attempts = IF exec[n].attempts > 0 THEN exec[n].attempts - 1 ELSE 0,
                       !.fallback = ~(exec[n].attempts > 0)]
    <3>1. Set(n, e) /\ result' = result /\ exec[n].pc = "attempt" /\ shape' = shape
      BY <1>4, <2>2 DEF AttemptBegins
    <3>2. e.pc = "afford" /\ e.batch = exec[n].batch
      BY <1>0, Zenon DEF Executions
    <3>3. exec'[n] = e /\ \A m \in Nodes \ {n} : exec'[m] = exec[m]
      <4>1. exec \in [Nodes -> Executions]
        BY DEF NodesInv, RuntimeType
      <4> HIDE DEF e
      <4> QED BY <3>1, <4>1 DEF Set
    <3> HIDE DEF e
    <3> QED BY <3>1, <3>2, <3>3 DEF Plain
  <2> QED BY <2>1, <2>2
<1>5. CASE CheckQuota(n)
  <2>1. exec[n].pc = "afford" /\ result' = result /\ shape' = shape
    BY <1>5 DEF CheckQuota
  <2>2. CASE can_afford(n)
    <3> DEFINE p == IF shape.cached THEN "lookup" ELSE "calling"
    <3>1. Set(n, [exec[n] EXCEPT !.pc = p]) /\ p \in Places \ {"idle", "dropped"}
      BY <1>5, <2>2 DEF CheckQuota, Places
    <3> HIDE DEF p
    <3> QED BY <2>1, <3>1, MovesPlain
  <2>3. CASE ~can_afford(n)
    BY <1>5, <2>1, <2>3, AttemptFailsPlain DEF CheckQuota
  <2> QED BY <2>2, <2>3
<1>6. CASE ProviderFails(n)
  BY <1>6, AttemptFailsPlain DEF ProviderFails
<1>7. ASSUME NEW u \in shape.usages, NEW calls \in shape.requests, ProviderAnswers(n, u, calls)
      PROVE  Plain(n)
  <2>1. PICK next \in {"recording", "storing"} :
               Set(n, [exec[n] EXCEPT !.pc = next, !.usage = u, !.calls = calls])
    BY <1>7 DEF ProviderAnswers
  <2> DEFINE e == [exec[n] EXCEPT !.pc = next, !.usage = u, !.calls = calls]
  <2>2. u \in Nat /\ calls \in SUBSET Tools /\ next \in Places
    BY <1>1 DEF Places
  <2>3. e \in Executions /\ e.pc = next /\ e.batch = exec[n].batch
    BY <1>0, <2>2 DEF Executions
  <2>4. exec[n].pc = "calling" /\ result' = result /\ shape' = shape /\ Set(n, e)
    BY <1>7, <2>1 DEF ProviderAnswers
  <2> HIDE DEF e
  <2> QED BY <2>3, <2>4, OneWrites
<1>8. CASE CacheMisses(n)
  <2>1. "calling" \in Places \ {"idle", "dropped"}
    BY DEF Places
  <2> QED BY <1>8, <2>1, MovesPlain DEF CacheMisses
<1>9. ASSUME NEW u \in shape.usages, CacheHits(n, u) PROVE Plain(n)
  <2> DEFINE e == [exec[n] EXCEPT !.pc = "recording", !.usage = u, !.calls = {}]
  <2>1. u \in Nat /\ {} \in SUBSET Tools /\ "recording" \in Places
    BY <1>1 DEF Places
  <2>2. e \in Executions /\ e.pc = "recording" /\ e.batch = exec[n].batch
    BY <1>0, <2>1 DEF Executions
  <2>3. exec[n].pc = "lookup" /\ result' = result /\ shape' = shape /\ Set(n, e)
    BY <1>9 DEF CacheHits
  <2> HIDE DEF e
  <2> QED BY <2>2, <2>3, OneWrites
<1>10. CASE EndPut(n)
  <2>1. "recording" \in Places \ {"idle", "dropped"}
    BY DEF Places
  <2> QED BY <1>10, <2>1, MovesPlain DEF EndPut
<1>11. CASE RecordUsage(n)
  <2>1. exec[n].pc = "recording" /\ AfterRecording(n) /\ shape' = shape
    BY <1>11 DEF RecordUsage
  <2>2. "tools" \in Places \ {"idle", "dropped"}
    BY DEF Places
  <2> QED BY <2>1, <2>2, EndsPlain, AttemptFailsPlain, MovesPlain DEF AfterRecording
<1>12. CASE RunTool(n)
  <2> DEFINE t == CHOOSE t \in exec[n].calls : TRUE
             e == [exec[n] EXCEPT !.calls = exec[n].calls \ {t}]
  <2>1. Set(n, e) /\ exec[n].pc = "tools" /\ result' = result /\ shape' = shape
    BY <1>12 DEF RunTool
  <2> HIDE DEF t
  <2>2. e \in Executions /\ e.pc = exec[n].pc /\ e.batch = exec[n].batch
    BY <1>0 DEF Executions
  <2> HIDE DEF e
  <2> QED BY <2>1, <2>2, OneWrites
<1>13. CASE NextRound(n)
  <2> DEFINE k == exec[n].iteration + 1
             e == [exec[n] EXCEPT !.pc = "afford", !.iteration = k]
  <2>1. Set(n, e) /\ exec[n].pc = "tools" /\ result' = result /\ shape' = shape
    BY <1>13 DEF NextRound
  <2>2. k \in Nat /\ "afford" \in Places
    BY <1>0 DEF Executions, Places
  <2> HIDE DEF k
  <2>3. e \in Executions /\ e.pc = "afford" /\ e.batch = exec[n].batch
    BY <1>0, <2>2 DEF Executions
  <2> HIDE DEF e
  <2> QED BY <2>1, <2>3, OneWrites
<1> QED BY <1>2, <1>3, <1>4, <1>5, <1>6, <1>7, <1>8, <1>9, <1>10, <1>11, <1>12, <1>13

LEMMA EnteredBatch == ASSUME NEW n \in Nodes PROVE Entered(n).batch = {}
BY DEF Entered, Fresh

LEMMA EntersOrder ==
    ASSUME NodesInv, NodesInv', OrderInv, NEW n \in Nodes, exec[n].pc = "idle",
           Set(n, Entered(n)), result' = result, shape' = shape,
           n \in shape.top \/ \E m \in Nodes : n \in exec[m].batch
    PROVE  OrderInv'
<1>1. exec \in [Nodes -> Executions]
  BY DEF NodesInv, RuntimeType
<1>2. /\ exec'[n] = Entered(n) /\ exec'[n].batch = {}
      /\ \A m \in Nodes \ {n} : exec'[m] = exec[m]
  BY <1>1, EnteredBatch DEF Set
<1>3. Settled
  BY <1>2 DEF Settled
<1>4. \A m \in Nodes : \A i \in exec'[m].batch : i \in exec[m].batch
  BY <1>2
<1>5. \A i \in Nodes \ shape.top :
         exec[i].pc = "idle" /\ exec'[i].pc \notin {"idle", "dropped"} =>
             \E m \in Nodes : i \in exec[m].batch
  BY <1>2
<1>6. \A i \in Nodes : exec[i].pc = "dropped" => exec'[i].pc = "dropped"
  BY <1>2
<1> QED BY <1>3, <1>4, <1>5, <1>6, OrderKept

\* A subgraph that takes its own step.
LEMMA SubgraphOrder ==
    ASSUME NodesInv, NodesInv', OrderInv, NEW n \in Nodes, exec[n].pc = "subgraph",
           NEW e, Set(n, e), shape' = shape,
           \A i \in e.batch : i \in exec[n].batch \/ i \in ReadyInner(n),
           \/ result' = result
           \/ \E state, u : /\ result' = [result EXCEPT ![n] = [state |-> state, usage |-> u]]
                            /\ \/ /\ state = "Succeeded" /\ Completed(n) = shape.inner[n]
                                  /\ u = Total(Reported, shape.inner[n])
                               \/ state = "Failed" /\ u = 0
    PROVE  OrderInv'
<1>1. exec \in [Nodes -> Executions] /\ result \in [Nodes -> Results] /\ shape \in Shapes
  BY DEF NodesInv, RuntimeType
<1>2. exec'[n] = e /\ \A m \in Nodes \ {n} : exec'[m] = exec[m] /\ result'[m] = result[m]
  BY <1>1 DEF Set
<1>3. n \in shape.top /\ ReadyInner(n) \subseteq shape.inner[n] /\ shape.top \subseteq Nodes
  BY <1>1, SubgraphFacts, ShapeFacts
<1>4. Settled
  BY <1>2 DEF Settled
<1>5. \A m \in Nodes : \A i \in exec'[m].batch :
         i \in exec[m].batch
         \/ /\ m \in shape.top /\ i \in shape.inner[m]
            /\ \A d \in shape.edges : d[2] = i => Succeeded(d[1])
  <2>1. ASSUME NEW i \in e.batch, i \in ReadyInner(n)
        PROVE  \A d \in shape.edges : d[2] = i => Succeeded(d[1])
    BY <2>1 DEF ReadyInner, Completed, Succeeded, Ended
  <2> QED BY <1>2, <1>3, <2>1
<1>6. \A i \in Nodes : exec[i].pc \in {"idle", "dropped"} => exec'[i] = exec[i]
  BY <1>2
<1>7. ASSUME NEW m \in shape.top, shape.kind[m] = "subgraph", result'[m] # result[m]
      PROVE  \/ /\ result'[m].state = "Succeeded" /\ \A i \in shape.inner[m] : Succeeded(i)
                /\ result'[m].usage = Total(Reported, shape.inner[m])
             \/ result'[m].state # "Succeeded" /\ result'[m].usage = 0
  <2>1. m = n
    BY <1>2, <1>3, <1>7
  <2>2. PICK state, u : /\ result' = [result EXCEPT ![n] = [state |-> state, usage |-> u]]
                        /\ \/ /\ state = "Succeeded" /\ Completed(n) = shape.inner[n]
                              /\ u = Total(Reported, shape.inner[n])
                           \/ state = "Failed" /\ u = 0
    BY <1>7
  <2>3. result'[n].state = state /\ result'[n].usage = u
    BY <1>1, <2>2
  <2>4. \A i \in Completed(n) : Succeeded(i)
    BY DEF Completed, Succeeded, Ended
  <2> QED BY <2>1, <2>2, <2>3, <2>4
<1> QED BY <1>4, <1>5, <1>6, <1>7, OrderKept

LEMMA SubgraphStepsOrder ==
    ASSUME NodesInv, NodesInv', OrderInv, NEW n \in Nodes, SubgraphBatch(n) \/ SubgraphStep(n)
    PROVE  OrderInv'
<1>0. exec[n].pc = "subgraph" /\ shape' = shape /\ exec[n] \in Executions
  BY DEF SubgraphBatch, SubgraphStep, NodesInv, RuntimeType
<1>1. [exec[n] EXCEPT !.pc = "done"].batch = exec[n].batch
  BY <1>0, Moved DEF Places
<1>2. ASSUME Fails(n) PROVE OrderInv'
  <2> DEFINE e == [exec[n] EXCEPT !.pc = "done"]
  <2>1. Set(n, e) /\ result' = [result EXCEPT ![n] = [state |-> "Failed", usage |-> 0]]
    BY <1>2 DEF Fails, Ends
  <2> HIDE DEF e
  <2>2. \E state, u : /\ result' = [result EXCEPT ![n] = [state |-> state, usage |-> u]]
                      /\ state = "Failed" /\ u = 0
    BY <2>1
  <2> QED BY <1>0, <1>1, <2>1, <2>2, SubgraphOrder DEF e
<1>3. ASSUME NEW b, Set(n, [exec[n] EXCEPT !.batch = b]), result' = result,
             \A i \in b : i \in exec[n].batch \/ i \in ReadyInner(n)
      PROVE  OrderInv'
  <2>1. [exec[n] EXCEPT !.batch = b].batch = b
    BY <1>0 DEF Executions
  <2> QED BY <1>0, <1>3, <2>1, SubgraphOrder
<1>4. CASE SubgraphBatch(n)
  <2>1. CASE Completed(n) = shape.inner[n]
    <3> DEFINE e == [exec[n] EXCEPT !.pc = "done"]
               u == Total(Reported, shape.inner[n])
    <3>1. Set(n, e) /\ result' = [result EXCEPT ![n] = [state |-> "Succeeded", usage |-> u]]
      BY <1>4, <2>1 DEF SubgraphBatch, Ends
    <3>2. u = Total(Reported, shape.inner[n])
      OBVIOUS
    <3>3. e.batch = exec[n].batch
      BY <1>1
    <3> HIDE DEF e, u
    <3> QED BY <1>0, <2>1, <3>1, <3>2, <3>3, SubgraphOrder
  <2>2. CASE Completed(n) # shape.inner[n] /\ ReadyInner(n) = {}
    BY <1>2, <1>4, <2>2 DEF SubgraphBatch
  <2>3. CASE Completed(n) # shape.inner[n] /\ ReadyInner(n) # {}
    BY <1>3, <1>4, <2>3 DEF SubgraphBatch
  <2> QED BY <2>1, <2>2, <2>3
<1>5. CASE SubgraphStep(n)
  <2> DEFINE i == First(exec[n].batch)
  <2>1. i \in exec[n].batch /\ i \in Nodes
    BY <1>0, <1>5, FirstInBatch DEF SubgraphStep, Executions
  <2>2. CASE exec[i].pc = "idle"
    <3>1. Set(i, Entered(i)) /\ result' = result
      BY <1>5, <2>2 DEF SubgraphStep, Ended
    <3> HIDE DEF i
    <3> QED BY <1>0, <2>1, <2>2, <3>1, EntersOrder
  <2>3. CASE Ended(i) /\ result[i].state = "Succeeded"
    <3>1. Set(n, [exec[n] EXCEPT !.batch = exec[n].batch \ {i}]) /\ result' = result
      BY <1>5, <2>3 DEF SubgraphStep, Ended
    <3> QED BY <1>3, <3>1
  <2>4. CASE Ended(i) /\ result[i].state = "Failed"
    BY <1>2, <1>5, <2>4 DEF SubgraphStep, Ended
  <2> QED BY <1>5, <2>2, <2>3, <2>4 DEF SubgraphStep
<1> QED BY <1>4, <1>5

LEMMA DropOrder ==
    ASSUME NodesInv, NodesInv', OrderInv, NEW n \in Nodes, Drop(n)
    PROVE  OrderInv'
<1> DEFINE gone(m) == m = n \/ (shape.kind[n] = "subgraph" /\ m \in shape.inner[n] /\ ~Ended(m))
<1>1. /\ exec[n].pc # "done" /\ shape' = shape /\ result' = result
      /\ exec' = [m \in Nodes |-> IF gone(m) THEN [exec[m] EXCEPT !.pc = "dropped"] ELSE exec[m]]
  BY DEF Drop
<1>2. \A m \in Nodes : exec[m] \in Executions
  BY DEF NodesInv, RuntimeType
<1>3. ASSUME NEW m \in Nodes
      PROVE  /\ exec'[m].batch = exec[m].batch
             /\ exec'[m] = exec[m] \/ (exec'[m].pc = "dropped" /\ exec[m].pc # "done")
  <2>1. /\ [exec[m] EXCEPT !.pc = "dropped"].pc = "dropped"
        /\ [exec[m] EXCEPT !.pc = "dropped"].batch = exec[m].batch
    BY <1>2, Moved DEF Places
  <2> QED BY <1>1, <2>1 DEF Ended
<1> HIDE DEF gone
<1>4. Settled
  BY <1>1, <1>3 DEF Settled
<1> QED BY <1>1, <1>3, <1>4, OrderKept

LEMMA OrderNext ==
    ASSUME NodesInv, NodesInv', OrderInv, [Next]_vars
    PROVE  OrderInv'
<1>1. ASSUME InCacheOnly PROVE OrderInv'
  <2>1. /\ shape' = shape /\ exec' = exec /\ result' = result
    BY <1>1 DEF InCacheOnly
  <2>2. Settled
    BY <2>1 DEF Settled
  <2> QED BY <2>1, <2>2, OrderKept
<1>2. CASE UNCHANGED vars
  BY <1>1, <1>2 DEF vars, InCacheOnly
<1>3. ASSUME NEW l \in Labels, Expiry(l) PROVE OrderInv'
  BY <1>1, <1>3 DEF Expiry, InCacheOnly, history
<1>4. ASSUME NEW n \in Nodes, Start(n) PROVE OrderInv'
  BY <1>4, EntersOrder DEF Start, Top
<1>5. ASSUME NEW n \in Nodes, Drop(n) PROVE OrderInv'
  BY <1>5, DropOrder
<1>6. ASSUME NEW n \in Nodes, Step(n) PROVE OrderInv'
  BY <1>1, <1>6, StepCases, SubgraphStepsOrder, PlainSteps, PlainOrder
<1> QED BY <1>2, <1>3, <1>4, <1>5, <1>6 DEF Next

LEMMA OrderInit == Init => OrderInv
<1> SUFFICES ASSUME Init PROVE OrderInv
  OBVIOUS
<1>1. /\ shape \in Shapes /\ \A n \in Nodes : exec[n].batch = {} /\ exec[n].pc = "idle"
      /\ \A n \in Nodes : result[n].state = "Pending" /\ result[n].usage = 0
  BY DEF Init, Fresh, Pending
<1>2. \A e \in shape.edges : e[2] \in Nodes
  BY <1>1, EdgeEnds
<1>3. shape.top \subseteq Nodes
  BY <1>1, ShapeFacts
<1> QED BY <1>1, <1>2, <1>3 DEF OrderInv, BatchesReady, StartedInOrder, SubgraphsReport

-----------------------------------------------------------------------------
(* Nothing runs that was not let through. *)

LEMMA ToolsNext ==
    ASSUME NodesInv, ToolsPermitted, [Next]_vars
    PROVE  ToolsPermitted'
<1>1. ASSUME ran' = ran, shape' = shape PROVE ToolsPermitted'
  BY <1>1 DEF ToolsPermitted, Top
<1>2. ASSUME NEW n \in Nodes, RunTool(n) PROVE ToolsPermitted'
  <2> DEFINE t == CHOOSE t \in exec[n].calls : TRUE
  <2>1. /\ ran' = [ran EXCEPT ![n] =
                     ran[n] \union ({t} \intersect tool_allowlist(n) \intersect Registered)]
        /\ shape' = shape
    BY <1>2 DEF RunTool
  <2> HIDE DEF t
  <2>2. ran \in [Nodes -> SUBSET Tools] /\ shape.top \subseteq Nodes
    BY ShapeFacts DEF NodesInv, RuntimeType
  <2>3. n \in shape.top => tool_allowlist(n) \subseteq Registered \intersect Permitted
    BY DEF tool_allowlist, Top
  <2> QED BY <2>1, <2>2, <2>3 DEF ToolsPermitted, Top
<1>3. ASSUME NEW n \in Nodes, Step(n), ~RunTool(n) PROVE ran' = ran /\ shape' = shape
  BY <1>3 DEF Step, GateDecides, ControlPasses, SubgraphBatch, SubgraphStep, AttemptBegins,
     CheckQuota, ProviderFails, ProviderAnswers, BeginLookup, CacheMisses, CacheHits, BeginPut,
     EndPut, InCache, RecordUsage, NextRound, history
<1>4. ASSUME NEW n \in Nodes, Start(n) \/ Drop(n) PROVE ran' = ran /\ shape' = shape
  BY <1>4 DEF Start, Drop, history
<1>5. ASSUME NEW l \in Labels, Expiry(l) PROVE ran' = ran /\ shape' = shape
  BY <1>5 DEF Expiry, history
<1>6. CASE UNCHANGED vars
  BY <1>1, <1>6 DEF vars
<1> QED BY <1>1, <1>2, <1>3, <1>4, <1>5, <1>6 DEF Next

LEMMA ToolsInit == Init => ToolsPermitted
<1> SUFFICES ASSUME Init PROVE ToolsPermitted
  OBVIOUS
<1>1. shape.top \subseteq Nodes /\ \A n \in Nodes : ran[n] = {}
  BY ShapeFacts DEF Init
<1> QED BY <1>1 DEF ToolsPermitted, Top

LEMMA InOrder == NodesInv /\ OrderInv => SubgraphInOrder
<1> SUFFICES ASSUME NodesInv, OrderInv PROVE SubgraphInOrder
  OBVIOUS
<1>1. shape \in Shapes
  BY DEF NodesInv, RuntimeType
<1>2. \A i \in Nodes : Succeeded(i) => /\ result[i].state = "Succeeded"
                                       /\ shape.kind[i] = "gate" => i \in shape.approved
                                       /\ shape.kind[i] = "llm" => asked[i] > 0
  BY DEF NodesInv, NodeOK, ResultOK, Succeeded
<1>3. \A e \in shape.edges : exec[e[2]].pc \notin {"idle", "dropped"} =>
          /\ result[e[1]].state = "Succeeded"
          /\ shape.kind[e[1]] = "gate" => e[1] \in shape.approved
  BY <1>1, <1>2, EdgeEnds DEF OrderInv, StartedInOrder
<1>4. \A n \in shape.top : shape.kind[n] = "subgraph" /\ result[n].state = "Succeeded" =>
          \A i \in shape.inner[n] : /\ result[i].state = "Succeeded"
                                    /\ shape.kind[i] = "llm" => asked[i] > 0
  BY <1>1, <1>2, ShapeFacts DEF OrderInv, SubgraphsReport
<1> QED BY <1>3, <1>4 DEF SubgraphInOrder, Top

\* Nothing runs that was not let through: no node of a subgraph before what it
\* depends on has succeeded or behind a gate that was not approved, no tool for a
\* node the host executes that is not registered and permitted, and no subgraph
\* succeeds without its nodes (lib.rs:393, 660; node_exec.rs:75).
THEOREM PermittedRuns == Spec => []OnlyPermittedRuns
<1> DEFINE Inv == NodesInv /\ OrderInv /\ ToolsPermitted
<1>1. Init => Inv
  BY NodesInit, OrderInit, ToolsInit
<1>2. Inv /\ [Next]_vars => Inv'
  BY NodesNext, OrderNext, ToolsNext
<1>3. Inv => OnlyPermittedRuns
  BY InOrder DEF OnlyPermittedRuns
<1> QED BY <1>1, <1>2, <1>3, PTL DEF Spec

-----------------------------------------------------------------------------
(* Usage. *)

\* Answers not yet recorded; what nodes other than subgraphs report; the nodes that
\* asked and have nothing in flight; and what the checks of the quota leave to spend.
Unrecorded == [n \in Nodes |-> IF exec[n].pc \in {"storing", "recording"} THEN exec[n].usage
                              ELSE 0]
Own == [n \in Nodes |-> IF shape.kind[n] = "subgraph" THEN 0 ELSE result[n].usage]
Through == {n \in Nodes : asked[n] > 0 /\ exec[n].pc \notin Asking}
Room == IF Quota >= Estimate THEN Quota - Estimate ELSE 0

MoneyInv ==
    /\ ~dropped => spent + Total(Unrecorded, Nodes) = Total(answered, Nodes)
    /\ Total(Own, Nodes) <= spent
    /\ spent <= Room + MostUsage * Cardinality(Through)

\* The three ways in which a step can bear on them: not at all, except that a node may
\* ask when there is room; an answer arrives; an answer is recorded.
QuietStep ==
    /\ shape' = shape /\ spent' = spent /\ answered' = answered
    /\ dropped' \/ (~dropped /\ \A m \in Nodes : Unrecorded'[m] = Unrecorded[m])
    /\ \A m \in Nodes : Own'[m] = Own[m]
    /\ Through \subseteq Through' \/ spent + Estimate <= Quota

AnswerStep(n, u) ==
    /\ shape' = shape /\ spent' = spent /\ dropped' = dropped
    /\ answered' = [answered EXCEPT ![n] = answered[n] + u]
    /\ Unrecorded[n] = 0 /\ Unrecorded'[n] = u
    /\ \A m \in Nodes \ {n} : Unrecorded'[m] = Unrecorded[m]
    /\ \A m \in Nodes : Own'[m] = Own[m]
    /\ Through \subseteq Through'

RecordStep(n) ==
    /\ shape' = shape /\ dropped' = dropped /\ answered' = answered
    /\ spent' = spent + Unrecorded[n] /\ Unrecorded[n] \in shape.usages /\ Unrecorded'[n] = 0
    /\ \A m \in Nodes \ {n} : Unrecorded'[m] = Unrecorded[m]
    /\ Own[n] = 0 /\ Own'[n] \in {0, Unrecorded[n]}
    /\ \A m \in Nodes \ {n} : Own'[m] = Own[m]
    /\ n \notin Through /\ Through \union {n} \subseteq Through'

\* A step that concerns one node and no money.
LEMMA QuietNode ==
    ASSUME NodesInv, NodesInv', NEW n \in Nodes, shape' = shape, spent' = spent,
           answered' = answered, dropped' = dropped, asked' = asked,
           \A m \in Nodes \ {n} : exec'[m] = exec[m] /\ result'[m] = result[m],
           exec[n].pc \notin {"storing", "recording", "done"},
           exec'[n].pc \notin {"storing", "recording"},
           exec[n].pc \in Asking \/ exec'[n].pc \notin Asking,
           shape.kind[n] = "subgraph" \/ result'[n].usage = 0
    PROVE  QuietStep
<1>1. result[n].usage = 0
  BY DEF NodesInv, NodeOK, ResultOK, Pending
<1>2. \A m \in Nodes : Unrecorded'[m] = Unrecorded[m]
  BY DEF Unrecorded
<1>3. \A m \in Nodes : Own'[m] = Own[m]
  BY <1>1 DEF Own
<1>4. Through \subseteq Through'
  BY DEF Through
<1>5. dropped \in BOOLEAN
  BY DEF NodesInv, RuntimeType
<1> QED BY <1>2, <1>3, <1>4, <1>5 DEF QuietStep

LEMMA EndsAt ==
    ASSUME NodesInv, NEW n \in Nodes, NEW state, NEW u, Ends(n, state, u)
    PROVE  exec'[n].pc = "done" /\ result'[n].usage = u
<1>1. exec \in [Nodes -> Executions] /\ result \in [Nodes -> Results] /\ exec[n] \in Executions
  BY DEF NodesInv, RuntimeType
<1>2. exec'[n] = [exec[n] EXCEPT !.pc = "done"] /\ result'[n] = [state |-> state, usage |-> u]
  BY <1>1 DEF Ends, Set
<1> QED BY <1>1, <1>2, Moved DEF Places

LEMMA MovesTo ==
    ASSUME NodesInv, NEW n \in Nodes, NEW p \in Places, Set(n, [exec[n] EXCEPT !.pc = p])
    PROVE  exec'[n].pc = p /\ exec'[n].usage = exec[n].usage
<1>1. exec \in [Nodes -> Executions] /\ exec[n] \in Executions
  BY DEF NodesInv, RuntimeType
<1>2. exec'[n] = [exec[n] EXCEPT !.pc = p]
  BY <1>1 DEF Set
<1> QED BY <1>1, <1>2, Moved

LEMMA FailsTo ==
    ASSUME NodesInv, NEW n \in Nodes, AttemptFails(n)
    PROVE  exec'[n].pc = "attempt"
<1>1. exec \in [Nodes -> Executions] /\ exec[n] \in Executions
  BY DEF NodesInv, RuntimeType
<1>2. exec'[n] = [exec[n] EXCEPT !.pc = "attempt", !.calls = {}]
  BY <1>1 DEF AttemptFails, Set
<1> QED BY <1>1, <1>2 DEF Executions

LEMMA HoldsAt ==
    ASSUME NodesInv, NEW n \in Nodes, NEW p, NEW u, NEW c,
           Set(n, [exec[n] EXCEPT !.pc = p, !.usage = u, !.calls = c])
    PROVE  exec'[n].pc = p /\ exec'[n].usage = u
<1>1. exec \in [Nodes -> Executions] /\ exec[n] \in Executions
  BY DEF NodesInv, RuntimeType
<1>2. exec'[n] = [exec[n] EXCEPT !.pc = p, !.usage = u, !.calls = c]
  BY <1>1 DEF Set
<1> QED BY <1>1, <1>2 DEF Executions

\* The frame of a plain step.
LEMMA PlainFrame ==
    ASSUME NEW n \in Nodes, Plain(n)
    PROVE  /\ shape' = shape
           /\ \A m \in Nodes \ {n} : exec'[m] = exec[m] /\ result'[m] = result[m]
           /\ exec[n].pc # "done"
BY DEF Plain

LEMMA UnendedUsage ==
    ASSUME NodesInv, NEW n \in Nodes, exec[n].pc # "done"
    PROVE  result[n].usage = 0
BY DEF NodesInv, NodeOK, ResultOK, Pending

LEMMA QuietPlain ==
    ASSUME NodesInv, NodesInv', NEW n \in Nodes,
           \/ GateDecides(n) \/ ControlPasses(n) \/ AttemptBegins(n)
           \/ ProviderFails(n) \/ CacheMisses(n) \/ RunTool(n) \/ NextRound(n)
    PROVE  QuietStep
<1>1. Plain(n)
  BY PlainSteps
<1>2. /\ shape' = shape /\ exec[n].pc # "done"
      /\ \A m \in Nodes \ {n} : exec'[m] = exec[m] /\ result'[m] = result[m]
  BY <1>1, PlainFrame
<1>3. spent' = spent /\ answered' = answered /\ dropped' = dropped /\ asked' = asked
  BY DEF GateDecides, ControlPasses, AttemptBegins, ProviderFails, CacheMisses, RunTool,
     NextRound, history
<1>4. result[n].usage = 0
  BY <1>2, UnendedUsage
<1>5. exec \in [Nodes -> Executions] /\ exec[n] \in Executions
  BY DEF NodesInv, RuntimeType
<1>6. CASE GateDecides(n) \/ ControlPasses(n)
  <2>1. /\ exec[n].pc \in {"gate", "control"} /\ exec'[n].pc = "done" /\ result'[n].usage = 0
    BY <1>6, EndsAt DEF GateDecides, ControlPasses
  <2> QED BY <1>2, <1>3, <2>1, QuietNode DEF Asking
<1>7. CASE AttemptBegins(n)
  <2>0. exec[n].pc = "attempt"
    BY <1>7 DEF AttemptBegins
  <2>1. CASE Fails(n)
    <3>1. exec'[n].pc = "done" /\ result'[n].usage = 0
      BY <2>1, EndsAt DEF Fails
    <3> QED BY <1>2, <1>3, <2>0, <3>1, QuietNode DEF Asking
  <2>2. CASE ~Fails(n)
    <3> DEFINE e == [exec[n] EXCEPT !.pc = "afford", !.iteration = 0,
                       !.attempts = IF exec[n].attempts > 0 THEN exec[n].attempts - 1 ELSE 0,
                       !.fallback = ~(exec[n].attempts > 0)]
    <3>1. Set(n, e) /\ result' = result
      BY <1>7, <2>2 DEF AttemptBegins
    <3>2. e.pc = "afford"
      BY <1>5, Zenon DEF Executions
    <3>3. exec'[n] = e
      <4> HIDE DEF e
      <4> QED BY <1>5, <3>1 DEF Set
    <3>4. exec'[n].pc = "afford" /\ result'[n].usage = 0
      <4> HIDE DEF e
      <4> QED BY <1>4, <3>1, <3>2, <3>3
    <3> QED BY <1>2, <1>3, <2>0, <3>4, QuietNode DEF Asking
  <2> QED BY <2>1, <2>2
<1>8. CASE ProviderFails(n)
  <2>1. exec[n].pc = "calling" /\ exec'[n].pc = "attempt" /\ result' = result
    BY <1>8, FailsTo DEF ProviderFails
  <2> QED BY <1>2, <1>3, <1>4, <2>1, QuietNode DEF Asking
<1>9. CASE CacheMisses(n)
  <2>1. exec[n].pc = "lookup" /\ exec'[n].pc = "calling" /\ result' = result
    BY <1>9, MovesTo DEF CacheMisses, Places
  <2> QED BY <1>2, <1>3, <1>4, <2>1, QuietNode DEF Asking
<1>10. CASE RunTool(n)
  <2> DEFINE t == CHOOSE t \in exec[n].calls : TRUE
             e == [exec[n] EXCEPT !.calls = exec[n].calls \ {t}]
  <2>1. Set(n, e) /\ exec[n].pc = "tools" /\ result' = result
    BY <1>10 DEF RunTool
  <2> HIDE DEF t
  <2>2. e.pc = exec[n].pc
    BY <1>5 DEF Executions
  <2> HIDE DEF e
  <2>3. exec'[n].pc = "tools"
    BY <1>5, <2>1, <2>2 DEF Set
  <2> QED BY <1>2, <1>3, <1>4, <2>1, <2>3, QuietNode DEF Asking
<1>11. CASE NextRound(n)
  <2> DEFINE k == exec[n].iteration + 1
             e == [exec[n] EXCEPT !.pc = "afford", !.iteration = k]
  <2>1. Set(n, e) /\ exec[n].pc = "tools" /\ result' = result
    BY <1>11 DEF NextRound
  <2> HIDE DEF k
  <2>2. e.pc = "afford"
    BY <1>5 DEF Executions
  <2> HIDE DEF e
  <2>3. exec'[n].pc = "afford"
    BY <1>5, <2>1, <2>2 DEF Set
  <2> QED BY <1>2, <1>3, <1>4, <2>1, <2>3, QuietNode DEF Asking
<1> QED BY <1>6, <1>7, <1>8, <1>9, <1>10, <1>11

LEMMA CheckQuotaMoney ==
    ASSUME NodesInv, NodesInv', NEW n \in Nodes, CheckQuota(n)
    PROVE  QuietStep
<1>1. Plain(n)
  BY PlainSteps
<1>2. /\ shape' = shape /\ exec[n].pc = "afford" /\ result' = result
      /\ \A m \in Nodes \ {n} : exec'[m] = exec[m]
      /\ spent' = spent /\ answered' = answered /\ dropped' = dropped
  BY <1>1, PlainFrame DEF CheckQuota
<1>3. CASE can_afford(n)
  <2> DEFINE p == IF shape.cached THEN "lookup" ELSE "calling"
  <2>1. Set(n, [exec[n] EXCEPT !.pc = p]) /\ p \in {"lookup", "calling"}
    BY <1>3 DEF CheckQuota
  <2> HIDE DEF p
  <2>2. exec'[n].pc = p
    BY <2>1, MovesTo DEF Places
  <2>3. \A m \in Nodes : Unrecorded'[m] = Unrecorded[m]
    BY <1>2, <2>1, <2>2 DEF Unrecorded
  <2>4. \A m \in Nodes : Own'[m] = Own[m]
    BY <1>2 DEF Own
  <2>5. dropped \in BOOLEAN
    BY DEF NodesInv, RuntimeType
  <2> QED BY <1>2, <1>3, <2>3, <2>4, <2>5 DEF QuietStep, can_afford
<1>4. CASE ~can_afford(n)
  <2>1. AttemptFails(n) /\ asked' = [asked EXCEPT ![n] = asked[n]]
    BY <1>4 DEF CheckQuota
  <2>2. asked' = asked
    BY <2>1, SameFunction DEF NodesInv, RuntimeType
  <2>3. exec'[n].pc = "attempt" /\ result[n].usage = 0
    BY <1>2, <2>1, FailsTo, UnendedUsage
  <2> QED BY <1>2, <2>2, <2>3, QuietNode DEF Asking
<1> QED BY <1>3, <1>4

LEMMA EndPutMoney ==
    ASSUME NodesInv, NodesInv', NEW n \in Nodes, EndPut(n)
    PROVE  QuietStep
<1>1. Plain(n)
  BY PlainSteps
<1>2. /\ shape' = shape /\ exec[n].pc = "storing" /\ result' = result
      /\ \A m \in Nodes \ {n} : exec'[m] = exec[m]
      /\ spent' = spent /\ answered' = answered /\ dropped' = dropped /\ asked' = asked
  BY <1>1, PlainFrame DEF EndPut, history
<1>3. exec'[n].pc = "recording" /\ exec'[n].usage = exec[n].usage
  BY MovesTo DEF EndPut, Places
<1>4. \A m \in Nodes : Unrecorded'[m] = Unrecorded[m]
  BY <1>2, <1>3 DEF Unrecorded
<1>5. \A m \in Nodes : Own'[m] = Own[m]
  BY <1>2 DEF Own
<1>6. Through \subseteq Through'
  BY <1>2 DEF Through, Asking
<1>7. dropped \in BOOLEAN
  BY DEF NodesInv, RuntimeType
<1> QED BY <1>2, <1>4, <1>5, <1>6, <1>7 DEF QuietStep

LEMMA AnswerMoney ==
    ASSUME NodesInv, NodesInv', NEW n \in Nodes, NEW u \in shape.usages,
           \/ CacheHits(n, u)
           \/ \E calls \in shape.requests : ProviderAnswers(n, u, calls)
    PROVE  AnswerStep(n, u)
<1>1. Plain(n)
  BY PlainSteps
<1>2. /\ shape' = shape /\ exec[n].pc \in {"lookup", "calling"} /\ result' = result
      /\ \A m \in Nodes \ {n} : exec'[m] = exec[m]
      /\ spent' = spent /\ dropped' = dropped /\ asked' = asked
      /\ answered' = [answered EXCEPT ![n] = answered[n] + u]
  BY <1>1, PlainFrame DEF ProviderAnswers, CacheHits
<1>3. exec'[n].pc \in {"storing", "recording"} /\ exec'[n].usage = u
  <2>1. CASE CacheHits(n, u)
    BY <2>1, HoldsAt DEF CacheHits
  <2>2. ASSUME NEW calls \in shape.requests, ProviderAnswers(n, u, calls)
        PROVE  exec'[n].pc \in {"storing", "recording"} /\ exec'[n].usage = u
    <3>1. PICK next \in {"recording", "storing"} :
                 Set(n, [exec[n] EXCEPT !.pc = next, !.usage = u, !.calls = calls])
      BY <2>2 DEF ProviderAnswers
    <3> QED BY <3>1, HoldsAt
  <2> QED BY <2>1, <2>2
<1>4. Unrecorded[n] = 0 /\ Unrecorded'[n] = u
  BY <1>2, <1>3 DEF Unrecorded
<1>5. \A m \in Nodes \ {n} : Unrecorded'[m] = Unrecorded[m]
  BY <1>2 DEF Unrecorded
<1>6. \A m \in Nodes : Own'[m] = Own[m]
  BY <1>2 DEF Own
<1>7. Through \subseteq Through'
  BY <1>2 DEF Through, Asking
<1> QED BY <1>2, <1>4, <1>5, <1>6, <1>7 DEF AnswerStep

LEMMA RecordMoney ==
    ASSUME NodesInv, NodesInv', NEW n \in Nodes, RecordUsage(n)
    PROVE  RecordStep(n)
<1>1. Plain(n)
  BY PlainSteps
<1>2. /\ shape' = shape /\ exec[n].pc = "recording" /\ AfterRecording(n)
      /\ \A m \in Nodes \ {n} : exec'[m] = exec[m] /\ result'[m] = result[m]
      /\ spent' = spent + exec[n].usage /\ answered' = answered /\ dropped' = dropped
      /\ asked' = asked
  BY <1>1, PlainFrame DEF RecordUsage, history
<1>3. result[n].usage = 0
  BY <1>2, UnendedUsage
<1>4. exec[n].usage \in shape.usages /\ asked[n] > 0
  BY <1>2 DEF NodesInv, NodeOK, ResultOK, Asking
<1>5. exec'[n].pc \in {"done", "attempt", "tools"} /\ result'[n].usage \in {0, exec[n].usage}
  <2>1. CASE Ends(n, "Succeeded", exec[n].usage)
    BY <2>1, EndsAt
  <2>2. CASE AttemptFails(n) /\ result' = result
    BY <1>3, <2>2, FailsTo
  <2>3. CASE Set(n, [exec[n] EXCEPT !.pc = "tools"]) /\ result' = result
    BY <1>3, <2>3, MovesTo DEF Places
  <2> QED BY <1>2, <2>1, <2>2, <2>3 DEF AfterRecording
<1>6. /\ Unrecorded[n] = exec[n].usage /\ Unrecorded'[n] = 0
      /\ \A m \in Nodes \ {n} : Unrecorded'[m] = Unrecorded[m]
  BY <1>2, <1>5 DEF Unrecorded
<1>7. /\ Own[n] = 0 /\ Own'[n] \in {0, exec[n].usage}
      /\ \A m \in Nodes \ {n} : Own'[m] = Own[m]
  BY <1>2, <1>3, <1>5 DEF Own
<1>8. n \notin Through /\ Through \union {n} \subseteq Through'
  BY <1>2, <1>4, <1>5 DEF Through, Asking
<1> QED BY <1>2, <1>4, <1>6, <1>7, <1>8 DEF RecordStep

LEMMA InCacheMoney ==
    ASSUME NodesInv, InCacheOnly
    PROVE  QuietStep
<1>1. /\ shape' = shape /\ exec' = exec /\ result' = result /\ asked' = asked
      /\ spent' = spent /\ answered' = answered /\ dropped' = dropped
  BY DEF InCacheOnly
<1>2. \A m \in Nodes : Unrecorded'[m] = Unrecorded[m] /\ Own'[m] = Own[m]
  BY <1>1 DEF Unrecorded, Own
<1>3. Through \subseteq Through' /\ dropped \in BOOLEAN
  BY <1>1 DEF Through, NodesInv, RuntimeType
<1> QED BY <1>1, <1>2, <1>3 DEF QuietStep

LEMMA EntersMoney ==
    ASSUME NodesInv, NodesInv', NEW n \in Nodes, exec[n].pc = "idle", Set(n, Entered(n)),
           UNCHANGED <<shape, result, spent, history>>
    PROVE  QuietStep
<1>1. exec \in [Nodes -> Executions] /\ shape.kind[n] \in Kinds
  BY ShapeFacts DEF NodesInv, RuntimeType
<1>2. exec'[n] = Entered(n) /\ \A m \in Nodes \ {n} : exec'[m] = exec[m]
  BY <1>1 DEF Set
<1>3. exec'[n].pc \in {"attempt", "gate", "control", "subgraph"}
  BY <1>1, <1>2 DEF Entered, Fresh, Kinds
<1>4. result[n].usage = 0
  BY UnendedUsage
<1>5. /\ shape' = shape /\ spent' = spent /\ answered' = answered /\ dropped' = dropped
      /\ asked' = asked /\ result' = result
  BY DEF history
<1> QED BY <1>2, <1>3, <1>4, <1>5, QuietNode DEF Asking

LEMMA SubgraphMoney ==
    ASSUME NodesInv, NodesInv', NEW n \in Nodes, SubgraphBatch(n) \/ SubgraphStep(n)
    PROVE  QuietStep
<1>0. /\ exec[n].pc = "subgraph" /\ UNCHANGED <<shape, spent, history>>
      /\ shape' = shape /\ spent' = spent /\ answered' = answered /\ dropped' = dropped
      /\ asked' = asked /\ exec[n] \in Executions /\ exec \in [Nodes -> Executions]
      /\ result \in [Nodes -> Results]
  BY DEF SubgraphBatch, SubgraphStep, NodesInv, RuntimeType, history
<1>1. shape.kind[n] = "subgraph"
  BY <1>0, SubgraphFacts
<1>2. ASSUME NEW state, NEW u, Ends(n, state, u) PROVE QuietStep
  <2>1. /\ exec'[n].pc = "done"
        /\ \A m \in Nodes \ {n} : exec'[m] = exec[m] /\ result'[m] = result[m]
    BY <1>0, <1>2, EndsAt DEF Ends, Set
  <2> QED BY <1>0, <1>1, <2>1, QuietNode DEF Asking
<1>3. ASSUME NEW b, Set(n, [exec[n] EXCEPT !.batch = b]), result' = result PROVE QuietStep
  <2> DEFINE e == [exec[n] EXCEPT !.batch = b]
  <2>1. e.pc = "subgraph"
    BY <1>0 DEF Executions
  <2> HIDE DEF e
  <2>2. exec'[n] = e /\ \A m \in Nodes \ {n} : exec'[m] = exec[m]
    BY <1>0, <1>3 DEF Set, e
  <2> QED BY <1>0, <1>1, <1>3, <2>1, <2>2, QuietNode DEF Asking
<1>4. CASE SubgraphBatch(n)
  BY <1>2, <1>3, <1>4 DEF SubgraphBatch, Fails
<1>5. CASE SubgraphStep(n)
  <2> DEFINE i == First(exec[n].batch)
  <2>1. i \in Nodes
    BY <1>0, <1>5, FirstInBatch DEF SubgraphStep, Executions
  <2>2. CASE exec[i].pc = "idle"
    <3>1. Set(i, Entered(i)) /\ UNCHANGED <<shape, result, spent, history>>
      BY <1>5, <2>2 DEF SubgraphStep, Ended
    <3> HIDE DEF i
    <3> QED BY <2>1, <2>2, <3>1, EntersMoney
  <2>3. CASE exec[i].pc # "idle"
    BY <1>2, <1>3, <1>5, <2>3 DEF SubgraphStep, Fails, Ended
  <2> QED BY <2>2, <2>3
<1> QED BY <1>4, <1>5

LEMMA DropMoney ==
    ASSUME NodesInv, NodesInv', NEW n \in Nodes, Drop(n)
    PROVE  QuietStep
<1> DEFINE gone(m) == m = n \/ (shape.kind[n] = "subgraph" /\ m \in shape.inner[n] /\ ~Ended(m))
<1>1. /\ dropped' = TRUE /\ shape' = shape /\ result' = result /\ spent' = spent
      /\ asked' = asked /\ answered' = answered
      /\ exec' = [m \in Nodes |-> IF gone(m) THEN [exec[m] EXCEPT !.pc = "dropped"] ELSE exec[m]]
  BY DEF Drop
<1>2. \A m \in Nodes : [exec[m] EXCEPT !.pc = "dropped"].pc = "dropped"
  BY Moved DEF NodesInv, RuntimeType, Places
<1> HIDE DEF gone
<1>3. \A m \in Nodes : exec'[m] = exec[m] \/ exec'[m].pc = "dropped"
  BY <1>1, <1>2
<1>4. Through \subseteq Through'
  BY <1>1, <1>3 DEF Through, Asking
<1>5. \A m \in Nodes : Own'[m] = Own[m]
  BY <1>1 DEF Own
<1> QED BY <1>1, <1>4, <1>5 DEF QuietStep

\* Every step is one of the three.
LEMMA MoneyCases ==
    ASSUME NodesInv, NodesInv', [Next]_vars
    PROVE  \/ QuietStep
           \/ \E n \in Nodes, u \in shape.usages : AnswerStep(n, u)
           \/ \E n \in Nodes : RecordStep(n)
<1>1. CASE UNCHANGED vars
  BY <1>1, InCacheMoney DEF vars, InCacheOnly
<1>2. ASSUME NEW l \in Labels, Expiry(l) PROVE QuietStep
  BY <1>2, InCacheMoney DEF Expiry, InCacheOnly, history
<1>3. ASSUME NEW n \in Nodes, Start(n) PROVE QuietStep
  BY <1>3, EntersMoney DEF Start
<1>4. ASSUME NEW n \in Nodes, Drop(n) PROVE QuietStep
  BY <1>4, DropMoney
<1>5. ASSUME NEW n \in Nodes, Step(n)
      PROVE  \/ QuietStep
             \/ \E u \in shape.usages : AnswerStep(n, u)
             \/ RecordStep(n)
  BY <1>5, StepCases, QuietPlain, CheckQuotaMoney, EndPutMoney, AnswerMoney, RecordMoney,
     SubgraphMoney, InCacheMoney
<1> QED BY <1>1, <1>2, <1>3, <1>4, <1>5 DEF Next

LEMMA MoneyTypes ==
    ASSUME RuntimeType
    PROVE  \A m \in Nodes : Unrecorded[m] \in Nat /\ Own[m] \in Nat /\ answered[m] \in Nat
BY DEF RuntimeType, Executions, Results, Unrecorded, Own

LEMMA MoneyTypesNext ==
    ASSUME RuntimeType'
    PROVE  \A m \in Nodes : Unrecorded'[m] \in Nat /\ Own'[m] \in Nat /\ answered'[m] \in Nat
BY DEF RuntimeType, Executions, Results, Unrecorded, Own

LEMMA MoneySums ==
    ASSUME RuntimeType
    PROVE  /\ Total(Unrecorded, Nodes) \in Nat /\ Total(Own, Nodes) \in Nat
           /\ Total(answered, Nodes) \in Nat
BY MoneyTypes, UnitsFinite

LEMMA MostUsageFacts ==
    ASSUME shape \in Shapes
    PROVE  MostUsage \in Nat /\ \A u \in shape.usages : u <= MostUsage
<1>1. shape.usages \subseteq Nat /\ \E u \in shape.usages : \A v \in shape.usages : v <= u
  BY ShapeFacts
<1> QED BY <1>1 DEF MostUsage

LEMMA ThroughFinite == ASSUME NEW S \in SUBSET Nodes PROVE IsFiniteSet(S) /\ Cardinality(S) \in Nat
BY ConstantFacts, FS_Subset, FS_CardinalityType

\* The primes of the sums.
LEMMA PrimedSums ==
    ASSUME TRUE
    PROVE  /\ Total(Unrecorded, Nodes)' = Total(Unrecorded', Nodes)
           /\ Total(Own, Nodes)' = Total(Own', Nodes)
           /\ Total(answered, Nodes)' = Total(answered', Nodes)
BY DEF Total, Units

LEMMA ChargedNext ==
    ASSUME RuntimeType, RuntimeType', MoneyInv, shape.usages \subseteq Nat,
           \/ QuietStep
           \/ \E n \in Nodes, u \in shape.usages : AnswerStep(n, u)
           \/ \E n \in Nodes : RecordStep(n)
    PROVE  ~dropped' => spent' + Total(Unrecorded', Nodes) = Total(answered', Nodes)
<1> SUFFICES ASSUME ~dropped'
             PROVE  spent' + Total(Unrecorded', Nodes) = Total(answered', Nodes)
  OBVIOUS
<1>0. /\ spent \in Nat /\ Total(Unrecorded, Nodes) \in Nat /\ Total(answered, Nodes) \in Nat
      /\ \A m \in Nodes : Unrecorded[m] \in Nat /\ answered[m] \in Nat
      /\ \A m \in Nodes : Unrecorded'[m] \in Nat /\ answered'[m] \in Nat
      /\ answered \in [Nodes -> Nat] /\ Nodes \in SUBSET Nodes
  BY MoneySums, MoneyTypes, MoneyTypesNext DEF RuntimeType
<1>00. Total(Unrecorded', Nodes) \in Nat /\ Total(answered', Nodes) \in Nat
  BY <1>0, UnitsFinite
<1>1. CASE QuietStep
  <2>1. /\ ~dropped /\ spent' = spent /\ answered' = answered
        /\ \A m \in Nodes : Unrecorded'[m] = Unrecorded[m]
    BY <1>1 DEF QuietStep
  <2>2. Total(Unrecorded', Nodes) = Total(Unrecorded, Nodes)
    BY <2>1, SameUnits
  <2> QED BY <2>1, <2>2 DEF MoneyInv
<1>2. ASSUME NEW n \in Nodes, NEW u \in shape.usages, AnswerStep(n, u)
      PROVE  spent' + Total(Unrecorded', Nodes) = Total(answered', Nodes)
  <2>1. /\ ~dropped /\ spent' = spent /\ Unrecorded[n] = 0 /\ Unrecorded'[n] = u
        /\ \A m \in Nodes \ {n} : Unrecorded[m] = Unrecorded'[m]
        /\ answered' = [answered EXCEPT ![n] = answered[n] + u] /\ u \in Nat
    BY <1>2 DEF AnswerStep
  <2>2. answered'[n] = answered[n] + u /\ \A m \in Nodes \ {n} : answered[m] = answered'[m]
    BY <1>0, <2>1
  <2>3. Total(Unrecorded', Nodes) + Unrecorded[n] = Total(Unrecorded, Nodes) + Unrecorded'[n]
    BY <1>0, <2>1, TotalChanged
  <2>4. Total(answered', Nodes) + answered[n] = Total(answered, Nodes) + answered'[n]
    BY <1>0, <2>2, TotalChanged
  <2>5. spent + Total(Unrecorded, Nodes) = Total(answered, Nodes)
    BY <2>1 DEF MoneyInv
  <2> QED BY <1>0, <1>00, <2>1, <2>2, <2>3, <2>4, <2>5
<1>3. ASSUME NEW n \in Nodes, RecordStep(n)
      PROVE  spent' + Total(Unrecorded', Nodes) = Total(answered', Nodes)
  <2>1. /\ ~dropped /\ spent' = spent + Unrecorded[n] /\ Unrecorded'[n] = 0
        /\ \A m \in Nodes \ {n} : Unrecorded[m] = Unrecorded'[m] /\ answered' = answered
        /\ answered' = answered
    BY <1>3 DEF RecordStep
  <2>2. Total(Unrecorded', Nodes) + Unrecorded[n] = Total(Unrecorded, Nodes) + Unrecorded'[n]
    BY <1>0, <2>1, TotalChanged
  <2>3. spent + Total(Unrecorded, Nodes) = Total(answered, Nodes)
    BY <2>1 DEF MoneyInv
  <2> QED BY <1>0, <1>00, <2>1, <2>2, <2>3
<1> QED BY <1>1, <1>2, <1>3

LEMMA OwnNext ==
    ASSUME RuntimeType, RuntimeType', MoneyInv, shape.usages \subseteq Nat,
           \/ QuietStep
           \/ \E n \in Nodes, u \in shape.usages : AnswerStep(n, u)
           \/ \E n \in Nodes : RecordStep(n)
    PROVE  Total(Own', Nodes) <= spent'
<1>0. /\ spent \in Nat /\ Total(Own, Nodes) \in Nat /\ Total(Own, Nodes) <= spent
      /\ \A m \in Nodes : Own[m] \in Nat /\ Own'[m] \in Nat /\ Unrecorded[m] \in Nat
      /\ Nodes \in SUBSET Nodes
  BY MoneySums, MoneyTypes, MoneyTypesNext DEF RuntimeType, MoneyInv
<1>00. Total(Own', Nodes) \in Nat
  BY <1>0, UnitsFinite
<1>1. CASE QuietStep \/ \E n \in Nodes, u \in shape.usages : AnswerStep(n, u)
  <2>1. spent' = spent /\ \A m \in Nodes : Own'[m] = Own[m]
    BY <1>1 DEF QuietStep, AnswerStep
  <2>2. Total(Own', Nodes) = Total(Own, Nodes)
    BY <2>1, SameUnits
  <2> QED BY <1>0, <2>1, <2>2
<1>2. ASSUME NEW n \in Nodes, RecordStep(n) PROVE Total(Own', Nodes) <= spent'
  <2>1. /\ spent' = spent + Unrecorded[n] /\ Own[n] = 0 /\ Own'[n] \in {0, Unrecorded[n]}
        /\ \A m \in Nodes \ {n} : Own[m] = Own'[m]
    BY <1>2 DEF RecordStep
  <2>2. Total(Own', Nodes) + Own[n] = Total(Own, Nodes) + Own'[n]
    BY <1>0, <2>1, TotalChanged
  <2>3. Own'[n] <= Unrecorded[n] /\ Own'[n] \in Nat /\ Unrecorded[n] \in Nat
    BY <1>0, <2>1
  <2> QED BY <1>0, <1>00, <2>1, <2>2, <2>3
<1> QED BY <1>1, <1>2

LEMMA OvercommitNext ==
    ASSUME RuntimeType, RuntimeType', MoneyInv,
           \/ QuietStep
           \/ \E n \in Nodes, u \in shape.usages : AnswerStep(n, u)
           \/ \E n \in Nodes : RecordStep(n)
    PROVE  spent' <= Room + MostUsage * Cardinality(Through')
<1>0. /\ spent \in Nat /\ spent' \in Nat /\ spent <= Room + MostUsage * Cardinality(Through)
      /\ Quota \in Nat /\ Estimate \in Nat /\ Room \in Nat
      /\ MostUsage \in Nat /\ \A u \in shape.usages : u <= MostUsage
  BY MostUsageFacts, ConstantFacts DEF RuntimeType, MoneyInv, Room
<1>1. /\ IsFiniteSet(Through) /\ IsFiniteSet(Through')
      /\ Cardinality(Through) \in Nat /\ Cardinality(Through') \in Nat
  BY ThroughFinite DEF Through
<1>2. \A a, b \in Nat : a <= b => MostUsage * a <= MostUsage * b
  BY <1>0
<1>3. \A a \in Nat : MostUsage * a \in Nat /\ MostUsage * (a + 1) = MostUsage * a + MostUsage
  BY <1>0
<1>4. ASSUME spent' = spent, Through \subseteq Through'
      PROVE  spent' <= Room + MostUsage * Cardinality(Through')
  <2>1. Cardinality(Through) <= Cardinality(Through')
    BY <1>1, <1>4, FS_Subset
  <2>2. /\ MostUsage * Cardinality(Through) <= MostUsage * Cardinality(Through')
        /\ MostUsage * Cardinality(Through) \in Nat /\ MostUsage * Cardinality(Through') \in Nat
    BY <1>1, <1>2, <1>3, <2>1
  <2> QED BY <1>0, <1>4, <2>2
<1>5. ASSUME spent' = spent, spent + Estimate <= Quota
      PROVE  spent' <= Room + MostUsage * Cardinality(Through')
  <2>1. spent <= Room
    BY <1>0, <1>5 DEF Room
  <2>2. MostUsage * Cardinality(Through') \in Nat
    BY <1>1, <1>3
  <2> QED BY <1>0, <1>5, <2>1, <2>2
<1>6. ASSUME NEW n \in Nodes, RecordStep(n)
      PROVE  spent' <= Room + MostUsage * Cardinality(Through')
  <2>1. /\ spent' = spent + Unrecorded[n] /\ Unrecorded[n] <= MostUsage /\ Unrecorded[n] \in Nat
        /\ n \notin Through /\ Through \union {n} \subseteq Through'
    BY <1>0, <1>6, MoneyTypes DEF RecordStep
  <2>2. Cardinality(Through \union {n}) = Cardinality(Through) + 1
    BY <1>1, <2>1, FS_AddElement
  <2>3. Cardinality(Through) + 1 <= Cardinality(Through')
    BY <1>1, <2>1, <2>2, FS_Subset
  <2>4. MostUsage * (Cardinality(Through) + 1) <= MostUsage * Cardinality(Through')
    BY <1>1, <1>2, <2>3
  <2>5. MostUsage * (Cardinality(Through) + 1) = MostUsage * Cardinality(Through) + MostUsage
    BY <1>1, <1>3
  <2>6. MostUsage * Cardinality(Through) \in Nat /\ MostUsage * Cardinality(Through') \in Nat
    BY <1>1, <1>3
  <2> QED BY <1>0, <2>1, <2>4, <2>5, <2>6
<1> QED BY <1>4, <1>5, <1>6 DEF QuietStep, AnswerStep

LEMMA MoneyNext ==
    ASSUME NodesInv, NodesInv', MoneyInv, [Next]_vars
    PROVE  MoneyInv'
<1>1. RuntimeType /\ RuntimeType'
  BY DEF NodesInv
<1>2. shape.usages \subseteq Nat
  BY <1>1, ShapeFacts DEF RuntimeType
<1>3. \/ QuietStep
      \/ \E n \in Nodes, u \in shape.usages : AnswerStep(n, u)
      \/ \E n \in Nodes : RecordStep(n)
  BY MoneyCases
<1>4. shape' = shape
  BY <1>3 DEF QuietStep, AnswerStep, RecordStep
<1>5. /\ ~dropped' => spent' + Total(Unrecorded', Nodes) = Total(answered', Nodes)
      /\ Total(Own', Nodes) <= spent'
      /\ spent' <= Room + MostUsage * Cardinality(Through')
  BY <1>1, <1>2, <1>3, ChargedNext, OwnNext, OvercommitNext
<1>6. MostUsage' = MostUsage
  BY <1>4 DEF MostUsage
<1> QED BY <1>5, <1>6, PrimedSums DEF MoneyInv, Room

LEMMA MoneyInit == Init => MoneyInv
<1> SUFFICES ASSUME Init PROVE MoneyInv
  OBVIOUS
<1>0. NodesInv
  BY NodesInit
<1>1. /\ spent = 0 /\ dropped = FALSE /\ shape \in Shapes
      /\ \A n \in Nodes : exec[n].pc = "idle" /\ answered[n] = 0 /\ result[n].usage = 0
  BY DEF Init, Fresh, Pending
<1>2. \A n \in Nodes : Unrecorded[n] = 0 /\ Own[n] = 0
  BY <1>1 DEF Unrecorded, Own
<1>3. /\ Total(Unrecorded, Nodes) = 0 /\ Total(answered, Nodes) = 0 /\ Total(Own, Nodes) = 0
  BY <1>1, <1>2, NoTotal
<1>4. MostUsage \in Nat /\ Room \in Nat /\ Cardinality(Through) \in Nat
  BY <1>1, MostUsageFacts, ConstantFacts, ThroughFinite DEF Room, Through
<1>5. MostUsage * Cardinality(Through) \in Nat
  BY <1>4
<1> QED BY <1>1, <1>3, <1>4, <1>5 DEF MoneyInv

\* What subgraphs report was reported by their nodes, and no node is in two of them:
\* every unit reported at the top is a unit of a node that asked.
LEMMA ReportedIsOwn ==
    ASSUME NodesInv, OrderInv
    PROVE  Total(Reported, shape.top) <= Total(Own, Nodes)
<1> DEFINE Sub(n) == shape.kind[n] = "subgraph"
           S == Units(Reported, shape.top)
           T == Units(Own, Nodes)
           Inside(n) == Units(Reported, shape.inner[n])
<1>0. /\ RuntimeType /\ shape.top \subseteq Nodes /\ shape.kind \in [Nodes -> Kinds]
      /\ shape.inner \in [shape.top -> SUBSET (Nodes \ shape.top)]
      /\ \A m, n \in shape.top : m # n => shape.inner[m] \intersect shape.inner[n] = {}
      /\ \A n \in Nodes \ shape.top : shape.kind[n] # "subgraph"
  BY ShapeFacts DEF NodesInv, RuntimeType
<1>1. \A n \in Nodes : Reported[n] \in Nat /\ Own[n] \in Nat
  BY <1>0, MoneyTypes DEF RuntimeType, Results, Reported
<1>2. \A n \in Nodes : ~Sub(n) => Own[n] = Reported[n]
  BY DEF Own, Reported
<1>3. IsFiniteSet(T)
  BY <1>1, UnitsFinite
<1>4. ASSUME NEW n \in shape.top, Sub(n)
      PROVE  \E h : h \in Injection(1..Reported[n], Inside(n))
  <2>1. Reported[n] \in Nat /\ shape.inner[n] \in SUBSET Nodes
    BY <1>0, <1>1
  <2>2. IsFiniteSet(Inside(n)) /\ Cardinality(Inside(n)) \in Nat
    BY <1>1, <2>1, UnitsFinite DEF Total
  <2>3. Reported[n] <= Cardinality(Inside(n))
    <3>1. result[n].usage <= Total(Reported, shape.inner[n]) \/ result[n].usage = 0
      BY <1>4 DEF OrderInv, SubgraphsReport
    <3>2. Reported[n] = result[n].usage
      BY <1>0 DEF Reported
    <3> QED BY <2>2, <3>1, <3>2 DEF Total
  <2>4. PICK b \in Bijection(1..Cardinality(Inside(n)), Inside(n)) : TRUE
    <3> HIDE DEF Inside
    <3> QED BY <2>2, FS_CardinalityType DEF ExistsBijection
  <2> DEFINE h == [x \in 1..Reported[n] |-> b[x]]
  <2>5. \A x \in 1..Reported[n] : x \in 1..Cardinality(Inside(n))
    BY <2>1, <2>2, <2>3
  <2>6. h \in Injection(1..Reported[n], Inside(n))
    <3> HIDE DEF Inside
    <3> QED BY <2>4, <2>5 DEF Bijection, Injection, IsInjective
  <2> QED BY <2>6
<1> DEFINE h == [n \in shape.top |-> CHOOSE f : f \in Injection(1..Reported[n], Inside(n))]
           g == [t \in S |-> IF Sub(t[1]) THEN h[t[1]][t[2]] ELSE t]
<1>5. ASSUME NEW n \in shape.top, Sub(n) PROVE h[n] \in Injection(1..Reported[n], Inside(n))
  BY <1>4, <1>5
<1>6. ASSUME NEW t \in S
      PROVE  /\ t[1] \in shape.top /\ t[2] \in 1..Reported[t[1]] /\ t = <<t[1], t[2]>>
  <2>1. PICK n \in shape.top : t \in {n} \X (1..Reported[n])
    BY UnitsOf
  <2> QED BY <2>1
<1>7. ASSUME NEW n \in shape.top, NEW t \in Inside(n)
      PROVE  t \in T /\ t[1] \in shape.inner[n]
  <2>1. PICK i \in shape.inner[n] : t \in {i} \X (1..Reported[i])
    BY UnitsOf
  <2>2. i \in Nodes /\ Own[i] = Reported[i]
    BY <1>0, <1>2
  <2> QED BY <2>1, <2>2, UnitsOf
<1> HIDE DEF h, Inside, S, T
<1>8. ASSUME NEW t \in S PROVE g[t] \in T
  <2>1. CASE Sub(t[1])
    <3>1. h[t[1]][t[2]] \in Inside(t[1])
      BY <1>5, <1>6, <2>1 DEF Injection
    <3> QED BY <1>6, <1>7, <2>1, <3>1
  <2>2. CASE ~Sub(t[1])
    <3>1. t[1] \in Nodes /\ t \in {t[1]} \X (1..Own[t[1]])
      BY <1>0, <1>2, <1>6, <2>2
    <3> QED BY <2>2, <3>1, UnitsOf DEF T
  <2> QED BY <2>1, <2>2
<1>9. ASSUME NEW t \in S, NEW u \in S, g[t] = g[u] PROVE t = u
  <2>0. /\ t[1] \in shape.top /\ t[2] \in 1..Reported[t[1]] /\ t = <<t[1], t[2]>>
        /\ u[1] \in shape.top /\ u[2] \in 1..Reported[u[1]] /\ u = <<u[1], u[2]>>
    BY <1>6
  <2>1. ASSUME NEW x \in S, Sub(x[1]) PROVE g[x] \in Inside(x[1]) /\ g[x] = h[x[1]][x[2]]
    <3>1. x[1] \in shape.top /\ x[2] \in 1..Reported[x[1]]
      BY <1>6
    <3> QED BY <1>5, <2>1, <3>1 DEF Injection
  <2>2. ASSUME NEW x \in S, Sub(x[1]) PROVE g[x][1] \in shape.inner[x[1]]
    BY <1>6, <1>7, <2>1, <2>2
  <2>3. CASE Sub(t[1]) /\ Sub(u[1])
    <3>1. t[1] = u[1]
      BY <1>0, <1>9, <2>0, <2>2, <2>3
    <3>2. h[t[1]][t[2]] = h[t[1]][u[2]]
      BY <1>9, <2>1, <2>3, <3>1
    <3>3. t[2] = u[2]
      <4>1. h[t[1]] \in Injection(1..Reported[t[1]], Inside(t[1]))
        BY <1>5, <2>0, <2>3
      <4>2. \A a, b \in 1..Reported[t[1]] : h[t[1]][a] = h[t[1]][b] => a = b
        BY <4>1 DEF Injection, IsInjective
      <4>3. t[2] \in 1..Reported[t[1]] /\ u[2] \in 1..Reported[t[1]]
        BY <2>0, <3>1
      <4> QED BY <3>2, <4>2, <4>3
    <3> QED BY <2>0, <3>1, <3>3
  <2>4. ASSUME NEW x \in S, NEW y \in S, Sub(x[1]), ~Sub(y[1]), g[x] = g[y] PROVE FALSE
    <3>1. g[y] = y /\ y[1] \in shape.top
      BY <1>6, <2>4
    <3>2. g[x][1] \in shape.inner[x[1]] /\ x[1] \in shape.top
      BY <1>6, <2>2, <2>4
    <3> QED BY <1>0, <2>4, <3>1, <3>2
  <2>5. CASE ~Sub(t[1]) /\ ~Sub(u[1])
    BY <1>9, <2>5
  <2> QED BY <1>9, <2>3, <2>4, <2>5
<1>10. g \in Injection(S, T)
  <2>1. g \in [S -> T]
    BY <1>8
  <2> HIDE DEF g
  <2> QED BY <1>9, <2>1 DEF Injection, IsInjective
<1>11. Cardinality(S) <= Cardinality(T)
  <2> HIDE DEF g
  <2> QED BY <1>3, <1>10, FS_Injection
<1> QED BY <1>11 DEF S, T, Total

LEMMA Bounded == NodesInv => CallsBounded
<1> SUFFICES ASSUME NodesInv, NEW n \in Nodes
             PROVE  asked[n] <= (shape.max_retries + 2) * (max_tool_iterations + 1)
  BY DEF CallsBounded
<1>1. /\ exec[n] \in Executions /\ asked[n] \in Nat /\ LimitsOK(n, exec[n], asked[n])
      /\ shape.max_retries \in Nat /\ max_tool_iterations \in Nat
  BY ShapeFacts, ConstantFacts DEF NodesInv, RuntimeType, NodeOK
<1>2. Left(exec[n]) \in Nat
  BY <1>1, LeftType DEF LimitsOK
<1>3. AttemptsLeft(exec[n]) \in Nat
  BY <1>1 DEF AttemptsLeft, Executions
<1>4. /\ AttemptsLeft(exec[n]) * (max_tool_iterations + 1) \in Nat
      /\ (shape.max_retries + 2) * (max_tool_iterations + 1) \in Nat
  BY <1>1, <1>3
<1> QED BY <1>1, <1>2, <1>4 DEF LimitsOK

LEMMA MoneyAccounted == NodesInv /\ OrderInv /\ MoneyInv => UsageAccounted
<1> SUFFICES ASSUME NodesInv, OrderInv, MoneyInv PROVE UsageAccounted
  OBVIOUS
<1>0. RuntimeType /\ spent \in Nat /\ shape.top \in SUBSET Nodes /\ shape \in Shapes
  BY ShapeFacts DEF NodesInv, RuntimeType
<1>1. ChargedExactly
  BY DEF ChargedExactly, MoneyInv, Unrecorded
<1>2. ReportedWithinCharged
  <2>1. Total(Reported, shape.top) \in Nat /\ Total(Own, Nodes) \in Nat
    BY <1>0, ReportedTotal, MoneySums
  <2> QED BY <1>0, <2>1, ReportedIsOwn DEF ReportedWithinCharged, MoneyInv, Top
<1>3. OvercommitBounded
  <2> DEFINE All == {n \in Nodes : asked[n] > 0}
  <2>1. Through \in SUBSET All /\ All \in SUBSET Nodes
    BY DEF Through
  <2>2. /\ MostUsage \in Nat /\ Room \in Nat /\ Cardinality(Through) \in Nat
        /\ Cardinality(All) \in Nat /\ Cardinality(Through) <= Cardinality(All)
    <3>1. IsFiniteSet(All) /\ IsFiniteSet(Through)
      BY <2>1, ThroughFinite
    <3>2. MostUsage \in Nat
      BY <1>0, MostUsageFacts
    <3>3. Room \in Nat
      BY ConstantFacts DEF Room
    <3> HIDE DEF All
    <3>4. Cardinality(Through) \in Nat /\ Cardinality(All) \in Nat
      BY <3>1, FS_CardinalityType
    <3>5. Cardinality(Through) <= Cardinality(All)
      BY <2>1, <3>1, FS_Subset
    <3> QED BY <3>2, <3>3, <3>4, <3>5
  <2>3. \A a, b, c \in Nat : a <= b => c * a <= c * b /\ c * a \in Nat /\ c * b \in Nat
    OBVIOUS
  <2> HIDE DEF All
  <2>4. spent <= Room + MostUsage * Cardinality(All)
    BY <1>0, <2>2, <2>3 DEF MoneyInv
  <2> QED BY <2>4 DEF OvercommitBounded, Room, All
<1> QED BY <1>1, <1>2, <1>3, Bounded DEF UsageAccounted

\* Every answer is charged once unless an execution was dropped, what the scheduler is
\* told stays within what was charged, a node makes a bounded number of calls, and the
\* quota is exceeded by at most one answer for each node that asked (lib.rs:385, 509,
\* 541, 747).
THEOREM UsageIsAccounted == Spec => []UsageAccounted
<1> DEFINE Inv == NodesInv /\ OrderInv /\ MoneyInv
<1>1. Init => Inv
  BY NodesInit, OrderInit, MoneyInit
<1>2. Inv /\ [Next]_vars => Inv'
  BY NodesNext, OrderNext, MoneyNext
<1>3. Inv => UsageAccounted
  BY MoneyAccounted
<1> QED BY <1>1, <1>2, <1>3, PTL DEF Spec

-----------------------------------------------------------------------------
(* The cache.  It sees a caller only through its operation, and the entries *)
(* and the index only through their labels.                                 *)

CachePlaces == {"none", "search", "read", "evict", "unlink", "miss",
                "add", "choose", "unlink_oldest", "insert"}
PutPlaces == {"add", "choose", "unlink_oldest", "insert"}
Keys == {<< >>} \union {<<s.prompt[n], i, b>> : s \in Shapes, n \in Nodes, i \in Nat, b \in BOOLEAN}
CacheOps == [at : CachePlaces, key : Keys, label : Nat, usage : Nat, oldest : SUBSET Nat]

Linked == {i.label : i \in index}
Put == {c \in Callers : Putting(c)}

CacheType ==
    /\ op \in [Callers -> CacheOps] /\ next_label \in Nat /\ overlaps \in Nat
    /\ Labels \in SUBSET Nat /\ IsFiniteSet(Labels) /\ Linked \in SUBSET Nat

\* What is true of one operation o, with the labels L of the entries, K of the index and
\* the next label m.
LabelOK(o, L, K, m) ==
    /\ o.at \in PutPlaces => o.label \notin L /\ o.label < m /\ o.label \notin o.oldest
    /\ \A l \in o.oldest : l < m
    /\ o.at \in {"add", "choose"} => o.oldest = {}
    /\ o.at = "add" => o.label \notin K
    /\ o.at \in {"read", "evict", "unlink"} => o.label < m
    /\ o.at = "unlink" => o.label \notin L

\* The label of a put is its own.
Apart(o, p) ==
    /\ o.at \in PutPlaces => o.label \notin p.oldest
    /\ o.at \in PutPlaces /\ p.at \in PutPlaces \union {"unlink"} => o.label # p.label

LabelsInv ==
    /\ CacheTypeOK
    /\ \A c \in Callers : LabelOK(op[c], Labels, Linked, next_label)
    /\ \A c, d \in Callers : c # d => Apart(op[c], op[d])

\* The index may hold a label that is about to get its entry or has just lost it, or
\* that it failed to remove, and lack one that is about to be evicted.
Linking == {"choose", "unlink_oldest", "insert"}
Agreed(o, K, U) ==
    /\ o.at = "insert" => o.oldest \intersect K \subseteq U
    /\ o.at \in Linking => o.label \in K
AgreeInv ==
    /\ \A c \in Callers : Agreed(op[c], Linked, unremoved)
    /\ \A l \in Linked : \/ l \in Labels \union unremoved
                         \/ \E c \in Callers : op[c].at \in Linking \union {"unlink"} /\ l = op[c].label
    /\ \A l \in Labels : \/ l \in Linked
                         \/ \E c \in Callers : op[c].at = "insert" /\ l \in op[c].oldest

\* A put adds an entry to the cache unless the one it chose to evict is still there.
Need == [c \in Callers |->
           IF op[c].at \in {"unlink_oldest", "insert"} /\ op[c].oldest \intersect Labels = {}
           THEN 1 ELSE 0]

\* There is room for every put, or for every put but f with an overlap for each of them.
Fits(L, P, v) ==
    /\ Cardinality(L) + Cardinality(P) <= max_entries + v /\ Cardinality(P) <= v
FitsBut(L, P, need, v, f) ==
    /\ Cardinality(L) + Cardinality(P \ {f}) + need[f] <= max_entries + v
    /\ Cardinality(P \ {f}) <= v
Sized(L, P, need, v) == Fits(L, P, v) \/ \E f \in P : FitsBut(L, P, need, v, f)
SizeInv == Sized(Labels, Put, Need, overlaps)

CachesInv == CacheType /\ LabelsInv /\ SizeInv /\ (~dropped => AgreeInv)

LEMMA CachesInit == Init => CachesInv
<1> SUFFICES ASSUME Init PROVE CachesInv
  OBVIOUS
<1>1. /\ entries = << >> /\ Labels = {} /\ index = {} /\ Linked = {} /\ next_label = 0 /\ overlaps = 0
      /\ op = [c \in Callers |-> NoCacheOp]
  BY DEF Init, CacheInit, Labels, Linked
<1>2. NoCacheOp \in CacheOps
  BY DEF NoCacheOp, CacheOps, CachePlaces, Keys
<1>3. CacheType
  BY <1>1, <1>2, FS_EmptySet DEF CacheType
<1>4. LabelsInv
  BY <1>1 DEF LabelsInv, CacheTypeOK, LabelOK, Apart, NoCacheOp, PutPlaces, Linked
<1>5. AgreeInv
  BY <1>1 DEF AgreeInv, Agreed, NoCacheOp, Linking
<1>6. SizeInv
  <2>1. Put = {}
    BY <1>1 DEF Put, Putting, NoCacheOp
  <2>2. Cardinality({}) = 0
    BY FS_EmptySet
  <2> QED BY <1>1, <2>1, <2>2, ConstantFacts DEF SizeInv, Sized, Fits
<1> QED BY <1>3, <1>4, <1>5, <1>6 DEF CachesInv

\* The numbers of entries and puts.
LEMMA PutsFinite == ASSUME NEW P \in SUBSET Callers PROVE IsFiniteSet(P) /\ Cardinality(P) \in Nat
BY ConstantFacts, FS_Subset, FS_CardinalityType

LEMMA FewerPuts ==
    ASSUME NEW P \in SUBSET Callers, NEW Q \in SUBSET P
    PROVE  Cardinality(Q) <= Cardinality(P)
<1>1. IsFiniteSet(P)
  BY PutsFinite
<1> QED BY <1>1, FS_Subset

LEMMA OnePutLess ==
    ASSUME NEW P \in SUBSET Callers, NEW c \in P
    PROVE  Cardinality(P \ {c}) = Cardinality(P) - 1
<1>1. IsFiniteSet(P)
  BY PutsFinite
<1> QED BY <1>1, FS_RemoveElement

LEMMA NeedType == ASSUME CacheType, NEW c \in Callers PROVE Need[c] \in {0, 1}
BY DEF Need

LEMMA SizedLess ==
    ASSUME NEW L, Cardinality(L) \in Nat, NEW P \in SUBSET Callers, NEW Q \in SUBSET P,
           NEW need, NEW less, NEW v \in Nat,
           \A f \in Callers : need[f] \in {0, 1} /\ less[f] \in {0, 1},
           \A f \in Q : less[f] <= need[f],
           Sized(L, P, need, v)
    PROVE  Sized(L, Q, less, v)
<1>0. Cardinality(P) \in Nat /\ Cardinality(Q) \in Nat /\ Cardinality(Q) <= Cardinality(P)
  BY PutsFinite, FewerPuts
<1>1. CASE Fits(L, P, v)
  <2>1. Fits(L, Q, v)
    BY <1>0, <1>1, ConstantFacts DEF Fits
  <2> QED BY <2>1 DEF Sized
<1>2. ASSUME NEW f \in P, FitsBut(L, P, need, v, f) PROVE Sized(L, Q, less, v)
  <2>0. f \in Callers
    OBVIOUS
  <2>1. need[f] \in {0, 1} /\ less[f] \in {0, 1}
    BY <2>0
  <2>2. Cardinality(P \ {f}) \in Nat
    BY PutsFinite
  <2>3. CASE f \in Q
    <3>1. Cardinality(Q \ {f}) <= Cardinality(P \ {f}) /\ Cardinality(Q \ {f}) \in Nat
      BY PutsFinite, FewerPuts
    <3>2. less[f] <= need[f]
      BY <2>3
    <3>3. FitsBut(L, Q, less, v, f)
      BY <1>2, <2>1, <2>2, <3>1, <3>2, ConstantFacts DEF FitsBut
    <3> QED BY <2>3, <3>3 DEF Sized
  <2>4. CASE f \notin Q
    <3>1. Q \in SUBSET (P \ {f}) /\ P \ {f} \in SUBSET Callers
      BY <2>4
    <3>2. Cardinality(Q) <= Cardinality(P \ {f})
      BY <3>1, FewerPuts
    <3>3. Fits(L, Q, v)
      BY <1>0, <1>2, <2>1, <2>2, <3>2, ConstantFacts DEF Fits, FitsBut
    <3> QED BY <3>3 DEF Sized
  <2> QED BY <2>3, <2>4
<1> QED BY <1>1, <1>2 DEF Sized

\* A step of one caller.
LEMMA CallerMoves ==
    ASSUME CacheType, NEW c \in Callers, NEW p \in CacheOps, Moves(c, p)
    PROVE  /\ op' \in [Callers -> CacheOps] /\ op'[c] = p
           /\ \A d \in Callers : d # c => op'[d] = op[d]
BY DEF CacheType, Moves

LEMMA OpMoved ==
    ASSUME NEW o \in CacheOps, NEW a \in CachePlaces
    PROVE  /\ [o EXCEPT !.at = a] \in CacheOps
           /\ [o EXCEPT !.at = a].at = a /\ [o EXCEPT !.at = a].label = o.label
           /\ [o EXCEPT !.at = a].oldest = o.oldest
BY DEF CacheOps

LEMMA NoOp == NoCacheOp \in CacheOps /\ NoCacheOp.at = "none" /\ NoCacheOp.oldest = {}
BY DEF NoCacheOp, CacheOps, CachePlaces, Keys

LEMMA LabelsStep ==
    ASSUME LabelsInv, CacheTypeOK', NEW c \in Callers,
           LabelOK(op'[c], Labels', Linked', next_label'),
           \A d \in Callers \ {c} :
              /\ op'[d] = op[d] /\ LabelOK(op[d], Labels', Linked', next_label')
              /\ Apart(op'[c], op[d]) /\ Apart(op[d], op'[c])
    PROVE  LabelsInv'
<1>1. ASSUME NEW d \in Callers PROVE LabelOK(op'[d], Labels', Linked', next_label')
  <2>1. CASE d = c
    BY <2>1
  <2>2. CASE d # c
    BY <2>2
  <2> QED BY <2>1, <2>2
<1>2. ASSUME NEW d \in Callers, NEW f \in Callers, d # f PROVE Apart(op'[d], op'[f])
  <2>1. CASE d = c
    BY <1>2, <2>1
  <2>2. CASE f = c
    BY <1>2, <2>2
  <2>3. CASE d # c /\ f # c
    <3>1. op'[d] = op[d] /\ op'[f] = op[f]
      BY <2>3
    <3> QED BY <1>2, <3>1 DEF LabelsInv
  <2> QED BY <2>1, <2>2, <2>3
<1> QED BY <1>1, <1>2 DEF LabelsInv

\* The puts and their needs after a step of one caller that leaves the entries.
LEMMA PutsStep ==
    ASSUME CacheType, NEW c \in Callers,
           op' \in [Callers -> CacheOps], \A d \in Callers : d # c => op'[d] = op[d],
           op'[c].at \in PutPlaces => op[c].at \in PutPlaces
    PROVE  Put' \in SUBSET Put /\ Put \in SUBSET Callers
BY DEF Put, Putting, PutPlaces

LEMMA SizeStep ==
    ASSUME CacheType, CacheType', SizeInv, NEW c \in Callers, Labels' = Labels,
           overlaps' = overlaps, \A d \in Callers : d # c => op'[d] = op[d],
           op'[c].at \in PutPlaces => op[c].at \in PutPlaces,
           op'[c].at \in PutPlaces => Need'[c] <= Need[c]
    PROVE  SizeInv'
<1>1. Put' \in SUBSET Put /\ Put \in SUBSET Callers
  BY PutsStep DEF CacheType
<1>2. \A f \in Callers : Need[f] \in {0, 1} /\ Need'[f] \in {0, 1}
  BY DEF Need
<1>3. ASSUME NEW f \in Put' PROVE Need'[f] <= Need[f]
  <2>1. f \in Callers /\ op'[f].at \in PutPlaces
    BY <1>3 DEF Put, Putting, PutPlaces
  <2>2. CASE f = c
    BY <2>1, <2>2
  <2>3. CASE f # c
    <3>1. Need'[f] = Need[f]
      BY <2>1, <2>3 DEF Need
    <3> QED BY <1>2, <2>1, <3>1
  <2> QED BY <2>2, <2>3
<1>4. Cardinality(Labels) \in Nat /\ overlaps \in Nat
  BY FS_CardinalityType DEF CacheType
<1>5. Sized(Labels, Put', Need', overlaps)
  BY <1>1, <1>2, <1>3, <1>4, SizedLess DEF SizeInv
<1> QED BY <1>5 DEF SizeInv

\* A step of a lookup, or of a put that has not reached the index, that changes nothing.
Calm == {"none", "search", "read", "evict", "miss"}

LEMMA CalmCache ==
    ASSUME CachesInv, NEW c \in Callers, NEW p \in CacheOps, Moves(c, p),
           UNCHANGED <<entries, index, next_label, overlaps, unremoved, dropped>>,
           op[c].at \in Calm \union {"add"}, p.at \in Calm,
           p.oldest \subseteq op[c].oldest,
           p.at \in {"read", "evict"} => p.label < next_label
    PROVE  CachesInv'
<1>0. CacheType /\ LabelsInv /\ SizeInv /\ CacheTypeOK
  BY DEF CachesInv, LabelsInv
<1>1. /\ op' \in [Callers -> CacheOps] /\ op'[c] = p
      /\ \A d \in Callers : d # c => op'[d] = op[d]
  BY <1>0, CallerMoves
<1>2. Labels' = Labels /\ Linked' = Linked /\ next_label' = next_label /\ overlaps' = overlaps
  BY DEF Labels, Linked
<1>3. CacheType'
  BY <1>0, <1>1, <1>2 DEF CacheType
<1>4. LabelsInv'
  <2>1. CacheTypeOK'
    BY <1>0, <1>2 DEF CacheTypeOK
  <2>2. LabelOK(op'[c], Labels', Linked', next_label')
    <3>1. LabelOK(op[c], Labels, Linked, next_label)
      BY <1>0 DEF LabelsInv
    <3> QED BY <1>1, <1>2, <3>1 DEF LabelOK, Calm, PutPlaces
  <2>3. ASSUME NEW d \in Callers \ {c}
        PROVE  /\ op'[d] = op[d] /\ LabelOK(op[d], Labels', Linked', next_label')
               /\ Apart(op'[c], op[d]) /\ Apart(op[d], op'[c])
    <3>1. Apart(op[c], op[d]) /\ Apart(op[d], op[c]) /\ LabelOK(op[d], Labels, Linked, next_label)
      BY <1>0 DEF LabelsInv
    <3> QED BY <1>1, <1>2, <3>1 DEF Apart, Calm, PutPlaces
  <2> QED BY <1>0, <2>1, <2>2, <2>3, LabelsStep
<1>5. SizeInv'
  <2>1. op'[c].at \notin PutPlaces
    BY <1>1 DEF Calm, PutPlaces
  <2> QED BY <1>0, <1>1, <1>2, <1>3, <2>1, SizeStep
<1>6. ASSUME AgreeInv PROVE AgreeInv'
  <2>1. \A d \in Callers : Agreed(op'[d], Linked', unremoved')
    BY <1>1, <1>2, <1>6 DEF AgreeInv, Agreed, Linking, Calm
  <2>2. ASSUME NEW d \in Callers, op[d].at \in Linking \union {"unlink"} PROVE op'[d] = op[d]
    BY <1>1, <2>2 DEF Linking, Calm
  <2> QED BY <1>2, <1>6, <2>1, <2>2 DEF AgreeInv, Linking
<1> QED BY <1>3, <1>4, <1>5, <1>6 DEF CachesInv

LEMMA LinkedLabels ==
    ASSUME LabelsInv, NEW i \in index
    PROVE  i.label < next_label /\ i.label \in Linked
BY DEF LabelsInv, CacheTypeOK, Linked

LEMMA LookupCache ==
    ASSUME CachesInv, dropped' = dropped, NEW c \in Callers,
           \/ \E key \in Keys : LookupBegins(c, key)
           \/ SearchIndex(c) \/ ReadExpired(c) \/ LookupMisses(c) \/ PutSkipped(c)
           \/ \E usage \in Nat : LookupHits(c, usage)
    PROVE  CachesInv'
<1>0. op[c] \in CacheOps /\ LabelsInv /\ LabelOK(op[c], Labels, Linked, next_label)
  BY DEF CachesInv, CacheType, LabelsInv
<1>1. ASSUME NEW key \in Keys, LookupBegins(c, key) PROVE CachesInv'
  <2> DEFINE p == [NoCacheOp EXCEPT !.at = "search", !.key = key]
  <2>1. p \in CacheOps /\ p.at = "search" /\ p.oldest = {}
    BY DEF NoCacheOp, CacheOps, CachePlaces
  <2>2. Moves(c, p) /\ op[c].at = "none" /\ UNCHANGED <<entries, index, next_label, overlaps, unremoved>>
    BY <1>1 DEF LookupBegins, At
  <2> HIDE DEF p
  <2> QED BY <2>1, <2>2, CalmCache DEF Calm
<1>2. CASE SearchIndex(c)
  <2>1. PICK i \in index : Moves(c, [op[c] EXCEPT !.at = "read", !.label = i.label])
    BY <1>2 DEF SearchIndex, Nearest
  <2> DEFINE p == [op[c] EXCEPT !.at = "read", !.label = i.label]
  <2>2. i.label < next_label /\ i.label \in Nat
    BY <1>0, LinkedLabels DEF CachesInv, CacheType
  <2>3. p \in CacheOps /\ p.at = "read" /\ p.oldest = op[c].oldest /\ p.label = i.label
    BY <1>0, <2>2 DEF CacheOps, CachePlaces
  <2>4. Moves(c, p) /\ op[c].at = "search" /\ UNCHANGED <<entries, index, next_label, overlaps, unremoved>>
    BY <1>2, <2>1 DEF SearchIndex, At
  <2> HIDE DEF p
  <2> QED BY <2>2, <2>3, <2>4, CalmCache DEF Calm
<1>3. CASE ReadExpired(c)
  <2> DEFINE p == [op[c] EXCEPT !.at = "evict"]
  <2>1. p \in CacheOps /\ p.at = "evict" /\ p.oldest = op[c].oldest /\ p.label = op[c].label
    BY <1>0, OpMoved DEF CachePlaces
  <2>2. Moves(c, p) /\ op[c].at = "read" /\ UNCHANGED <<entries, index, next_label, overlaps, unremoved>>
    BY <1>3 DEF ReadExpired, At, Goes
  <2>3. op[c].label < next_label
    BY <1>0, <2>2 DEF LabelOK
  <2> HIDE DEF p
  <2> QED BY <2>1, <2>2, <2>3, CalmCache DEF Calm
<1>4. ASSUME Leaves(c), op[c].at \in Calm \union {"add"},
             UNCHANGED <<entries, index, next_label, overlaps, unremoved>>
      PROVE  CachesInv'
  <2>1. Moves(c, NoCacheOp)
    BY <1>4 DEF Leaves
  <2> QED BY <1>4, <2>1, NoOp, CalmCache DEF Calm
<1>5. CASE LookupMisses(c)
  BY <1>4, <1>5 DEF LookupMisses, At, Calm
<1>6. CASE PutSkipped(c)
  BY <1>4, <1>6 DEF PutSkipped, Calm
<1>7. ASSUME NEW usage \in Nat, LookupHits(c, usage) PROVE CachesInv'
  BY <1>4, <1>7 DEF LookupHits, At, Calm
<1> QED BY <1>1, <1>2, <1>3, <1>5, <1>6, <1>7

\* The number of entries and puts when an entry is evicted, a put begins, a put finds
\* room, and a put inserts its entry.
LEMMA SizedEvicted ==
    ASSUME NEW L, NEW K, Cardinality(L) \in Nat, Cardinality(K) \in Nat,
           Cardinality(K) = Cardinality(L) - 1, NEW P \in SUBSET Callers,
           NEW need, NEW more, NEW v \in Nat,
           \A f \in Callers : need[f] \in {0, 1} /\ more[f] \in {0, 1},
           Sized(L, P, need, v)
    PROVE  Sized(K, P, more, v)
<1>0. Cardinality(P) \in Nat
  BY PutsFinite
<1>1. CASE Fits(L, P, v)
  <2>1. Fits(K, P, v)
    BY <1>0, <1>1, ConstantFacts DEF Fits
  <2> QED BY <2>1 DEF Sized
<1>2. ASSUME NEW f \in P, FitsBut(L, P, need, v, f) PROVE Sized(K, P, more, v)
  <2>0. f \in Callers
    OBVIOUS
  <2>1. need[f] \in {0, 1} /\ more[f] \in {0, 1} /\ Cardinality(P \ {f}) \in Nat
    BY <2>0, PutsFinite
  <2>2. FitsBut(K, P, more, v, f)
    BY <1>2, <2>1, ConstantFacts DEF FitsBut
  <2> QED BY <2>2 DEF Sized
<1> QED BY <1>1, <1>2 DEF Sized

LEMMA OnePutMore ==
    ASSUME NEW P \in SUBSET Callers, NEW c \in Callers \ P
    PROVE  Cardinality(P \union {c}) = Cardinality(P) + 1
<1>1. IsFiniteSet(P)
  BY PutsFinite
<1> QED BY <1>1, FS_AddElement

LEMMA SizedBegun ==
    ASSUME NEW L, Cardinality(L) \in Nat, NEW P \in SUBSET Callers, NEW c \in Callers \ P,
           NEW need, NEW next, NEW v \in Nat, NEW w \in Nat, next[c] = 0,
           \A f \in Callers : need[f] \in {0, 1},
           \A f \in P : next[f] = need[f],
           P = {} => w = v, P # {} => w = v + 1,
           Sized(L, P, need, v)
    PROVE  Sized(L, P \union {c}, next, w)
<1> DEFINE Q == P \union {c}
<1>0. Cardinality(P) \in Nat /\ Cardinality(Q) = Cardinality(P) + 1 /\ Q \in SUBSET Callers
  BY PutsFinite, OnePutMore
<1>1. CASE P = {}
  <2>1. Cardinality(P) = 0 /\ Q \ {c} = P
    BY <1>1, FS_EmptySet
  <2>2. Fits(L, P, v)
    BY <1>1 DEF Sized
  <2>3. FitsBut(L, Q, next, w, c)
    BY <1>1, <2>1, <2>2, ConstantFacts DEF Fits, FitsBut
  <2> QED BY <2>3 DEF Sized
<1>2. CASE P # {} /\ Fits(L, P, v)
  <2> HIDE DEF Q
  <2>1. Fits(L, Q, w)
    BY <1>0, <1>2, ConstantFacts DEF Fits
  <2> QED BY <2>1 DEF Sized, Q
<1>3. ASSUME NEW f \in P, FitsBut(L, P, need, v, f) PROVE Sized(L, P \union {c}, next, w)
  <2>0. f \in Callers /\ c # f /\ P # {}
    OBVIOUS
  <2>1. need[f] \in {0, 1} /\ next[f] = need[f] /\ w = v + 1
    BY <2>0
  <2>2. Q \ {f} = (P \ {f}) \union {c} /\ P \ {f} \in SUBSET Callers /\ c \in Callers \ (P \ {f})
    BY <2>0
  <2>3. Cardinality(P \ {f}) \in Nat /\ Cardinality(Q \ {f}) = Cardinality(P \ {f}) + 1
    BY <2>2, PutsFinite, OnePutMore
  <2>4. f \in Q
    OBVIOUS
  <2> HIDE DEF Q
  <2>5. FitsBut(L, Q, next, w, f)
    BY <1>3, <2>1, <2>3, ConstantFacts DEF FitsBut
  <2> QED BY <2>4, <2>5 DEF Sized, Q
<1> QED BY <1>1, <1>2, <1>3 DEF Sized

LEMMA SizedChosen ==
    ASSUME NEW L, Cardinality(L) \in Nat, Cardinality(L) < max_entries,
           NEW P \in SUBSET Callers, NEW c \in P, NEW need, NEW next, NEW v \in Nat,
           next[c] \in {0, 1}, \A f \in P \ {c} : next[f] = need[f],
           Sized(L, P, need, v)
    PROVE  Sized(L, P, next, v)
<1>1. CASE Fits(L, P, v)
  BY <1>1 DEF Sized
<1>2. ASSUME NEW f \in P, f # c, FitsBut(L, P, need, v, f) PROVE Sized(L, P, next, v)
  <2>1. FitsBut(L, P, next, v, f)
    BY <1>2 DEF FitsBut
  <2> QED BY <2>1 DEF Sized
<1>3. CASE FitsBut(L, P, need, v, c)
  <2>1. Cardinality(P \ {c}) \in Nat
    BY PutsFinite
  <2>2. FitsBut(L, P, next, v, c)
    BY <1>3, <2>1, ConstantFacts DEF FitsBut
  <2> QED BY <2>2 DEF Sized
<1> QED BY <1>1, <1>2, <1>3 DEF Sized

LEMMA SizedInserted ==
    ASSUME NEW L, NEW K, Cardinality(L) \in Nat, Cardinality(K) \in Nat,
           NEW P \in SUBSET Callers, NEW c \in P, NEW need, NEW next, NEW v \in Nat,
           \A f \in Callers : need[f] \in {0, 1} /\ next[f] \in {0, 1},
           Cardinality(K) <= Cardinality(L) + need[c],
           \A f \in P \ {c} : Cardinality(K) + next[f] <= Cardinality(L) + need[f] + 1,
           Sized(L, P, need, v)
    PROVE  Sized(K, P \ {c}, next, v)
<1>0. c \in Callers
  OBVIOUS
<1>1. Cardinality(P) \in Nat /\ Cardinality(P \ {c}) = Cardinality(P) - 1 /\ need[c] \in {0, 1}
  BY <1>0, PutsFinite, OnePutLess
<1>2. CASE Fits(L, P, v)
  <2>1. Fits(K, P \ {c}, v)
    BY <1>1, <1>2, ConstantFacts DEF Fits
  <2> QED BY <2>1 DEF Sized
<1>3. CASE FitsBut(L, P, need, v, c)
  <2>1. Fits(K, P \ {c}, v)
    BY <1>1, <1>3, ConstantFacts DEF Fits, FitsBut
  <2> QED BY <2>1 DEF Sized
<1>4. ASSUME NEW f \in P \ {c}, FitsBut(L, P, need, v, f) PROVE Sized(K, P \ {c}, next, v)
  <2>0. f \in Callers /\ P \ {f} \in SUBSET Callers /\ c \in P \ {f}
    OBVIOUS
  <2>1. /\ need[f] \in {0, 1} /\ next[f] \in {0, 1}
        /\ Cardinality(K) + next[f] <= Cardinality(L) + need[f] + 1
    BY <2>0
  <2>2. (P \ {c}) \ {f} = (P \ {f}) \ {c}
    OBVIOUS
  <2>3. /\ Cardinality(P \ {f}) \in Nat
        /\ Cardinality((P \ {c}) \ {f}) = Cardinality(P \ {f}) - 1
    BY <2>0, <2>2, PutsFinite, OnePutLess
  <2>4. FitsBut(K, P \ {c}, next, v, f)
    BY <1>4, <2>1, <2>3, ConstantFacts DEF FitsBut
  <2> QED BY <2>4 DEF Sized
<1> QED BY <1>2, <1>3, <1>4 DEF Sized

\* An expired entry is evicted, then its label leaves the index.
LEMMA EvictCache ==
    ASSUME CachesInv, dropped' = dropped, NEW c \in Callers, EvictExpired(c)
    PROVE  CachesInv'
<1> DEFINE p == [op[c] EXCEPT !.at = "unlink"]
           l == op[c].label
<1>0. CacheType /\ LabelsInv /\ SizeInv /\ CacheTypeOK /\ op[c] \in CacheOps
  BY DEF CachesInv, LabelsInv, CacheType
<1>1. p \in CacheOps /\ p.at = "unlink" /\ p.label = l /\ p.oldest = op[c].oldest
  BY <1>0, OpMoved DEF CachePlaces
<1>2. Moves(c, p) /\ op[c].at = "evict" /\ l \in Labels
  BY DEF EvictExpired, Goes, At, Found
<1>3. /\ Labels' = Labels \ {l} /\ Linked' = Linked
      /\ next_label' = next_label /\ overlaps' = overlaps /\ unremoved' = unremoved
  BY DEF EvictExpired, Without, Labels, Linked
<1> HIDE DEF p
<1>4. /\ op' \in [Callers -> CacheOps] /\ op'[c] = p
      /\ \A d \in Callers : d # c => op'[d] = op[d]
  BY <1>0, <1>1, <1>2, CallerMoves
<1>5. /\ IsFiniteSet(Labels') /\ Cardinality(Labels') = Cardinality(Labels) - 1
      /\ Cardinality(Labels) \in Nat /\ Cardinality(Labels') \in Nat
  BY <1>0, <1>2, <1>3, FS_RemoveElement, FS_CardinalityType DEF CacheType
<1>6. CacheType'
  BY <1>0, <1>3, <1>4, <1>5 DEF CacheType
<1>7. LabelsInv'
  <2>1. CacheTypeOK'
    BY <1>0, <1>3 DEF CacheTypeOK, EvictExpired
  <2>2. LabelOK(op'[c], Labels', Linked', next_label')
    <3>1. LabelOK(op[c], Labels, Linked, next_label)
      BY <1>0 DEF LabelsInv
    <3> QED BY <1>1, <1>2, <1>3, <1>4, <3>1 DEF LabelOK, PutPlaces
  <2>3. ASSUME NEW d \in Callers \ {c}
        PROVE  /\ op'[d] = op[d] /\ LabelOK(op[d], Labels', Linked', next_label')
               /\ Apart(op'[c], op[d]) /\ Apart(op[d], op'[c])
    <3>1. Apart(op[c], op[d]) /\ Apart(op[d], op[c]) /\ LabelOK(op[d], Labels, Linked, next_label)
      BY <1>0 DEF LabelsInv
    <3>2. op[d].at \in PutPlaces => op[d].label # l
      BY <1>2, <3>1 DEF LabelOK
    <3>3. LabelOK(op[d], Labels', Linked', next_label')
      BY <1>3, <3>1 DEF LabelOK
    <3> QED BY <1>1, <1>2, <1>4, <3>1, <3>2, <3>3 DEF Apart, PutPlaces
  <2> QED BY <1>0, <2>1, <2>2, <2>3, LabelsStep
<1>8. SizeInv'
  <2>1. Put' = Put /\ Put \in SUBSET Callers
    BY <1>1, <1>2, <1>4 DEF Put, Putting
  <2>2. \A f \in Callers : Need[f] \in {0, 1} /\ Need'[f] \in {0, 1}
    BY DEF Need
  <2>3. Sized(Labels', Put, Need', overlaps)
    BY <1>0, <1>5, <2>1, <2>2, SizedEvicted DEF SizeInv, CacheType
  <2> QED BY <1>3, <2>1, <2>3 DEF SizeInv
<1>9. ASSUME AgreeInv PROVE AgreeInv'
  <2>1. \A d \in Callers : Agreed(op'[d], Linked', unremoved')
    BY <1>1, <1>3, <1>4, <1>9 DEF AgreeInv, Agreed, Linking
  <2>2. ASSUME NEW d \in Callers, op[d].at \in Linking \union {"unlink"} PROVE op'[d] = op[d]
    BY <1>2, <1>4, <2>2 DEF Linking
  <2>3. ASSUME NEW k \in Linked'
        PROVE  k \in Labels' \union unremoved' \/
                 \E d \in Callers : op'[d].at \in Linking \union {"unlink"} /\ k = op'[d].label
    BY <1>1, <1>3, <1>4, <1>9, <2>2 DEF AgreeInv
  <2>4. ASSUME NEW k \in Labels'
        PROVE  k \in Linked' \/ \E d \in Callers : op'[d].at = "insert" /\ k \in op'[d].oldest
    BY <1>3, <1>9, <2>2 DEF AgreeInv, Linking
  <2> QED BY <2>1, <2>3, <2>4 DEF AgreeInv
<1> QED BY <1>6, <1>7, <1>8, <1>9 DEF CachesInv

\* A removal from the index takes the labels out, or they are recorded as unremoved.
LEMMA Removal ==
    ASSUME NEW S, RemoveFromIndex(S)
    PROVE  /\ index' \subseteq index /\ Linked' \subseteq Linked /\ Linked \ S \subseteq Linked'
           /\ Linked' \intersect S \subseteq unremoved' /\ unremoved \subseteq unremoved'
BY DEF RemoveFromIndex, Linked

LEMMA UnlinkCache ==
    ASSUME CachesInv, dropped' = dropped, NEW c \in Callers, UnlinkExpired(c)
    PROVE  CachesInv'
<1> DEFINE p == [op[c] EXCEPT !.at = "miss"]
           l == op[c].label
<1>0. CacheType /\ LabelsInv /\ SizeInv /\ CacheTypeOK /\ op[c] \in CacheOps
  BY DEF CachesInv, LabelsInv, CacheType
<1>1. p \in CacheOps /\ p.at = "miss" /\ p.label = l /\ p.oldest = op[c].oldest
  BY <1>0, OpMoved DEF CachePlaces
<1>2. Moves(c, p) /\ op[c].at = "unlink"
  BY DEF UnlinkExpired, Goes, At
<1>3. /\ Labels' = Labels /\ index' \subseteq index
      /\ Linked' \subseteq Linked /\ Linked \ {l} \subseteq Linked'
      /\ Linked' \intersect {l} \subseteq unremoved' /\ unremoved \subseteq unremoved'
      /\ next_label' = next_label /\ overlaps' = overlaps
  BY Removal DEF UnlinkExpired, Labels
<1> HIDE DEF p
<1>4. /\ op' \in [Callers -> CacheOps] /\ op'[c] = p
      /\ \A d \in Callers : d # c => op'[d] = op[d]
  BY <1>0, <1>1, <1>2, CallerMoves
<1>6. CacheType'
  BY <1>0, <1>3, <1>4 DEF CacheType
<1>a. l \notin Labels /\ \A d \in Callers \ {c} : op[d].at \in PutPlaces => op[d].label # l
  BY <1>0, <1>2 DEF LabelsInv, LabelOK, Apart
<1>7. LabelsInv'
  <2>1. CacheTypeOK'
    BY <1>0, <1>3 DEF CacheTypeOK
  <2>2. LabelOK(op'[c], Labels', Linked', next_label')
    <3>1. LabelOK(op[c], Labels, Linked, next_label)
      BY <1>0 DEF LabelsInv
    <3> QED BY <1>1, <1>2, <1>3, <1>4, <3>1 DEF LabelOK, PutPlaces
  <2>3. ASSUME NEW d \in Callers \ {c}
        PROVE  /\ op'[d] = op[d] /\ LabelOK(op[d], Labels', Linked', next_label')
               /\ Apart(op'[c], op[d]) /\ Apart(op[d], op'[c])
    <3>1. Apart(op[c], op[d]) /\ Apart(op[d], op[c]) /\ LabelOK(op[d], Labels, Linked, next_label)
      BY <1>0 DEF LabelsInv
    <3>3. LabelOK(op[d], Labels', Linked', next_label')
      BY <1>3, <3>1 DEF LabelOK
    <3> QED BY <1>1, <1>2, <1>4, <3>1, <3>3 DEF Apart, PutPlaces
  <2> QED BY <1>0, <2>1, <2>2, <2>3, LabelsStep
<1>8. SizeInv'
  <2>1. op'[c].at \notin PutPlaces
    BY <1>1, <1>4 DEF PutPlaces
  <2> QED BY <1>0, <1>3, <1>4, <1>6, <2>1, SizeStep
<1>9. ASSUME AgreeInv PROVE AgreeInv'
  <2>1. ASSUME NEW d \in Callers PROVE Agreed(op'[d], Linked', unremoved')
    BY <1>1, <1>3, <1>4, <1>9, <1>a DEF AgreeInv, Agreed, Linking, PutPlaces
  <2>2. ASSUME NEW d \in Callers, op[d].at \in Linking \union {"unlink"}, d # c PROVE op'[d] = op[d]
    BY <1>4, <2>2
  <2>3. ASSUME NEW k \in Linked'
        PROVE  k \in Labels' \union unremoved' \/
                 \E d \in Callers : op'[d].at \in Linking \union {"unlink"} /\ k = op'[d].label
    BY <1>3, <1>9, <2>2 DEF AgreeInv
  <2>4. ASSUME NEW k \in Labels'
        PROVE  k \in Linked' \/ \E d \in Callers : op'[d].at = "insert" /\ k \in op'[d].oldest
    BY <1>2, <1>3, <1>9, <1>a, <2>2 DEF AgreeInv, Linking
  <2> QED BY <2>1, <2>3, <2>4 DEF AgreeInv
<1> QED BY <1>6, <1>7, <1>8, <1>9 DEF CachesInv

\* A put begins with a label nobody has seen, and enters it into the index.
LEMMA PutBeginsCache ==
    ASSUME CachesInv, dropped' = dropped, NEW c \in Callers, NEW key \in Keys,
           NEW usage \in Nat, PutBegins(c, key, usage)
    PROVE  CachesInv'
<1> DEFINE p == [NoCacheOp EXCEPT !.at = "add", !.key = key, !.usage = usage, !.label = next_label]
<1>0. CacheType /\ LabelsInv /\ SizeInv /\ CacheTypeOK /\ op[c] \in CacheOps /\ next_label \in Nat
  BY DEF CachesInv, LabelsInv, CacheType
<1>1. p \in CacheOps /\ p.at = "add" /\ p.label = next_label /\ p.oldest = {}
  BY <1>0 DEF NoCacheOp, CacheOps, CachePlaces
<1>2. Moves(c, p) /\ op[c].at = "none"
  BY DEF PutBegins, At
<1>3. /\ Labels' = Labels /\ Linked' = Linked /\ next_label' = next_label + 1
      /\ unremoved' = unremoved
      /\ overlaps' = IF \E d \in Callers : Putting(d) THEN overlaps + 1 ELSE overlaps
  BY DEF PutBegins, Labels, Linked
<1> HIDE DEF p
<1>4. /\ op' \in [Callers -> CacheOps] /\ op'[c] = p
      /\ \A d \in Callers : d # c => op'[d] = op[d]
  BY <1>0, <1>1, <1>2, CallerMoves
<1>6. CacheType'
  BY <1>0, <1>3, <1>4 DEF CacheType
<1>a. \A l \in Labels \union Linked : l \in Nat /\ l < next_label
  BY <1>0 DEF CacheType, CacheTypeOK, Linked
<1>7. LabelsInv'
  <2>1. CacheTypeOK'
    <3>1. \A l \in Labels' \union Linked' : l < next_label'
      BY <1>0, <1>3, <1>a
    <3> QED BY <1>0, <3>1 DEF CacheTypeOK, Linked, PutBegins
  <2>2. LabelOK(op'[c], Labels', Linked', next_label')
    BY <1>0, <1>1, <1>3, <1>4, <1>a DEF LabelOK
  <2>3. ASSUME NEW d \in Callers \ {c}
        PROVE  /\ op'[d] = op[d] /\ LabelOK(op[d], Labels', Linked', next_label')
               /\ Apart(op'[c], op[d]) /\ Apart(op[d], op'[c])
    <3>1. LabelOK(op[d], Labels, Linked, next_label) /\ op[d] \in CacheOps
      BY <1>0 DEF LabelsInv, CacheType
    <3>2. op[d].label \in Nat /\ op[d].oldest \subseteq Nat
      BY <3>1 DEF CacheOps
    <3>3. LabelOK(op[d], Labels', Linked', next_label')
      BY <1>0, <1>3, <3>1, <3>2 DEF LabelOK
    <3> QED BY <1>0, <1>1, <1>4, <3>1, <3>2, <3>3 DEF Apart, LabelOK, PutPlaces
  <2> QED BY <1>0, <2>1, <2>2, <2>3, LabelsStep
<1>8. SizeInv'
  <2>1. Put' = Put \union {c} /\ Put \in SUBSET Callers /\ c \in Callers \ Put
    BY <1>1, <1>2, <1>4 DEF Put, Putting
  <2>2. \A f \in Callers : Need[f] \in {0, 1}
    BY DEF Need
  <2>3. Need'[c] = 0
    BY <1>1, <1>4 DEF Need
  <2>4. \A f \in Put : Need'[f] = Need[f]
    BY <1>3, <1>4, <2>1 DEF Need
  <2>5. (Put = {} => overlaps' = overlaps) /\ (Put # {} => overlaps' = overlaps + 1)
    BY <1>3 DEF Put
  <2>6. Cardinality(Labels) \in Nat /\ overlaps \in Nat /\ overlaps' \in Nat
    BY <1>0, <1>6, FS_CardinalityType DEF CacheType
  <2>7. Sized(Labels, Put \union {c}, Need', overlaps')
    BY <1>0, <2>1, <2>2, <2>3, <2>4, <2>5, <2>6, SizedBegun DEF SizeInv
  <2> QED BY <1>3, <2>1, <2>7 DEF SizeInv
<1>9. ASSUME AgreeInv PROVE AgreeInv'
  <2>1. \A d \in Callers : Agreed(op'[d], Linked', unremoved')
    BY <1>1, <1>3, <1>4, <1>9 DEF AgreeInv, Agreed, Linking
  <2>2. ASSUME NEW d \in Callers, op[d].at \in Linking \union {"unlink"} PROVE op'[d] = op[d]
    BY <1>2, <1>4, <2>2 DEF Linking
  <2> QED BY <1>3, <1>9, <2>1, <2>2 DEF AgreeInv, Linking
<1> QED BY <1>6, <1>7, <1>8, <1>9 DEF CachesInv

LEMMA AddCache ==
    ASSUME CachesInv, dropped' = dropped, NEW c \in Callers, AddToIndex(c)
    PROVE  CachesInv'
<1> DEFINE p == [op[c] EXCEPT !.at = "choose"]
           l == op[c].label
           i == [label |-> op[c].label, key |-> op[c].key]
<1>0. CacheType /\ LabelsInv /\ SizeInv /\ CacheTypeOK /\ op[c] \in CacheOps
  BY DEF CachesInv, LabelsInv, CacheType
<1>1. p \in CacheOps /\ p.at = "choose" /\ p.label = l /\ p.oldest = op[c].oldest
  BY <1>0, OpMoved DEF CachePlaces
<1>2. Moves(c, p) /\ op[c].at = "add"
  BY DEF AddToIndex, Goes, At
<1>3. /\ Labels' = Labels /\ index' = index \union {i}
      /\ next_label' = next_label /\ overlaps' = overlaps /\ unremoved' = unremoved
  BY DEF AddToIndex, Labels
<1>4. i.label = l
  OBVIOUS
<1> HIDE DEF p, i
<1>5. Linked' = Linked \union {l}
  BY <1>3, <1>4 DEF Linked
<1>6. /\ op' \in [Callers -> CacheOps] /\ op'[c] = p
      /\ \A d \in Callers : d # c => op'[d] = op[d]
  BY <1>0, <1>1, <1>2, CallerMoves
<1>7. l \in Nat
  BY <1>0 DEF CacheOps
<1>8. CacheType'
  BY <1>0, <1>3, <1>5, <1>6, <1>7 DEF CacheType
<1>9. l \notin Linked /\ l \notin Labels /\ l < next_label /\ op[c].oldest = {}
  BY <1>0, <1>2 DEF LabelsInv, LabelOK, PutPlaces
<1>10. \A d \in Callers \ {c} : l \notin op[d].oldest /\ (op[d].at \in PutPlaces => op[d].label # l)
  BY <1>0, <1>2 DEF LabelsInv, Apart, PutPlaces
<1>11. LabelsInv'
  <2>1. CacheTypeOK'
    <3>1. \A k \in Labels' \union Linked' : k < next_label'
      BY <1>0, <1>3, <1>5, <1>9 DEF CacheTypeOK, Linked
    <3>2. \A j \in index : j.label # l
      BY <1>9 DEF Linked
    <3>3. ASSUME NEW j \in index', NEW k \in index', j.label = k.label PROVE j = k
      BY <1>0, <1>3, <1>4, <3>2, <3>3 DEF CacheTypeOK
    <3> QED BY <3>1, <3>3 DEF CacheTypeOK, Linked
  <2>2. LabelOK(op'[c], Labels', Linked', next_label')
    BY <1>1, <1>3, <1>6, <1>9 DEF LabelOK, PutPlaces
  <2>3. ASSUME NEW d \in Callers \ {c}
        PROVE  /\ op'[d] = op[d] /\ LabelOK(op[d], Labels', Linked', next_label')
               /\ Apart(op'[c], op[d]) /\ Apart(op[d], op'[c])
    <3>1. Apart(op[c], op[d]) /\ Apart(op[d], op[c]) /\ LabelOK(op[d], Labels, Linked, next_label)
      BY <1>0 DEF LabelsInv
    <3>3. LabelOK(op[d], Labels', Linked', next_label')
      BY <1>3, <1>5, <1>10, <3>1 DEF LabelOK, PutPlaces
    <3> QED BY <1>1, <1>2, <1>6, <3>1, <3>3 DEF Apart, PutPlaces
  <2> QED BY <1>0, <2>1, <2>2, <2>3, LabelsStep
<1>12. SizeInv'
  <2>1. Need'[c] = 0 /\ Need[c] = 0
    BY <1>1, <1>2, <1>6 DEF Need
  <2>2. op[c].at \in PutPlaces
    BY <1>2 DEF PutPlaces
  <2> QED BY <1>0, <1>3, <1>6, <1>8, <2>1, <2>2, SizeStep
<1>13. ASSUME AgreeInv PROVE AgreeInv'
  <2>1. ASSUME NEW d \in Callers PROVE Agreed(op'[d], Linked', unremoved')
    BY <1>1, <1>3, <1>5, <1>6, <1>10, <1>13 DEF AgreeInv, Agreed
  <2>2. ASSUME NEW d \in Callers, op[d].at \in Linking \union {"unlink"} PROVE op'[d] = op[d]
    BY <1>2, <1>6, <2>2 DEF Linking
  <2>3. ASSUME NEW k \in Linked'
        PROVE  k \in Labels' \union unremoved' \/
                 \E d \in Callers : op'[d].at \in Linking \union {"unlink"} /\ k = op'[d].label
    <3>1. CASE k = l
      BY <1>1, <1>6, <3>1 DEF Linking
    <3>2. CASE k \in Linked
      BY <1>3, <1>13, <2>2, <3>2 DEF AgreeInv
    <3> QED BY <1>5, <3>1, <3>2
  <2>4. ASSUME NEW k \in Labels'
        PROVE  k \in Linked' \/ \E d \in Callers : op'[d].at = "insert" /\ k \in op'[d].oldest
    BY <1>3, <1>5, <1>13, <2>2 DEF AgreeInv, Linking
  <2> QED BY <2>1, <2>3, <2>4 DEF AgreeInv
<1> QED BY <1>8, <1>11, <1>12, <1>13 DEF CachesInv

\* The put chooses the oldest entry of a full cache.
LEMMA ChooseMoves ==
    ASSUME CachesInv, NEW c \in Callers, ChooseOldest(c)
    PROVE  \E p \in CacheOps :
             /\ Moves(c, p) /\ p.label = op[c].label
             /\ \/ /\ p.at = "unlink_oldest"
                   /\ \E l \in Labels : p.oldest = {l}
                \/ p.at = "insert" /\ p.oldest = op[c].oldest /\ Cardinality(Labels) < max_entries
<1>0. op[c] \in CacheOps /\ Labels \in SUBSET Nat /\ IsFiniteSet(Labels)
  BY DEF CachesInv, CacheType
<1>1. CASE Cardinality(Labels) >= max_entries
  <2> DEFINE l == CHOOSE l \in Labels : \A k \in Labels : l <= k
             p == [op[c] EXCEPT !.at = "unlink_oldest", !.oldest = {l}]
  <2>1. Labels # {}
    BY <1>1, ConstantFacts, FS_EmptySet
  <2>2. l \in Labels /\ l \in Nat
    BY <1>0, <2>1, LeastExists
  <2>3. Moves(c, p)
    BY <1>1 DEF ChooseOldest
  <2> HIDE DEF l
  <2>4. p \in CacheOps /\ p.at = "unlink_oldest" /\ p.label = op[c].label /\ p.oldest = {l}
    BY <1>0, <2>2 DEF CacheOps, CachePlaces
  <2> QED BY <2>2, <2>3, <2>4
<1>2. CASE ~(Cardinality(Labels) >= max_entries)
  <2> DEFINE p == [op[c] EXCEPT !.at = "insert"]
  <2>1. p \in CacheOps /\ p.at = "insert" /\ p.label = op[c].label /\ p.oldest = op[c].oldest
    BY <1>0, OpMoved DEF CachePlaces
  <2>2. Moves(c, p)
    BY <1>2 DEF ChooseOldest, Goes
  <2>3. Cardinality(Labels) < max_entries
    BY <1>0, <1>2, ConstantFacts, FS_CardinalityType
  <2> QED BY <2>1, <2>2, <2>3
<1> QED BY <1>1, <1>2

LEMMA ChooseCache ==
    ASSUME CachesInv, dropped' = dropped, NEW c \in Callers, ChooseOldest(c)
    PROVE  CachesInv'
<1>0. CacheType /\ LabelsInv /\ SizeInv /\ CacheTypeOK /\ op[c] \in CacheOps
  BY DEF CachesInv, LabelsInv, CacheType
<1>1. PICK p \in CacheOps :
        /\ Moves(c, p) /\ p.label = op[c].label
        /\ \/ p.at = "unlink_oldest" /\ \E l \in Labels : p.oldest = {l}
           \/ p.at = "insert" /\ p.oldest = op[c].oldest /\ Cardinality(Labels) < max_entries
  BY ChooseMoves
<1>2. op[c].at = "choose"
  BY DEF ChooseOldest, At
<1>3. /\ Labels' = Labels /\ Linked' = Linked /\ next_label' = next_label
      /\ overlaps' = overlaps /\ unremoved' = unremoved /\ index' = index
  BY DEF ChooseOldest, Labels, Linked
<1>4. /\ op' \in [Callers -> CacheOps] /\ op'[c] = p
      /\ \A d \in Callers : d # c => op'[d] = op[d]
  BY <1>0, <1>1, CallerMoves
<1>5. CacheType'
  BY <1>0, <1>3, <1>4 DEF CacheType
<1>6. LabelOK(op[c], Labels, Linked, next_label) /\ op[c].oldest = {}
  BY <1>0, <1>2 DEF LabelsInv, LabelOK
<1>7. p.oldest \subseteq Labels /\ p.at \in {"unlink_oldest", "insert"} /\ p.label = op[c].label
  BY <1>1, <1>6
<1>8. LabelsInv'
  <2>1. CacheTypeOK'
    BY <1>0, <1>3 DEF CacheTypeOK
  <2>2. LabelOK(op'[c], Labels', Linked', next_label')
    <3>1. \A k \in p.oldest : k < next_label
      BY <1>0, <1>7 DEF CacheTypeOK
    <3>2. op[c].label \notin Labels /\ op[c].label < next_label
      BY <1>2, <1>6 DEF LabelOK, PutPlaces
    <3> QED BY <1>3, <1>4, <1>7, <3>1, <3>2 DEF LabelOK
  <2>3. ASSUME NEW d \in Callers \ {c}
        PROVE  /\ op'[d] = op[d] /\ LabelOK(op[d], Labels', Linked', next_label')
               /\ Apart(op'[c], op[d]) /\ Apart(op[d], op'[c])
    <3>1. Apart(op[c], op[d]) /\ Apart(op[d], op[c]) /\ LabelOK(op[d], Labels, Linked, next_label)
      BY <1>0 DEF LabelsInv
    <3>2. op[d].at \in PutPlaces => op[d].label \notin p.oldest
      BY <1>7, <3>1 DEF LabelOK
    <3>3. Apart(p, op[d])
      BY <1>2, <1>7, <3>1 DEF Apart, PutPlaces
    <3>4. Apart(op[d], p)
      BY <1>2, <1>7, <3>1, <3>2 DEF Apart, PutPlaces
    <3> QED BY <1>3, <1>4, <3>1, <3>3, <3>4
  <2> QED BY <1>0, <2>1, <2>2, <2>3, LabelsStep
<1>9. SizeInv'
  <2>1. op[c].at \in PutPlaces /\ op'[c].at \in PutPlaces
    BY <1>2, <1>4, <1>7 DEF PutPlaces
  <2>2. CASE p.at = "unlink_oldest"
    <3>1. Need'[c] = 0 /\ Need[c] = 0
      BY <1>1, <1>2, <1>3, <1>4, <2>2 DEF Need
    <3> QED BY <1>0, <1>3, <1>4, <1>5, <2>1, <3>1, SizeStep
  <2>3. CASE p.at = "insert"
    <3>1. Put' = Put /\ Put \in SUBSET Callers /\ c \in Put
      BY <1>4, <2>1 DEF Put, Putting, PutPlaces
    <3>2. Need'[c] \in {0, 1} /\ \A f \in Put \ {c} : Need'[f] = Need[f]
      BY <1>3, <1>4, <3>1 DEF Need
    <3>3. Cardinality(Labels) \in Nat /\ overlaps \in Nat /\ Cardinality(Labels) < max_entries
      BY <1>0, <1>1, <2>3, FS_CardinalityType DEF CacheType
    <3>4. Sized(Labels, Put, Need', overlaps)
      BY <1>0, <3>1, <3>2, <3>3, SizedChosen DEF SizeInv
    <3> QED BY <1>3, <3>1, <3>4 DEF SizeInv
  <2> QED BY <1>7, <2>2, <2>3
<1>10. ASSUME AgreeInv PROVE AgreeInv'
  <2>1. Agreed(op'[c], Linked', unremoved')
    <3>1. op[c].label \in Linked
      BY <1>2, <1>10 DEF AgreeInv, Agreed, Linking
    <3>2. p.at = "insert" => p.oldest = {}
      BY <1>1, <1>6
    <3> QED BY <1>3, <1>4, <1>7, <3>1, <3>2 DEF Agreed
  <2>2. \A d \in Callers : Agreed(op'[d], Linked', unremoved')
    BY <1>3, <1>4, <1>10, <2>1 DEF AgreeInv
  <2>3. ASSUME NEW k \in Linked'
        PROVE  k \in Labels' \union unremoved' \/
                 \E d \in Callers : op'[d].at \in Linking \union {"unlink"} /\ k = op'[d].label
    BY <1>3, <1>4, <1>7, <1>10 DEF AgreeInv, Linking
  <2>4. ASSUME NEW k \in Labels'
        PROVE  k \in Linked' \/ \E d \in Callers : op'[d].at = "insert" /\ k \in op'[d].oldest
    BY <1>2, <1>3, <1>4, <1>10 DEF AgreeInv
  <2> QED BY <2>2, <2>3, <2>4 DEF AgreeInv
<1> QED BY <1>5, <1>8, <1>9, <1>10 DEF CachesInv

LEMMA UnlinkOldestCache ==
    ASSUME CachesInv, dropped' = dropped, NEW c \in Callers, UnlinkOldest(c)
    PROVE  CachesInv'
<1> DEFINE p == [op[c] EXCEPT !.at = "insert"]
<1>0. CacheType /\ LabelsInv /\ SizeInv /\ CacheTypeOK /\ op[c] \in CacheOps
  BY DEF CachesInv, LabelsInv, CacheType
<1>1. p \in CacheOps /\ p.at = "insert" /\ p.label = op[c].label /\ p.oldest = op[c].oldest
  BY <1>0, OpMoved DEF CachePlaces
<1>2. Moves(c, p) /\ op[c].at = "unlink_oldest"
  BY DEF UnlinkOldest, Goes, At
<1>3. /\ Labels' = Labels /\ index' \subseteq index
      /\ Linked' \subseteq Linked /\ Linked \ op[c].oldest \subseteq Linked'
      /\ Linked' \intersect op[c].oldest \subseteq unremoved' /\ unremoved \subseteq unremoved'
      /\ next_label' = next_label /\ overlaps' = overlaps
  BY Removal DEF UnlinkOldest, Labels
<1> HIDE DEF p
<1>4. /\ op' \in [Callers -> CacheOps] /\ op'[c] = p
      /\ \A d \in Callers : d # c => op'[d] = op[d]
  BY <1>0, <1>1, <1>2, CallerMoves
<1>5. CacheType'
  BY <1>0, <1>3, <1>4 DEF CacheType
<1>6. \A d \in Callers : op[d].at \in PutPlaces => op[d].label \notin op[c].oldest
  BY <1>0 DEF LabelsInv, LabelOK, Apart
<1>7. LabelsInv'
  <2>1. CacheTypeOK'
    BY <1>0, <1>3 DEF CacheTypeOK
  <2>2. LabelOK(op'[c], Labels', Linked', next_label')
    <3>1. LabelOK(op[c], Labels, Linked, next_label)
      BY <1>0 DEF LabelsInv
    <3> QED BY <1>1, <1>2, <1>3, <1>4, <3>1 DEF LabelOK, PutPlaces
  <2>3. ASSUME NEW d \in Callers \ {c}
        PROVE  /\ op'[d] = op[d] /\ LabelOK(op[d], Labels', Linked', next_label')
               /\ Apart(op'[c], op[d]) /\ Apart(op[d], op'[c])
    <3>1. Apart(op[c], op[d]) /\ Apart(op[d], op[c]) /\ LabelOK(op[d], Labels, Linked, next_label)
      BY <1>0 DEF LabelsInv
    <3>2. LabelOK(op[d], Labels', Linked', next_label')
      BY <1>3, <3>1 DEF LabelOK
    <3> QED BY <1>1, <1>2, <1>4, <3>1, <3>2 DEF Apart, PutPlaces
  <2> QED BY <1>0, <2>1, <2>2, <2>3, LabelsStep
<1>8. SizeInv'
  <2>1. Need'[c] = Need[c] /\ Need[c] \in {0, 1}
    BY <1>1, <1>2, <1>3, <1>4 DEF Need
  <2>2. op[c].at \in PutPlaces
    BY <1>2 DEF PutPlaces
  <2> QED BY <1>0, <1>3, <1>4, <1>5, <2>1, <2>2, SizeStep
<1>9. ASSUME AgreeInv PROVE AgreeInv'
  <2>1. ASSUME NEW d \in Callers PROVE Agreed(op'[d], Linked', unremoved')
    <3>1. Agreed(op[d], Linked, unremoved) /\ Agreed(op[c], Linked, unremoved)
      BY <1>9 DEF AgreeInv
    <3>2. CASE d = c
      BY <1>1, <1>2, <1>3, <1>4, <1>6, <3>1, <3>2 DEF Agreed, Linking, PutPlaces
    <3>3. CASE d # c
      BY <1>3, <1>4, <1>6, <3>1, <3>3 DEF Agreed, Linking, PutPlaces
    <3> QED BY <3>2, <3>3
  <2>2. ASSUME NEW k \in Linked'
        PROVE  k \in Labels' \union unremoved' \/
                 \E d \in Callers : op'[d].at \in Linking \union {"unlink"} /\ k = op'[d].label
    BY <1>1, <1>3, <1>4, <1>9 DEF AgreeInv, Linking
  <2>3. ASSUME NEW k \in Labels'
        PROVE  k \in Linked' \/ \E d \in Callers : op'[d].at = "insert" /\ k \in op'[d].oldest
    <3>1. CASE k \in op[c].oldest
      BY <1>1, <1>4, <3>1
    <3>2. CASE k \notin op[c].oldest
      BY <1>2, <1>3, <1>4, <1>9, <3>2 DEF AgreeInv
    <3> QED BY <3>1, <3>2
  <2> QED BY <2>1, <2>2, <2>3 DEF AgreeInv
<1> QED BY <1>5, <1>7, <1>8, <1>9 DEF CachesInv

\* The entry takes the place of the oldest one.
LEMMA InsertCache ==
    ASSUME CachesInv, dropped' = dropped, NEW c \in Callers, InsertEntry(c)
    PROVE  CachesInv'
<1> DEFINE l == op[c].label
           old == op[c].oldest
<1>0. CacheType /\ LabelsInv /\ SizeInv /\ CacheTypeOK /\ op[c] \in CacheOps
  BY DEF CachesInv, LabelsInv, CacheType
<1>1. Moves(c, NoCacheOp) /\ op[c].at = "insert"
  BY DEF InsertEntry, Leaves, At
<1>2. /\ Labels' = (Labels \ old) \union {l} /\ Linked' = Linked /\ index' = index
      /\ next_label' = next_label /\ overlaps' = overlaps /\ unremoved' = unremoved
  BY DEF InsertEntry, Labels, Linked
<1>3. /\ op' \in [Callers -> CacheOps] /\ op'[c] = NoCacheOp
      /\ \A d \in Callers : d # c => op'[d] = op[d]
  BY <1>0, <1>1, NoOp, CallerMoves
<1>4. l \in Nat /\ old \subseteq Nat /\ l \notin Labels /\ l < next_label
  BY <1>0, <1>1 DEF CacheOps, LabelsInv, LabelOK, PutPlaces
<1>5. /\ IsFiniteSet(Labels) /\ IsFiniteSet(Labels \ old) /\ IsFiniteSet(Labels')
      /\ Cardinality(Labels) \in Nat /\ Cardinality(Labels \ old) \in Nat
      /\ Cardinality(Labels') \in Nat /\ Cardinality(Labels') = Cardinality(Labels \ old) + 1
  <2>1. IsFiniteSet(Labels) /\ IsFiniteSet(Labels \ old)
    BY <1>0, FS_Subset DEF CacheType
  <2>2. l \notin Labels \ old
    BY <1>4
  <2>3. IsFiniteSet(Labels') /\ Cardinality(Labels') = Cardinality(Labels \ old) + 1
    BY <1>2, <2>1, <2>2, FS_AddElement
  <2> QED BY <2>1, <2>3, FS_CardinalityType
<1>6. CacheType'
  BY <1>0, <1>2, <1>3, <1>4, <1>5 DEF CacheType
<1>7. \A d \in Callers \ {c} :
         /\ l \notin op[d].oldest
         /\ op[d].at \in PutPlaces \union {"unlink"} => op[d].label # l
  BY <1>0, <1>1 DEF LabelsInv, Apart, PutPlaces
<1>8. LabelsInv'
  <2>1. CacheTypeOK'
    BY <1>0, <1>2, <1>4 DEF CacheTypeOK
  <2>2. LabelOK(op'[c], Labels', Linked', next_label')
    BY <1>3, NoOp DEF LabelOK, PutPlaces
  <2>3. ASSUME NEW d \in Callers \ {c}
        PROVE  /\ op'[d] = op[d] /\ LabelOK(op[d], Labels', Linked', next_label')
               /\ Apart(op'[c], op[d]) /\ Apart(op[d], op'[c])
    <3>1. LabelOK(op[d], Labels, Linked, next_label)
      BY <1>0 DEF LabelsInv
    <3>2. LabelOK(op[d], Labels', Linked', next_label')
      BY <1>2, <1>7, <3>1 DEF LabelOK, PutPlaces
    <3> QED BY <1>3, <3>2, NoOp DEF Apart, PutPlaces
  <2> QED BY <1>0, <2>1, <2>2, <2>3, LabelsStep
<1>9. SizeInv'
  <2>1. Put' = Put \ {c} /\ Put \in SUBSET Callers /\ c \in Put
    BY <1>1, <1>3, NoOp DEF Put, Putting
  <2>2. \A f \in Callers : Need[f] \in {0, 1} /\ Need'[f] \in {0, 1}
    BY DEF Need
  <2>3. /\ Cardinality(Labels') <= Cardinality(Labels) + Need[c]
        /\ \A f \in Put \ {c} : Cardinality(Labels') + Need'[f] <= Cardinality(Labels) + Need[f] + 1
    <3>1. CASE old \intersect Labels = {}
      <4>1. Labels \ old = Labels /\ Need[c] = 1
        BY <1>1, <3>1 DEF Need
      <4>2. ASSUME NEW f \in Put \ {c} PROVE Need'[f] <= Need[f]
        <5>1. f \in Callers /\ op'[f] = op[f] /\ Labels \subseteq Labels'
          BY <1>2, <1>3, <2>1, <4>1
        <5>2. Need'[f] = 1 => Need[f] = 1
          BY <5>1 DEF Need
        <5> QED BY <2>2, <5>1, <5>2
      <4>3. Cardinality(Labels') = Cardinality(Labels) + 1
        BY <1>5, <4>1
      <4>4. ASSUME NEW f \in Put \ {c} PROVE Need'[f] \in {0, 1} /\ Need[f] \in {0, 1}
        BY <2>1, <2>2
      <4> QED BY <1>5, <4>1, <4>2, <4>3, <4>4
    <3>2. CASE old \intersect Labels # {}
      <4>1. PICK k \in Labels : k \in old
        BY <3>2
      <4>2. Labels \ old \in SUBSET (Labels \ {k})
        BY <4>1
      <4>3. /\ IsFiniteSet(Labels \ {k}) /\ Cardinality(Labels \ {k}) = Cardinality(Labels) - 1
        BY <1>5, FS_RemoveElement
      <4>4. Cardinality(Labels \ old) <= Cardinality(Labels \ {k})
        BY <4>2, <4>3, FS_Subset
      <4>5. Cardinality(Labels') <= Cardinality(Labels)
        BY <1>5, <4>3, <4>4
      <4>6. ASSUME NEW f \in Put \ {c} PROVE Need'[f] \in {0, 1} /\ Need[f] \in {0, 1}
        BY <2>1, <2>2
      <4> QED BY <1>5, <2>2, <4>5, <4>6
    <3> QED BY <3>1, <3>2
  <2>4. Sized(Labels', Put \ {c}, Need', overlaps)
    BY <1>0, <1>5, <2>1, <2>2, <2>3, SizedInserted DEF SizeInv, CacheType
  <2> QED BY <1>2, <2>1, <2>4 DEF SizeInv
<1>10. ASSUME AgreeInv PROVE AgreeInv'
  <2>1. \A d \in Callers : Agreed(op'[d], Linked', unremoved')
    BY <1>2, <1>3, <1>10, NoOp DEF AgreeInv, Agreed, Linking
  <2>2. old \intersect Linked \subseteq unremoved /\ l \in Linked
    BY <1>1, <1>10 DEF AgreeInv, Agreed, Linking
  <2>3. ASSUME NEW k \in Linked'
        PROVE  k \in Labels' \union unremoved' \/
                 \E d \in Callers : op'[d].at \in Linking \union {"unlink"} /\ k = op'[d].label
    <3>1. CASE k \in Labels
      BY <1>2, <2>2, <3>1
    <3>2. ASSUME NEW d \in Callers, op[d].at \in Linking \union {"unlink"}, k = op[d].label
          PROVE  k \in Labels' \union unremoved' \/
                   \E f \in Callers : op'[f].at \in Linking \union {"unlink"} /\ k = op'[f].label
      BY <1>2, <1>3, <3>2
    <3> QED BY <1>2, <1>10, <3>1, <3>2 DEF AgreeInv
  <2>4. ASSUME NEW k \in Labels'
        PROVE  k \in Linked' \/ \E d \in Callers : op'[d].at = "insert" /\ k \in op'[d].oldest
    <3>1. CASE k = l
      BY <1>2, <2>2, <3>1
    <3>2. CASE k \in Labels /\ k \notin old
      BY <1>2, <1>3, <1>10, <3>2 DEF AgreeInv
    <3> QED BY <1>2, <3>1, <3>2
  <2> QED BY <2>1, <2>3, <2>4 DEF AgreeInv
<1> QED BY <1>6, <1>8, <1>9, <1>10 DEF CachesInv

\* Callers that are dropped leave at once; what they spawned reaches the index.
LEMMA AbandonCache ==
    ASSUME CachesInv, dropped' = TRUE, NEW C \in SUBSET Callers, Abandon(C)
    PROVE  CachesInv'
<1>a. PICK D \in SUBSET C :
        /\ index' = {i \in index \union Adding(D) : i.label \notin Removing(D)}
        /\ op' = [c \in Callers |-> IF c \in C THEN NoCacheOp ELSE op[c]]
        /\ UNCHANGED <<entries, next_label, overlaps, unremoved>>
  BY DEF Abandon
<1> DEFINE gone == Removing(D)
           new == Adding(D)
<1>0. CacheType /\ LabelsInv /\ SizeInv /\ CacheTypeOK /\ \A c \in Callers : op[c] \in CacheOps
  BY DEF CachesInv, LabelsInv, CacheType
<1>1. /\ index' = {i \in index \union new : i.label \notin gone}
      /\ op' = [c \in Callers |-> IF c \in C THEN NoCacheOp ELSE op[c]]
      /\ Labels' = Labels /\ next_label' = next_label /\ overlaps' = overlaps
  BY <1>a DEF Labels
<1>2. /\ op' \in [Callers -> CacheOps]
      /\ \A c \in Callers : op'[c] = IF c \in C THEN NoCacheOp ELSE op[c]
  BY <1>0, <1>1, NoOp
<1>3. index' \subseteq index \union new
  BY <1>1
<1>4. ASSUME NEW i \in new
      PROVE  \E c \in Callers : /\ c \in C /\ op[c].at = "add" /\ i.label = op[c].label
                                /\ i.key = op[c].key /\ i = [label |-> op[c].label, key |-> op[c].key]
  BY DEF Adding, At
<1> HIDE DEF gone, new
<1>5. ASSUME NEW c \in Callers, op[c].at = "add"
      PROVE  /\ op[c].label \notin Linked /\ op[c].label < next_label /\ op[c].label \in Nat
             /\ \A d \in Callers : d # c /\ op[d].at \in PutPlaces => op[d].label # op[c].label
  <2>1. op[c] \in CacheOps /\ LabelOK(op[c], Labels, Linked, next_label)
    BY <1>0 DEF LabelsInv
  <2>2. \A d \in Callers : d # c => Apart(op[d], op[c])
    BY <1>0 DEF LabelsInv
  <2> QED BY <1>5, <2>1, <2>2 DEF LabelOK, Apart, CacheOps, PutPlaces
<1>6. \A k \in Linked' : \/ k \in Linked
                         \/ \E c \in Callers : c \in C /\ op[c].at = "add" /\ k = op[c].label
  BY <1>3, <1>4 DEF Linked
<1>7. CacheType'
  <2>1. ASSUME NEW k \in Linked' PROVE k \in Nat
    <3>1. CASE k \in Linked
      BY <1>0, <3>1 DEF CacheType
    <3>2. ASSUME NEW c \in Callers, op[c].at = "add", k = op[c].label PROVE k \in Nat
      BY <1>5, <3>2
    <3> QED BY <1>6, <3>1, <3>2
  <2> QED BY <1>0, <1>1, <1>2, <2>1 DEF CacheType
<1>8. LabelsInv'
  <2>1. \A k \in Labels' \union Linked' : k < next_label'
    <3>1. \A k \in Labels \union Linked : k < next_label
      BY <1>0 DEF CacheTypeOK, Linked
    <3> QED BY <1>1, <1>5, <1>6, <3>1
  <2>2. ASSUME NEW i \in index', NEW j \in index', i.label = j.label PROVE i = j
    <3>1. \A h \in index : h.label \in Linked
      BY DEF Linked
    <3>2. CASE i \in index /\ j \in index
      BY <1>0, <2>2, <3>2 DEF CacheTypeOK
    <3>3. CASE i \in new /\ j \in new
      <4>1. PICK c \in Callers : op[c].at = "add" /\ i = [label |-> op[c].label, key |-> op[c].key]
                                 /\ i.label = op[c].label
        BY <1>4, <3>3
      <4>2. PICK d \in Callers : op[d].at = "add" /\ j = [label |-> op[d].label, key |-> op[d].key]
                                 /\ j.label = op[d].label
        BY <1>4, <3>3
      <4>3. c = d
        BY <1>5, <2>2, <4>1, <4>2 DEF PutPlaces
      <4> QED BY <4>1, <4>2, <4>3
    <3>4. CASE i \in new /\ j \in index
      BY <1>4, <1>5, <2>2, <3>1, <3>4
    <3>5. CASE i \in index /\ j \in new
      BY <1>4, <1>5, <2>2, <3>1, <3>5
    <3> QED BY <1>3, <3>2, <3>3, <3>4, <3>5
  <2>3. CacheTypeOK'
    BY <2>1, <2>2 DEF CacheTypeOK, Linked
  <2>4. ASSUME NEW d \in Callers PROVE LabelOK(op'[d], Labels', Linked', next_label')
    <3>1. CASE d \in C
      BY <1>2, <3>1, NoOp DEF LabelOK, PutPlaces
    <3>2. CASE d \notin C
      <4>1. op'[d] = op[d] /\ LabelOK(op[d], Labels, Linked, next_label)
        BY <1>0, <1>2, <3>2 DEF LabelsInv
      <4>2. op[d].at = "add" => op[d].label \notin Linked'
        BY <1>5, <1>6, <3>2 DEF PutPlaces
      <4> QED BY <1>1, <4>1, <4>2 DEF LabelOK
    <3> QED BY <3>1, <3>2
  <2>5. ASSUME NEW d \in Callers, NEW f \in Callers, d # f PROVE Apart(op'[d], op'[f])
    <3>1. Apart(op[d], op[f])
      BY <1>0, <2>5 DEF LabelsInv
    <3>2. op'[d] \in {NoCacheOp, op[d]} /\ op'[f] \in {NoCacheOp, op[f]}
      BY <1>2
    <3> QED BY <3>1, <3>2, NoOp DEF Apart, PutPlaces
  <2> QED BY <2>3, <2>4, <2>5 DEF LabelsInv
<1>9. SizeInv'
  <2>1. Put' \in SUBSET Put /\ Put \in SUBSET Callers
    BY <1>2, NoOp DEF Put, Putting
  <2>2. \A f \in Callers : Need[f] \in {0, 1} /\ Need'[f] \in {0, 1}
    BY DEF Need
  <2>3. ASSUME NEW f \in Put' PROVE Need'[f] <= Need[f]
    <3>1. f \in Callers /\ op'[f] = op[f]
      BY <1>2, <2>3, NoOp DEF Put, Putting
    <3>2. Need'[f] = Need[f]
      BY <1>1, <3>1 DEF Need
    <3> QED BY <2>2, <3>1, <3>2
  <2>4. Cardinality(Labels) \in Nat /\ overlaps \in Nat
    BY <1>0, FS_CardinalityType DEF CacheType
  <2>5. Sized(Labels, Put', Need', overlaps)
    BY <1>0, <2>1, <2>2, <2>3, <2>4, SizedLess DEF SizeInv
  <2> QED BY <1>1, <2>5 DEF SizeInv
<1> QED BY <1>7, <1>8, <1>9 DEF CachesInv

\* The labels are all that matters of the entries.
LEMMA SameCache ==
    ASSUME CachesInv, Labels' = Labels, UNCHANGED <<index, next_label, op, overlaps, unremoved, dropped>>
    PROVE  CachesInv'
<1>1. Linked' = Linked
  BY DEF Linked
<1>2. CacheType' /\ LabelsInv'
  BY <1>1 DEF CachesInv, CacheType, LabelsInv, CacheTypeOK
<1>3. AgreeInv => AgreeInv'
  BY <1>1 DEF AgreeInv
<1>4. SizeInv'
  <2>1. Put' = Put
    BY DEF Put, Putting
  <2>2. Need' = Need
    BY Zenon DEF Need
  <2> QED BY <2>1, <2>2 DEF CachesInv, SizeInv
<1> QED BY <1>2, <1>3, <1>4 DEF CachesInv

LEMMA KeyType == ASSUME NodesInv, NEW n \in Nodes PROVE cache_key(n) \in Keys
<1>1. exec[n].iteration \in Nat /\ exec[n].fallback \in BOOLEAN /\ shape \in Shapes
  BY DEF NodesInv, RuntimeType, Executions
<1> QED BY <1>1 DEF cache_key, Keys

\* What a step does to the cache.
CallerActs(c) ==
    \/ \E key \in Keys : LookupBegins(c, key)
    \/ SearchIndex(c) \/ ReadExpired(c) \/ LookupMisses(c) \/ PutSkipped(c)
    \/ \E usage \in Nat : LookupHits(c, usage)
    \/ EvictExpired(c) \/ UnlinkExpired(c) \/ AddToIndex(c) \/ ChooseOldest(c)
    \/ UnlinkOldest(c) \/ InsertEntry(c)
    \/ \E key \in Keys, usage \in Nat : PutBegins(c, key, usage)

LEMMA CallerCache ==
    ASSUME CachesInv, dropped' = dropped, NEW c \in Callers, CallerActs(c)
    PROVE  CachesInv'
BY LookupCache, EvictCache, UnlinkCache, PutBeginsCache, AddCache, ChooseCache,
   UnlinkOldestCache, InsertCache DEF CallerActs

LEMMA StepCallers ==
    ASSUME NodesInv, NEW n \in Nodes, Step(n)
    PROVE  dropped' = dropped /\ (UNCHANGED cache \/ CallerActs(n))
<1>0. exec[n].usage \in Nat /\ shape.usages \subseteq Nat
  BY ShapeFacts DEF NodesInv, RuntimeType, Executions
<1>1. CASE GateDecides(n) \/ ControlPasses(n) \/ SubgraphBatch(n) \/ SubgraphStep(n)
  BY <1>1 DEF GateDecides, ControlPasses, SubgraphBatch, SubgraphStep, history
<1>2. CASE AttemptBegins(n) \/ CheckQuota(n) \/ ProviderFails(n)
           \/ \E u \in shape.usages, calls \in shape.requests : ProviderAnswers(n, u, calls)
  BY <1>2 DEF AttemptBegins, CheckQuota, ProviderFails, ProviderAnswers, history
<1>3. CASE RecordUsage(n) \/ RunTool(n) \/ NextRound(n)
  BY <1>3 DEF RecordUsage, RunTool, NextRound, history
<1>4. CASE BeginLookup(n)
  BY <1>4, KeyType DEF BeginLookup, CallerActs, history
<1>5. CASE CacheMisses(n)
  BY <1>5 DEF CacheMisses, CallerActs, history
<1>6. ASSUME NEW u \in shape.usages, CacheHits(n, u)
      PROVE  dropped' = dropped /\ (UNCHANGED cache \/ CallerActs(n))
  BY <1>0, <1>6 DEF CacheHits, CallerActs
<1>7. CASE BeginPut(n)
  BY <1>0, <1>7, KeyType DEF BeginPut, CallerActs, history
<1>8. CASE EndPut(n)
  BY <1>8 DEF EndPut, CallerActs, history
<1>9. CASE InCache(n)
  BY <1>9 DEF InCache, CacheStep, CallerActs, history
<1> QED BY <1>1, <1>2, <1>3, <1>4, <1>5, <1>6, <1>7, <1>8, <1>9 DEF Step

LEMMA CachesNext ==
    ASSUME NodesInv, CachesInv, [Next]_vars
    PROVE  CachesInv'
<1>1. ASSUME UNCHANGED cache, dropped' = dropped PROVE CachesInv'
  BY <1>1, SameCache DEF cache, Labels
<1>2. CASE UNCHANGED vars
  BY <1>1, <1>2 DEF vars
<1>3. ASSUME NEW l \in Labels, Expiry(l) PROVE CachesInv'
  <2>1. Labels' = Labels /\ UNCHANGED <<index, next_label, op, overlaps, unremoved, dropped>>
    BY <1>3 DEF Expiry, EntryExpires, Labels, history
  <2> QED BY <2>1, SameCache
<1>4. ASSUME NEW n \in Nodes, Start(n) PROVE CachesInv'
  BY <1>1, <1>4 DEF Start, history
<1>5. ASSUME NEW n \in Nodes, Drop(n) PROVE CachesInv'
  <2> DEFINE C == {m \in Nodes : exec'[m].pc = "dropped"}
  <2>1. Abandon(C) /\ dropped' = TRUE
    BY <1>5 DEF Drop
  <2>2. C \in SUBSET Callers
    BY ConstantFacts
  <2> HIDE DEF C
  <2> QED BY <2>1, <2>2, AbandonCache
<1>6. ASSUME NEW n \in Nodes, Step(n) PROVE CachesInv'
  <2>1. n \in Callers
    BY ConstantFacts
  <2> QED BY <1>1, <1>6, <2>1, StepCallers, CallerCache
<1> QED BY <1>2, <1>3, <1>4, <1>5, <1>6 DEF Next

LEMMA CachesHold == NodesInv /\ OrderInv /\ CachesInv => CacheInv
<1> SUFFICES ASSUME NodesInv, OrderInv, CachesInv PROVE CacheInv
  OBVIOUS
<1>1. TypeOK
  <2>1. ASSUME NEW n \in Nodes
        PROVE  /\ exec[n].pc \in Places /\ exec[n].attempts \in 0..shape.max_retries + 1
               /\ exec[n].iteration \in 0..max_tool_iterations
               /\ result[n].state \in {"Pending", "Succeeded", "Failed"}
    <3>1. exec[n] \in Executions /\ result[n] \in Results /\ LimitsOK(n, exec[n], asked[n])
      BY DEF NodesInv, RuntimeType, NodeOK
    <3>2. shape.max_retries \in Nat /\ max_tool_iterations \in Nat
      BY ShapeFacts, ConstantFacts DEF NodesInv, RuntimeType
    <3> QED BY <3>1, <3>2 DEF Executions, Results, LimitsOK
  <2>2. ASSUME NEW n \in Nodes PROVE exec[n].batch \subseteq Nodes \ Top
    BY ShapeFacts DEF OrderInv, BatchesReady, NodesInv, RuntimeType, Top
  <2> QED BY <2>1, <2>2 DEF TypeOK, NodesInv, RuntimeType, CachesInv, LabelsInv, Places
<1>2. CacheBounded
  <2>1. Cardinality(Labels) \in Nat /\ overlaps \in Nat /\ Put \in SUBSET Callers
    BY FS_CardinalityType DEF CachesInv, CacheType, Put
  <2>2. CASE Fits(Labels, Put, overlaps)
    <3>1. Cardinality(Put) \in Nat
      BY <2>1, PutsFinite
    <3> QED BY <2>1, <2>2, <3>1, ConstantFacts DEF Fits, CacheBounded
  <2>3. ASSUME NEW f \in Put, FitsBut(Labels, Put, Need, overlaps, f) PROVE CacheBounded
    <3>1. Cardinality(Put \ {f}) \in Nat
      BY <2>1, PutsFinite
    <3>2. Need[f] \in {0, 1}
      BY <2>1 DEF Need
    <3> QED BY <2>1, <2>3, <3>1, <3>2, ConstantFacts DEF FitsBut, CacheBounded
  <2> QED BY <2>2, <2>3 DEF CachesInv, SizeInv, Sized
<1>3. IndexAgrees
  <2> SUFFICES ASSUME ~dropped, \A c \in Callers : op[c] = NoCacheOp 
               PROVE  Labels \subseteq Linked /\ Linked \subseteq Labels \union unremoved
    BY DEF IndexAgrees, Linked
  <2>1. AgreeInv
    BY DEF CachesInv
  <2>2. \A c \in Callers : op[c].at = "none"
    BY NoOp
  <2> QED BY <2>1, <2>2 DEF AgreeInv, Linking
<1> QED BY <1>1, <1>2, <1>3 DEF CacheInv

\* The execution is well typed, the labels of the cache stay unique and below the next
\* one, overlapping puts exceed its capacity by one entry each at most, and when nobody
\* is at work and no execution was dropped, the index holds the label of every entry and
\* otherwise only labels it failed to remove (semantic_cache.rs:201, 229, 247, 275).
THEOREM CacheIsConsistent == Spec => []CacheInv
<1> DEFINE Inv == NodesInv /\ OrderInv /\ CachesInv
<1>1. Init => Inv
  BY NodesInit, OrderInit, CachesInit
<1>2. Inv /\ [Next]_vars => Inv'
  BY NodesNext, OrderNext, CachesNext
<1>3. Inv => CacheInv
  BY CachesHold
<1> QED BY <1>1, <1>2, <1>3, PTL DEF Spec
=============================================================================
