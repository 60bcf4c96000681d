-------------------------- MODULE MCMachineMapping --------------------------
(***************************************************************************)
(* Model-checking instances of the search.  The context is the one of the  *)
(* search's unit test (test/.../get_optimal_machine_mapping_with_memory.cc): *)
(* two machine views, two operators, the fake cost estimator's table and   *)
(* the allowed-views function that offers both views on the full machine   *)
(* and only mv2 on anything smaller.  Runtimes are in tenths of a          *)
(* millisecond; the test's forward and backward runtimes are equal, so     *)
(* one runtime stands for both.                                            *)
(***************************************************************************)
EXTENDS MachineMapping

CONSTANTS k1, k2, mv1, mv2

MCViews == {mv1, mv2}

\* A machine specification is abstracted to its number of nodes; the test's
\* full_machine_spec has two.
TwoNodes == 2
ThreeNodes == 3

\* The machine of the top-level call.
FullMachine == RootResources

\* allowed_machine_views1 (test lines 94-102): independent of the operator.
TestAllowedViews(op, res) == IF res = FullMachine THEN {mv1, mv2} ELSE {mv2}

\* make_fake_cost_estimator's operator table (test lines 163-185).
TestOpCost(op, v) ==
  CASE op = k1 /\ v = mv1 -> [rt |-> 10, mem |-> 2]
    [] op = k2 /\ v = mv1 -> [rt |-> 20, mem |-> 3]
    [] op = k1 /\ v = mv2 -> [rt |-> 15, mem |-> 1]
    [] op = k2 /\ v = mv2 -> [rt |-> 25, mem |-> 2]

(***************************************************************************)
(* The fake estimator's movement table (test lines 186-196): the empty     *)
(* movement costs 0; a one-tensor movement costs 0.1 / 0.2 / 0.3 / 0.4 ms  *)
(* for the view pairs mv1-mv1 / mv2-mv2 / mv1-mv2 / mv2-mv1.  movement1 of *)
(* the test has no boundary views, so all its concretizations coincide     *)
(* and the first entry, 0.1 ms, is the one the map keeps.                  *)
(***************************************************************************)
PairCost(s) ==
  CASE s.src = {mv2} /\ s.dst = {mv2} -> 2
    [] s.src = {mv1} /\ s.dst = {mv2} -> 3
    [] s.src = {mv2} /\ s.dst = {mv1} -> 4
    [] OTHER -> 1

TestCommCost(c) == IF c = {} THEN 0 ELSE PairCost(CHOOSE s \in c : TRUE)

\* get_machine_resource_splits: every split of the nodes into two parts.
TestResourceSplits(res) == {<<i, res - i>> : i \in 1..(res - 1)}

\* movement1: one tensor with no boundary machine views.
Movement1 == {[src |-> {}, dst |-> {}]}

A == MMLeaf(k1)
B == MMLeaf(k2)

\* The trees of the test's two-layer subcases (lines 235-326).
SeriesPair == MMSeries(Movement1, A, B)
ParallelPair == MMParallel(A, B)

(***************************************************************************)
(* A parallel split over a series pair and a leaf: strategy (a) runs a    *)
(* three-leaf series, strategy (b) a split of the two nodes, and the      *)
(* series pair is solved on both the full machine and one node.            *)
(***************************************************************************)
NestedTree == MMParallel(SeriesPair, MMParallel(B, A))

(***************************************************************************)
(* A series split whose boundary paths name a leaf both from the split    *)
(* node and from the child they point into: src [L,R] is B in the left    *)
(* child but A from the split, dst [R,L] is A in the right child but B    *)
(* from the split.  The lookups succeed and, the allowed views being the  *)
(* same for every operator, give the views of the right leaves.           *)
(***************************************************************************)
BoundaryMove == {[src |-> {<<"L", "R">>}, dst |-> {<<"R", "L">>}]}
BoundaryTree ==
  MMSeries(BoundaryMove,
           MMSeries(Movement1, MMSeries(Movement1, A, B), A),
           MMSeries(Movement1, B, MMSeries(Movement1, A, B)))

(***************************************************************************)
(* The shape the problem-tree builder produces for two layers in series   *)
(* (its test, lines 163-178): the boundary paths are [] in each child.    *)
(***************************************************************************)
BuilderMove == {[src |-> {<<>>}, dst |-> {<<>>}]}
BuilderTree == MMSeries(BuilderMove, A, B)


(***************************************************************************)
(* An allowed-views function under which an operator can be infeasible:   *)
(* on less than the full machine k1 may only use mv2 and k2 nothing.       *)
(* InfeasibleTree's series pair starts with k2, so on one node its pre    *)
(* result is infeasible.                                                   *)
(***************************************************************************)
ScarceAllowedViews(op, res) ==
  IF res = FullMachine THEN {mv1, mv2} ELSE IF op = k1 THEN {mv2} ELSE {}

InfeasibleTree == MMParallel(MMSeries(Movement1, B, A), A)

(***************************************************************************)
(* InfeasibleTree in series before BoundaryTree, on three nodes under the  *)
(* scarce views: the boundary assignments of BoundaryTree are enumerated   *)
(* on the full machine, and its sub-trees become infeasible on splits.    *)
(***************************************************************************)
BoundaryInfeasibleTree == MMSeries(Movement1, InfeasibleTree, BoundaryTree)

(***************************************************************************)
(* An allowed-views function that depends on the operator: k1 may use     *)
(* both views, k2 only mv2.                                                *)
(***************************************************************************)
PerOpAllowedViews(op, res) == IF op = k1 THEN {mv1, mv2} ELSE {mv2}

\* get_unconstrained_solution_for_layers(get_all_leaf_paths(problem_tree))
FreeConstraints == Unconstrained(Root)

(***************************************************************************)
(* BoundaryTree with the builder-shaped series pair as the innermost part  *)
(* of its right child, behind NestedTree, which strategy (a) solves and    *)
(* caches first.  Under pins on the two leaves the movement connects, a    *)
(* boundary assignment other than the pinned view makes                    *)
(* with_additional_constraints throw, and the pinned one goes on into the  *)
(* right child, where the builder pair's boundary lookup throws: the loop  *)
(* order decides which exception ends the search.                          *)
(***************************************************************************)
PinnedTree ==
  MMParallel(NestedTree,
             MMSeries(BoundaryMove,
                      MMSeries(Movement1, MMSeries(Movement1, A, B), A),
                      MMSeries(Movement1, B, BuilderTree)))

\* Caller pins on the two leaves BoundaryTree's movement connects.
PinnedConstraints ==
  [FreeConstraints EXCEPT ![<<"R", "L", "L", "R">>] = mv1, ![<<"R", "R", "R", "L">>] = mv1]

-----------------------------------------------------------------------------
(* The expectations of the unit test, as properties of the first answer.   *)

AnswerCosts == {CostOf(p) : p \in answers[1]}

(***************************************************************************)
(* "pair of layers in parallel" (test lines 292-326) expects the single   *)
(* point of 2.5 ms and 2 bytes, both layers on mv2 on one node each.       *)
(***************************************************************************)
TestParallelExpectation == answers # <<>> => AnswerCosts = {<<25, 2>>}

=============================================================================
