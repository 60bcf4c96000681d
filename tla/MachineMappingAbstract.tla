----------------------- MODULE MachineMappingAbstract -----------------------
(***************************************************************************)
(* What get_optimal_machine_mapping_with_memory promises: a call answers   *)
(* with the Pareto frontier of all mapping plans of the problem tree under *)
(* the given resources and constraints.                                    *)
(*                                                                         *)
(* AllPlans is the reference definition of a plan, written as a direct    *)
(* recursion over the tree without cache, call stack or iteration order:  *)
(* boundary paths are resolved in the child they point into (the spec,    *)
(* section 3, and the problem-tree builder's test), boundary assignments  *)
(* are those consistent with the constraints, and a parallel split is     *)
(* either run in series on the same resources or split over a resource    *)
(* split.                                                                  *)
(***************************************************************************)
EXTENDS MMConstraints, MMResult, FiniteSets

CONSTANTS
  AllowedViews(_, _), \* context.allowed_machine_views(op, resources)
  OpCost(_, _),       \* cost_estimator.estimate_cost(op, view): [rt, mem]
  CommCost(_),        \* cost_estimator.estimate_cost(TensorSetMovement): runtime
  ResourceSplits(_)   \* get_machine_resource_splits(resources): pairs

\* The assignments of views to the boundary paths ps of the subtree t.
BoundaryChoices(t, ps, res) ==
  {a \in [ps -> Views] : \A p \in ps : a[p] \in AllowedViews(SubtreeAt(t, p).op, res)}

ConsistentChoices(t, ps, res, cons) ==
  {a \in BoundaryChoices(t, ps, res) : ~AdditionalConflicts(cons, a)}

RECURSIVE AllPlans(_, _, _)
AllPlans(t, res, cons) ==
  CASE t.kind = "leaf" ->
         LET cands == IF cons[<<>>] # NoView THEN {cons[<<>>]}
                      ELSE AllowedViews(t.op, res)
         IN  {[rt |-> OpCost(t.op, v).rt, mem |-> OpCost(t.op, v).mem,
               map |-> (<<>> :> v)] : v \in cands}
    [] t.kind = "series" ->
         LET cl == RestrictToChild(cons, "L")
             cr == RestrictToChild(cons, "R")
         IN  UNION {UNION {
               {[rt |-> x.rt + y.rt + CommCost(Concretize(t.move, a, b)),
                 mem |-> x.mem + y.mem,
                 map |-> CombineMappings(x.map, y.map)] :
                  x \in AllPlans(t.left, res, WithAdditionalConstraints(cl, a)),
                  y \in AllPlans(t.right, res, WithAdditionalConstraints(cr, b))}
               : b \in ConsistentChoices(t.right, DstLayers(t.move), res, cr)}
             : a \in ConsistentChoices(t.left, SrcLayers(t.move), res, cl)}
    [] t.kind = "parallel" ->
         AllPlans(MMSeries(EmptyMovement, t.left, t.right), res, cons)
         \cup UNION {{[rt |-> MaxOf(x.rt, y.rt), mem |-> x.mem + y.mem,
                       map |-> CombineMappings(x.map, y.map)] :
                        x \in AllPlans(t.left, s[1], RestrictToChild(cons, "L")),
                        y \in AllPlans(t.right, s[2], RestrictToChild(cons, "R"))}
                     : s \in ResourceSplits(res)}

(***************************************************************************)
(* F is an optimal answer for (t, res, cons): it has exactly one point per *)
(* Pareto-optimal cost of the plans, and every point is one of the plans,  *)
(* its mapping achieving its cost.                                         *)
(***************************************************************************)
IsOptimalFrontier(t, res, cons, F) ==
  LET plans == AllPlans(t, res, cons)
  IN  /\ F \subseteq plans
      /\ {CostOf(p) : p \in F} = {CostOf(p) : p \in ParetoPrune(plans)}
      /\ Cardinality({CostOf(p) : p \in F}) = Cardinality(F)

=============================================================================
