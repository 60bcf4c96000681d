------------------------------ MODULE MMResult ------------------------------
(***************************************************************************)
(* The result algebra of the memory-aware search                           *)
(* (MachineMappingWithMemoryResult): a result is a Pareto frontier, a set  *)
(* of points [rt, mem, map] where rt is the forward+backward runtime, mem  *)
(* the memory usage, and map the ParallelLayerGuidObliviousMachineMapping  *)
(* from the leaf paths of the solved subtree to machine views.  The empty  *)
(* frontier is the infeasible result.                                      *)
(*                                                                         *)
(* Its implementation is not among the files under src/ (only the          *)
(* declarations of the runtime-only variant are, in                        *)
(* machine_mapping_result.h); the operators follow the spec (section 4.2). *)
(* Runtimes are integers in tenths of a millisecond.                       *)
(***************************************************************************)
EXTENDS Naturals, Sequences, TLC

\* infeasible_machine_mapping_result / is_infeasible
Infeasible == {}

CostOf(p) == <<p.rt, p.mem>>

\* q dominates p: no worse on both axes and strictly better on one.
Dominates(q, p) ==
  /\ q.rt <= p.rt /\ q.mem <= p.mem
  /\ (q.rt < p.rt \/ q.mem < p.mem)

(***************************************************************************)
(* Pareto pruning of one set of points: drop the dominated points and keep *)
(* one point of each remaining cost (the spec's arbitrary-but-fixed        *)
(* tie-break, here the one CHOOSE picks).                                  *)
(***************************************************************************)
ParetoPrune(S) ==
  LET kept == {p \in S : ~\E q \in S : Dominates(q, p)}
  IN  {CHOOSE p \in kept : CostOf(p) = c : c \in {CostOf(p) : p \in kept}}

(***************************************************************************)
(* minimize_runtime(m1, m2): the frontier of the union, where on a cost    *)
(* tie the point of m1, discovered first, is kept.                         *)
(***************************************************************************)
MinimizeRuntime(m1, m2) ==
  ParetoPrune(m1 \cup {p \in m2 : CostOf(p) \notin {CostOf(q) : q \in m1}})

\* get_mapping_with_minimal_runtime over a set of results.
GetMappingWithMinimalRuntime(results) == ParetoPrune(UNION results)

\* make_singleton_machine_mapping_with_memory_result
MakeSingleton(cost, view) ==
  {[rt |-> cost.rt, mem |-> cost.mem, map |-> (<<>> :> view)]}

(***************************************************************************)
(* The mapping of a split node: the left child's paths prefixed by "L" and *)
(* the right child's by "R" (binary_combine_mappings).                     *)
(***************************************************************************)
PrefixPaths(d, m) == [p \in {<<d>> \o q : q \in DOMAIN m} |-> m[Tail(p)]]

CombineMappings(ml, mr) == PrefixPaths("L", ml) @@ PrefixPaths("R", mr)

(***************************************************************************)
(* series_combine(comm, pre, post, tag): runtimes and the communication    *)
(* cost add up, memories add up.  The ParallelSplitTransformation tag is   *)
(* opaque metadata (spec section 10) and does not change the frontier.     *)
(***************************************************************************)
SeriesCombine(comm, pre, post) ==
  ParetoPrune({[rt |-> a.rt + b.rt + comm, mem |-> a.mem + b.mem,
                map |-> CombineMappings(a.map, b.map)] : a \in pre, b \in post})

MaxOf(x, y) == IF x >= y THEN x ELSE y

(***************************************************************************)
(* parallel_combine(lhs, rhs): the slower branch sets the runtime, both    *)
(* branches are resident so their memories add up.                         *)
(***************************************************************************)
ParallelCombine(lhs, rhs) ==
  ParetoPrune({[rt |-> MaxOf(a.rt, b.rt), mem |-> a.mem + b.mem,
                map |-> CombineMappings(a.map, b.map)] : a \in lhs, b \in rhs})

=============================================================================
