---------------------------- MODULE MMConstraints ----------------------------
(***************************************************************************)
(* MachineMappingConstraints: for every leaf path of the subtree being     *)
(* solved, either a pinned machine view or NoView (std::nullopt).  A       *)
(* series split pins the views of its boundary leaves before it solves a   *)
(* child, and a parallel or series split restricts the constraints of its  *)
(* node to those of one child.                                             *)
(*                                                                         *)
(* The constraint helpers are not among the files under src/; they follow *)
(* the spec (section 4.4).  A failed precondition is not a value: the      *)
(* operators below come with the predicates under which the code throws.  *)
(***************************************************************************)
EXTENDS MMProblemTree

CONSTANTS Views, NoView

\* get_unconstrained_solution_for_layers(get_all_leaf_paths(t))
Unconstrained(t) == [p \in LeafPaths(t) |-> NoView]

(***************************************************************************)
(* restrict_to_left_child / restrict_to_right_child: keep the paths that   *)
(* start with the step d and drop that step.                               *)
(***************************************************************************)
RestrictToChild(cons, d) ==
  [p \in {Tail(q) : q \in {r \in DOMAIN cons : r # <<>> /\ Head(r) = d}}
     |-> cons[<<d>> \o p]]

(***************************************************************************)
(* with_additional_constraints(cons, extra) throws when extra names a path *)
(* cons has no entry for (the map's .at), or pins a path that cons already *)
(* pins to a different view; otherwise the extra views fill the holes.    *)
(***************************************************************************)
AdditionalConflicts(cons, extra) ==
  \E p \in DOMAIN extra :
     \/ p \notin DOMAIN cons
     \/ cons[p] \notin {NoView, extra[p]}

WithAdditionalConstraints(cons, extra) ==
  [p \in DOMAIN cons |-> IF p \in DOMAIN extra THEN extra[p] ELSE cons[p]]

(***************************************************************************)
(* require_only_root: the constraints of a leaf must have the root path as *)
(* their only key (they always do in the search: they are restricted down *)
(* to the leaf); the result is the pinned view or NoView.                  *)
(***************************************************************************)
RequireOnlyRoot(cons) == cons[<<>>]

=============================================================================
