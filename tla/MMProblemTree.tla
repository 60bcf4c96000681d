---------------------------- MODULE MMProblemTree ----------------------------
(***************************************************************************)
(* The machine-mapping problem tree (MachineMappingProblemTree): an        *)
(* immutable binary tree whose leaves are unmapped operator cost keys and  *)
(* whose inner nodes are series splits (carrying the abstracted tensor     *)
(* movement across the split) or parallel splits.  A node is addressed by  *)
(* a BinaryTreePath, a sequence of "L"/"R" steps from the root.            *)
(*                                                                         *)
(* The tree type and its path helpers are not among the repository files   *)
(* under src/; they follow the spec (sections 3 and 9) and the shapes the  *)
(* problem-tree builder's test expects.                                    *)
(***************************************************************************)
EXTENDS Naturals, Sequences

Dirs == {"L", "R"}

\* mm_problem_tree_make_leaf / _make_series / _make_parallel
MMLeaf(op) == [kind |-> "leaf", op |-> op]
MMSeries(move, l, r) == [kind |-> "series", move |-> move, left |-> l, right |-> r]
MMParallel(l, r) == [kind |-> "parallel", left |-> l, right |-> r]

IsLeaf(t) == t.kind = "leaf"

Child(t, d) == IF d = "L" THEN t.left ELSE t.right

(***************************************************************************)
(* mm_problem_tree_get_subtree_at_path: the subtree at path p, or NoNode   *)
(* when the path leaves the tree (the code's std::nullopt).                *)
(***************************************************************************)
NoNode == [kind |-> "none"]

RECURSIVE SubtreeAt(_, _)
SubtreeAt(t, p) ==
  IF p = <<>> THEN t
  ELSE IF IsLeaf(t) THEN NoNode
  ELSE SubtreeAt(Child(t, Head(p)), Tail(p))

\* get_all_leaf_paths
RECURSIVE LeafPaths(_)
LeafPaths(t) ==
  IF IsLeaf(t) THEN {<<>>}
  ELSE UNION {{<<d>> \o p : p \in LeafPaths(Child(t, d))} : d \in Dirs}

(***************************************************************************)
(* AbstractedTensorSetMovement: a set of single-tensor movements, each     *)
(* naming the boundary leaves it leaves from (src, paths into the left     *)
(* child) and arrives at (dst, paths into the right child).  The tensor    *)
(* shape is abstracted away: only the boundary paths influence the search. *)
(***************************************************************************)
EmptyMovement == {}

\* get_src_layers / get_dst_layers
SrcLayers(move) == UNION {s.src : s \in move}
DstLayers(move) == UNION {s.dst : s \in move}

(***************************************************************************)
(* concretize_abstracted_tensor_set_movement: replace every boundary path  *)
(* by the machine view the pre (resp. post) assignment gives it.           *)
(***************************************************************************)
Concretize(move, pre, post) ==
  {[src |-> {pre[p] : p \in s.src}, dst |-> {post[p] : p \in s.dst}] : s \in move}

=============================================================================
