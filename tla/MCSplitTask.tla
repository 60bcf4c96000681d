---------------------------- MODULE MCSplitTask ----------------------------
(***************************************************************************)
(* A 2 x 3 input split along either dim, and a 1 x 1 input (a single     *)
(* element, the one shape whose element count is not above its rank).     *)
(***************************************************************************)
EXTENDS SplitTask

MCSplitAttrs ==
  {[axis |-> 0, splits |-> <<1, 1>>], [axis |-> 1, splits |-> <<1, 2>>],
   [axis |-> 1, splits |-> <<1>>]}

MCInputDims == {<<2, 3>>, <<1, 1>>}

=============================================================================
