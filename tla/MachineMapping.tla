--------------------------- MODULE MachineMapping ---------------------------
(***************************************************************************)
(* The memory-aware machine-mapping search                                 *)
(* (get_optimal_machine_mapping_with_memory.cc): a recursive search over   *)
(* the problem tree with a result cache shared by all calls.               *)
(*                                                                         *)
(* The recursion is made explicit as a call stack: each frame is one       *)
(* activation of one of the four overloads (the cached entry point, the    *)
(* series, parallel and leaf overloads), and ret is the value the frame    *)
(* just popped returned to its caller.  Every step of a frame is one       *)
(* action, so the order of the recursive calls, cache loads and saves and  *)
(* cost-estimator calls is the code's.  The iteration order of the         *)
(* unordered sets the loops run over is not fixed by the code and is       *)
(* chosen nondeterministically.  An exception (a failed .value() / .get<>  *)
(* or a throwing constraint helper) aborts the whole top-level call.       *)
(***************************************************************************)
EXTENDS MMConstraints, MMResult, FiniteSets

CONSTANTS Root, RootResources, RootConstraints, NumCalls,
          AllowedViews(_, _), OpCost(_, _), CommCost(_), ResourceSplits(_)

VARIABLES
  stack,      \* the activations of the search, innermost last
  ret,        \* <<r>> when the last popped activation returned r, else <<>>
  cache,      \* MachineMappingWithMemoryCache: MachineMappingState -> result
  estimates,  \* number of cost_estimator.estimate_cost calls so far
  calls,      \* top-level calls made so far
  answers,    \* results of the finished top-level calls
  estimatesAtAnswer, \* estimates when each top-level call returned
  error       \* "none", or the failure that aborted the search

vars == <<stack, ret, cache, estimates, calls, answers, estimatesAtAnswer, error>>

Abs == INSTANCE MachineMappingAbstract
         WITH AllowedViews <- AllowedViews, OpCost <- OpCost,
              CommCost <- CommCost, ResourceSplits <- ResourceSplits

Top == stack[Len(stack)]
Pop == SubSeq(stack, 1, Len(stack) - 1)
SetTop(f) == [stack EXCEPT ![Len(stack)] = f]
Call(f, callee) == Append(SetTop(f), callee)

\* Mutant: a cache key that forgets the resources.
StateOfWithoutResources(f) == [tree |-> f.tree, res |-> RootResources, cons |-> f.cons]

\* MachineMappingState{problem_tree, resources, constraints}
StateOf(f) == [tree |-> f.tree, res |-> f.res, cons |-> f.cons]

(***************************************************************************)
(* The activations.  A series frame walks the nested loops over the src   *)
(* and dst boundary assignments; a parallel frame first runs strategy (a) *)
(* and then the loop over the resource splits.                             *)
(***************************************************************************)
EntryFrame(t, r, c) == [kind |-> "entry", tree |-> t, res |-> r, cons |-> c, pc |-> "load"]

LeafFrame(t, r, c) == [kind |-> "leaf", tree |-> t, res |-> r, cons |-> c]

SeriesFrame(t, r, c, tag) ==
  [kind |-> "series", tree |-> t, res |-> r, cons |-> c, tag |-> tag,
   pc |-> "src", todoPre |-> {}, pre |-> <<>>, preRes |-> Infeasible,
   todoPost |-> {}, post |-> <<>>, acc |-> Infeasible]

ParallelFrame(t, r, c) ==
  [kind |-> "parallel", tree |-> t, res |-> r, cons |-> c, pc |-> "strategyA",
   seriesRes |-> Infeasible, todo |-> {}, split |-> <<r, r>>,
   leftRes |-> Infeasible, results |-> {}]

TopIs(kind, pc) == stack # <<>> /\ Top.kind = kind /\ Top.pc = pc

Returned == ret # <<>>

\* An exception leaves the top-level call; the cache keeps what was saved.
Fail(why) ==
  /\ error' = why
  /\ stack' = <<>>
  /\ ret' = <<>>
  /\ UNCHANGED <<cache, estimates, calls, answers, estimatesAtAnswer>>

-----------------------------------------------------------------------------
(* The caller: top-level calls on the root problem, all on one cache.     *)

\* Mutant: the caller keeps calling.
CallTopUnbounded ==
  /\ stack = <<>> /\ ~Returned /\ error = "none"
  /\ stack' = <<EntryFrame(Root, RootResources, RootConstraints)>>
  /\ calls' = calls + 1
  /\ UNCHANGED <<ret, cache, estimates, answers, estimatesAtAnswer, error>>

CallTop ==
  /\ stack = <<>> /\ ~Returned /\ error = "none" /\ calls < NumCalls
  /\ stack' = <<EntryFrame(Root, RootResources, RootConstraints)>>
  /\ calls' = calls + 1
  /\ UNCHANGED <<ret, cache, estimates, answers, estimatesAtAnswer, error>>

TopReturn ==
  /\ stack = <<>> /\ Returned
  /\ answers' = Append(answers, ret[1])
  /\ estimatesAtAnswer' = Append(estimatesAtAnswer, estimates)
  /\ ret' = <<>>
  /\ UNCHANGED <<stack, cache, estimates, calls, error>>

-----------------------------------------------------------------------------
(* The cached entry point (lines 27-70).                                   *)

CacheHit ==
  /\ TopIs("entry", "load")
  /\ StateOf(Top) \in DOMAIN cache
  /\ stack' = Pop
  /\ ret' = <<cache[StateOf(Top)]>>
  /\ UNCHANGED <<cache, estimates, calls, answers, estimatesAtAnswer, error>>

\* A miss visits the node: a series split is solved with no transformation.
Visit ==
  /\ TopIs("entry", "load")
  /\ StateOf(Top) \notin DOMAIN cache
  /\ LET t == Top.tree
         callee == CASE t.kind = "series" -> SeriesFrame(t, Top.res, Top.cons, "none")
                     [] t.kind = "parallel" -> ParallelFrame(t, Top.res, Top.cons)
                     [] t.kind = "leaf" -> LeafFrame(t, Top.res, Top.cons)
     IN  stack' = Call([Top EXCEPT !.pc = "save"], callee)
  /\ UNCHANGED <<ret, cache, estimates, calls, answers, estimatesAtAnswer, error>>

\* Mutant: the result is returned but never saved.
CacheSaveMissing ==
  /\ TopIs("entry", "save") /\ Returned
  /\ stack' = Pop
  /\ UNCHANGED <<ret, cache, estimates, calls, answers, estimatesAtAnswer, error>>

CacheSave ==
  /\ TopIs("entry", "save") /\ Returned
  /\ cache' = (StateOf(Top) :> ret[1]) @@ cache
  /\ stack' = Pop
  /\ UNCHANGED <<ret, estimates, calls, answers, estimatesAtAnswer, error>>

-----------------------------------------------------------------------------
(* The leaf overload (lines 233-264), one step: every candidate view is    *)
(* estimated and the singletons are reduced to their frontier.  The leaf's *)
(* constraints always have the root path as their only key here.           *)

\* Mutant: the pinned view is ignored.
LeafCandidatesIgnoringPin(f) == AllowedViews(f.tree.op, f.res)

LeafCandidates(f) ==
  IF RequireOnlyRoot(f.cons) # NoView THEN {RequireOnlyRoot(f.cons)}
  ELSE AllowedViews(f.tree.op, f.res)

SolveLeaf ==
  /\ stack # <<>> /\ Top.kind = "leaf"
  /\ LET cands == LeafCandidates(Top)
     IN  /\ estimates' = estimates + Cardinality(cands)
         /\ ret' = <<GetMappingWithMinimalRuntime(
                       {MakeSingleton(OpCost(Top.tree.op, v), v) : v \in cands})>>
  /\ stack' = Pop
  /\ UNCHANGED <<cache, calls, answers, estimatesAtAnswer, error>>

-----------------------------------------------------------------------------
(* The series overload (lines 72-173).                                     *)

(***************************************************************************)
(* get_boundary_machine_view_assignments (lines 81-100): every boundary    *)
(* path is looked up in MachineMappingProblemTree{series_split}, the       *)
(* series node itself, and must name a leaf there (.value() and .get<>     *)
(* throw otherwise); the assignments are the cross product of the allowed *)
(* views of those leaves (get_all_assignments).                            *)
(***************************************************************************)
BoundaryLookupOK(f, paths) == \A l \in paths : IsLeaf(SubtreeAt(f.tree, l))

BoundaryAssignments(f, paths) ==
  {a \in [paths -> Views] :
     \A l \in paths : a[l] \in AllowedViews(SubtreeAt(f.tree, l).op, f.res)}

BoundaryPaths(f) ==
  IF f.pc = "src" THEN SrcLayers(f.tree.move) ELSE DstLayers(f.tree.move)

\* The src assignments before the outer loop (line 143), the dst ones each
\* time the inner loop starts (lines 150-151).
SeriesAssignments ==
  /\ stack # <<>> /\ Top.kind = "series" /\ Top.pc \in {"src", "dst"}
  /\ BoundaryLookupOK(Top, BoundaryPaths(Top))
  /\ stack' = SetTop(IF Top.pc = "src"
                     THEN [Top EXCEPT !.pc = "nextPre",
                                      !.todoPre = BoundaryAssignments(Top, BoundaryPaths(Top))]
                     ELSE [Top EXCEPT !.pc = "nextPost",
                                      !.todoPost = BoundaryAssignments(Top, BoundaryPaths(Top))])
  /\ UNCHANGED <<ret, cache, estimates, calls, answers, estimatesAtAnswer, error>>

SeriesLookupFails ==
  /\ stack # <<>> /\ Top.kind = "series" /\ Top.pc \in {"src", "dst"}
  /\ ~BoundaryLookupOK(Top, BoundaryPaths(Top))
  /\ Fail("boundary lookup")

\* The constraints eval_pre/eval_post_boundary_mapping solve a child under.
ChildConstraints(f, d, assigned) ==
  WithAdditionalConstraints(RestrictToChild(f.cons, d), assigned)

\* eval_pre_boundary_mapping (lines 102-117, 145-146)
SeriesEvalPre ==
  /\ TopIs("series", "nextPre")
  /\ \E a \in Top.todoPre :
       /\ ~AdditionalConflicts(RestrictToChild(Top.cons, "L"), a)
       /\ stack' = Call([Top EXCEPT !.pc = "awaitPre", !.pre = a,
                                    !.todoPre = @ \ {a}],
                        EntryFrame(Top.tree.left, Top.res, ChildConstraints(Top, "L", a)))
  /\ UNCHANGED <<ret, cache, estimates, calls, answers, estimatesAtAnswer, error>>

SeriesPreReturned ==
  /\ TopIs("series", "awaitPre") /\ Returned
  /\ stack' = SetTop([Top EXCEPT !.pc = "dst", !.preRes = ret[1]])
  /\ ret' = <<>>
  /\ UNCHANGED <<cache, estimates, calls, answers, estimatesAtAnswer, error>>

\* eval_post_boundary_mapping (lines 119-134, 153-154)
SeriesEvalPost ==
  /\ TopIs("series", "nextPost")
  /\ \E b \in Top.todoPost :
       /\ ~AdditionalConflicts(RestrictToChild(Top.cons, "R"), b)
       /\ stack' = Call([Top EXCEPT !.pc = "awaitPost", !.post = b,
                                    !.todoPost = @ \ {b}],
                        EntryFrame(Top.tree.right, Top.res, ChildConstraints(Top, "R", b)))
  /\ UNCHANGED <<ret, cache, estimates, calls, answers, estimatesAtAnswer, error>>

\* with_additional_constraints throws on a path pinned to another view.
SeriesConstraintConflict ==
  \/ /\ TopIs("series", "nextPre")
     /\ \E a \in Top.todoPre : AdditionalConflicts(RestrictToChild(Top.cons, "L"), a)
     /\ Fail("constraint conflict")
  \/ /\ TopIs("series", "nextPost")
     /\ \E b \in Top.todoPost : AdditionalConflicts(RestrictToChild(Top.cons, "R"), b)
     /\ Fail("constraint conflict")

(***************************************************************************)
(* Lines 156-168: the movement is concretized with the two assignments,   *)
(* its cost estimated (whatever pre_result and post_result are), and the  *)
(* series combination folded into the result.                              *)
(***************************************************************************)
SeriesCombineStep ==
  /\ TopIs("series", "awaitPost") /\ Returned
  /\ LET comm == CommCost(Concretize(Top.tree.move, Top.pre, Top.post))
     IN  stack' = SetTop([Top EXCEPT !.pc = "nextPost",
                            !.acc = MinimizeRuntime(@, SeriesCombine(comm, Top.preRes, ret[1]))])
  /\ estimates' = estimates + 1
  /\ ret' = <<>>
  /\ UNCHANGED <<cache, calls, answers, estimatesAtAnswer, error>>

SeriesPostDone ==
  /\ TopIs("series", "nextPost") /\ Top.todoPost = {}
  /\ stack' = SetTop([Top EXCEPT !.pc = "nextPre"])
  /\ UNCHANGED <<ret, cache, estimates, calls, answers, estimatesAtAnswer, error>>

SeriesReturn ==
  /\ TopIs("series", "nextPre") /\ Top.todoPre = {}
  /\ stack' = Pop
  /\ ret' = <<Top.acc>>
  /\ UNCHANGED <<cache, estimates, calls, answers, estimatesAtAnswer, error>>

-----------------------------------------------------------------------------
(* The parallel overload (lines 175-231).                                  *)

\* Strategy (a), lines 185-199: the series overload on the same resources.
ParallelStrategyA ==
  /\ TopIs("parallel", "strategyA")
  /\ stack' = Call([Top EXCEPT !.pc = "awaitSeries"],
                   SeriesFrame(MMSeries(EmptyMovement, Top.tree.left, Top.tree.right),
                               Top.res, Top.cons, "LthenR"))
  /\ UNCHANGED <<ret, cache, estimates, calls, answers, estimatesAtAnswer, error>>

ParallelSeriesReturned ==
  /\ TopIs("parallel", "awaitSeries") /\ Returned
  /\ stack' = SetTop([Top EXCEPT !.pc = "nextSplit", !.seriesRes = ret[1],
                                 !.todo = ResourceSplits(Top.res)])
  /\ ret' = <<>>
  /\ UNCHANGED <<cache, estimates, calls, answers, estimatesAtAnswer, error>>

\* Mutant: the evaluated split is not taken off the splits still to do.
ParallelEvalLeftRepeating ==
  /\ TopIs("parallel", "nextSplit")
  /\ \E s \in Top.todo :
       stack' = Call([Top EXCEPT !.pc = "awaitLeft", !.split = s],
                     EntryFrame(Top.tree.left, s[1], RestrictToChild(Top.cons, "L")))
  /\ UNCHANGED <<ret, cache, estimates, calls, answers, estimatesAtAnswer, error>>

\* evaluate_resource_split (lines 206-223) for one split of the transform.
ParallelEvalLeft ==
  /\ TopIs("parallel", "nextSplit")
  /\ \E s \in Top.todo :
       stack' = Call([Top EXCEPT !.pc = "awaitLeft", !.split = s, !.todo = @ \ {s}],
                     EntryFrame(Top.tree.left, s[1], RestrictToChild(Top.cons, "L")))
  /\ UNCHANGED <<ret, cache, estimates, calls, answers, estimatesAtAnswer, error>>

ParallelEvalRight ==
  /\ TopIs("parallel", "awaitLeft") /\ Returned
  /\ stack' = Call([Top EXCEPT !.pc = "awaitRight", !.leftRes = ret[1]],
                   EntryFrame(Top.tree.right, Top.split[2], RestrictToChild(Top.cons, "R")))
  /\ ret' = <<>>
  /\ UNCHANGED <<cache, estimates, calls, answers, estimatesAtAnswer, error>>

ParallelCombineStep ==
  /\ TopIs("parallel", "awaitRight") /\ Returned
  /\ stack' = SetTop([Top EXCEPT !.pc = "nextSplit",
                                 !.results = @ \cup {ParallelCombine(Top.leftRes, ret[1])}])
  /\ ret' = <<>>
  /\ UNCHANGED <<cache, estimates, calls, answers, estimatesAtAnswer, error>>

\* Lines 229-230.
ParallelReturn ==
  /\ TopIs("parallel", "nextSplit") /\ Top.todo = {}
  /\ stack' = Pop
  /\ ret' = <<MinimizeRuntime(Top.seriesRes, GetMappingWithMinimalRuntime(Top.results))>>
  /\ UNCHANGED <<cache, estimates, calls, answers, estimatesAtAnswer, error>>

-----------------------------------------------------------------------------

Init ==
  /\ stack = <<>>
  /\ ret = <<>>
  /\ cache = << >>
  /\ estimates = 0
  /\ calls = 0
  /\ answers = <<>>
  /\ estimatesAtAnswer = <<>>
  /\ error = "none"

Next ==
  \/ CallTop \/ TopReturn
  \/ CacheHit \/ Visit \/ CacheSave
  \/ SolveLeaf
  \/ SeriesAssignments \/ SeriesLookupFails \/ SeriesEvalPre \/ SeriesPreReturned
  \/ SeriesEvalPost \/ SeriesConstraintConflict \/ SeriesCombineStep
  \/ SeriesPostDone \/ SeriesReturn
  \/ ParallelStrategyA \/ ParallelSeriesReturned \/ ParallelEvalLeft
  \/ ParallelEvalRight \/ ParallelCombineStep \/ ParallelReturn

\* The search runs on one thread and never waits on anything but itself.
Spec == Init /\ [][Next]_vars /\ WF_vars(Next)

-----------------------------------------------------------------------------
(* Properties.                                                             *)

IsResult(r) ==
  \A p \in r : p.rt \in Nat /\ p.mem \in Nat /\ \A q \in DOMAIN p.map : p.map[q] \in Views

\* Every variable holds a value of its kind.
TypeOK ==
  /\ \A i \in 1..Len(stack) : stack[i].kind \in {"entry", "leaf", "series", "parallel"}
  /\ ret = <<>> \/ (Len(ret) = 1 /\ IsResult(ret[1]))
  /\ \A k \in DOMAIN cache : IsResult(cache[k])
  /\ estimates \in Nat /\ calls \in 0..NumCalls
  /\ Len(answers) = Len(estimatesAtAnswer) /\ Len(answers) <= calls
  /\ error \in {"none", "boundary lookup", "constraint conflict"}

(***************************************************************************)
(* Every entry the search saves in the cache (cache_save, line 68) is an   *)
(* optimal answer for its MachineMappingState: one plan per Pareto-optimal *)
(* cost of all plans of that subtree, resources and constraints.  Checked *)
(* over every iteration order of the loops and after an aborted call.      *)
(***************************************************************************)
CacheSound ==
  \A k \in DOMAIN cache : Abs!IsOptimalFrontier(k.tree, k.res, k.cons, cache[k])

(***************************************************************************)
(* A repeated top-level call on the same cache returns the same result as *)
(* the first and calls the cost estimator not once (spec property 4): the *)
(* cache load at lines 40-45 answers it.                                   *)
(***************************************************************************)
IdempotentCall ==
  \A i \in 2..Len(answers) :
     /\ answers[i] = answers[1]
     /\ estimatesAtAnswer[i] = estimatesAtAnswer[1]

\* The search has stopped: every call returned, or one threw.
Done == stack = <<>> /\ ~Returned /\ (calls = NumCalls \/ error # "none")

(***************************************************************************)
(* The recursion terminates: every top-level call returns or throws.       *)
(***************************************************************************)
Termination == <>Done

(***************************************************************************)
(* The search answers every problem tree the problem-tree builder makes   *)
(* (spec section 3: boundary paths are relative to the child they name):  *)
(* no boundary lookup (lines 88-92) and no with_additional_constraints     *)
(* (lines 105, 122) throws, so the call reaches a result.                  *)
(***************************************************************************)
NoFatalError == error = "none"

(***************************************************************************)
(* Infeasibility short-circuits (spec section 4.2): once a series split's *)
(* pre result is infeasible, nothing built on it calls the cost estimator: *)
(* no step, while the series frame is in its post loop for that pre       *)
(* result (lines 145-169), adds an estimate, neither in the post child's   *)
(* recursion (line 151) nor for the movement across the split (line 160).  *)
(***************************************************************************)
InfeasiblePreSkipsEstimator ==
  [][\A i \in DOMAIN stack :
       /\ stack[i].kind = "series"
       /\ stack[i].pc \in {"dst", "nextPost", "awaitPost"}
       /\ stack[i].preRes = Infeasible
       => estimates' = estimates]_vars

=============================================================================
