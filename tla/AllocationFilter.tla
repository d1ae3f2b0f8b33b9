-------------------------- MODULE AllocationFilter --------------------------
(***************************************************************************)
(* The call filter (lib/passes/filter): does an alloca or a global reach a *)
(* call of the target API?  BaseFilter searches depth first along the uses *)
(* of the value (DFSfilter) and, when a function is done, enters the       *)
(* definitions it was passed to (DFSFuncFilter).  Both recursions are here *)
(* explicit stacks: an activation of DFSFuncFilter holds the path of its   *)
(* DFSfilter.  `chain` is fpath, which all activations share.              *)
(*                                                                         *)
(* `cuts` remembers where the search gave up a way; it is no state of the  *)
(* program.                                                                *)
(***************************************************************************)
EXTENDS Integers, Sequences, FiniteSets, SequencesExt

CONSTANT MaxDepth   \* bound: activations of DFSFuncFilter

ASSUME MaxDepthAssumption == MaxDepth \in Nat \ {0}

VARIABLES
  prog,      \* the module: its values with their uses, and its functions
  impl,      \* filter implementation: "std", "cg", or "nograph" (cg without a graph)
  start,     \* start_f, "none" for a global
  chain,     \* functions of fpath.intermediatePath
  acts,      \* activations of DFSFuncFilter, innermost last
  verdict,   \* "idle", "open", "keep" or "filter"
  cuts       \* history: what was not followed

filterVars == <<prog, impl, start, chain, acts, verdict, cuts>>

-----------------------------------------------------------------------------
(* The module.                                                             *)

Val(v) == prog.values[v]
Fun(f) == prog.functions[f]
Values == DOMAIN prog.values
Functions == DOMAIN prog.functions

IsCall(v)  == Val(v).kind = "call"
IsStore(v) == Val(v).kind = "store"
Stored(s)  == Val(s).ops[1]
Pointer(s) == Val(s).ops[2]

\* Value::users(): the users with the operand the value is, one element per use.
Uses(v) == prog.uses[v]
Users(v) == {use[1] : use \in Uses(v)}

\* What a module is taken to be: its values and functions are finitely many, what
\* values, uses and calls refer to exists, a use is of the operand it says, a store
\* has no result, a variable belongs to a definition, and a call has no more
\* arguments than its definition, or the outlined function of a fork, has parameters
\* (functions with variable arguments are left out).  The fork is the OpenMP
\* runtime's; the target API has no intrinsics and no functions of that runtime.
ValidModule(m) ==
  LET V == DOMAIN m.values
      F == DOMAIN m.functions
  IN  /\ IsFiniteSet(V) /\ IsFiniteSet(F) /\ "none" \notin V
      /\ \A f \in F :
           /\ m.functions[f].params \in Seq(V)
           /\ m.functions[f].omp = "fork" => m.functions[f].kind = "decl"
           /\ m.functions[f].match => m.functions[f].kind # "intrinsic" /\ m.functions[f].omp = "none"
      /\ \A v \in V :
           LET ops == m.values[v].ops IN
           /\ ops \in Seq(V) /\ m.uses[v] \in SUBSET (V \X Nat)
           /\ \A use \in m.uses[v] : LET to == m.values[use[1]].ops IN use[2] \in DOMAIN to /\ to[use[2]] = v
           /\ m.values[v].kind = "store" => Len(ops) = 2 /\ m.uses[v] = {}
           /\ m.values[v].kind = "alloca" => m.values[v].fn \in F /\ m.functions[m.values[v].fn].kind = "def"
           /\ m.values[v].kind = "call" /\ m.values[v].callee # "indirect" =>
                LET f == m.values[v].callee IN
                /\ f \in F
                /\ m.functions[f].kind = "def" /\ m.functions[f].omp # "fork" =>
                     Len(ops) <= Len(m.functions[f].params)
                /\ m.functions[f].omp = "fork" =>
                     LET task == m.values[ops[3]].function IN
                     /\ Len(m.functions[f].params) # 1
                     /\ task \in F /\ Len(ops) <= Len(m.functions[task].params) + 1

\* The nodes that can be reached from a set.
ReachableFrom(nodes, from, next(_)) ==
  LET R[n \in 0..Cardinality(nodes)] ==
        IF n = 0 THEN from ELSE UNION {{x} \cup next(x) : x \in R[n - 1]}
  IN  R[Cardinality(nodes)]

\* DefUseChain::traverse visits the users of users; `cancel` only leaves the switch.
Traversed(v) == ReachableFrom(Values, Users(v), Users)

Calls(f) == {v \in Values : IsCall(v) /\ Val(v).fn = f}
IsDecl(f) == f # "indirect" /\ Fun(f).kind # "def"

-----------------------------------------------------------------------------
(* OpenMP.                                                                 *)

isOmpExecutor(f) == f # "indirect" /\ Fun(f).omp = "fork"
isOmpHelper(f)   == Fun(f).omp \in {"helper", "task", "taskalloc"}
isOmpTaskRelated(f) == f # "indirect" /\ Fun(f).omp \in {"task", "taskalloc"}

\* The outlined function is the third argument of __kmpc_fork_call.
getMicrotask(c) == Val(Val(c).ops[3]).function

\* Mutant: the thread ids the outlined function starts with count as one.
ArgOffsetOneLess(i) == i - 2

\* Position, from 1, of an argument of the fork in the outlined function.
getArgOffsetToMicrotask(i) == i - 1

canDiscardMicrotaskArg(i) == i \in 1..3

\* The name compared with, "__kmpc_omp_task(", is that of no function.
allocaReachesTask(v) == FALSE

isTaskRelatedStore(v) ==
  /\ IsStore(v) /\ Fun(Val(v).fn).ompContext
  /\ \/ Val(Pointer(v)).kind = "structgep"
     \/ \E c \in Calls(Val(v).fn) :
          /\ Val(c).callee # "indirect" /\ Fun(Val(c).callee).omp = "taskalloc"
          /\ v \in Traversed(c)

-----------------------------------------------------------------------------
(* What the two implementations say of a call site.                        *)

\* First position of the value in the arguments of the call, 0 if there is none.
\* prev is the value before the call on the path.
findArg(c, prev) ==
  LET at == {i \in DOMAIN Val(c).ops : Val(c).ops[i] = prev} IN
  IF at = {} THEN 0 ELSE CHOOSE i \in at : \A j \in at : i <= j

\* correlate2void: Exact or Global.
Correlated(c, prev) ==
  LET void == Fun(Val(c).callee).void
      i == findArg(c, prev)
  IN  IF i = 0 THEN \E j \in DOMAIN void : void[j] ELSE void[i]

\* The functions a function calls, directly or not, by the call graph.
DirectCallees(f) == Fun(f).callees
get_reachable_functions(f) == ReachableFrom(Functions, DirectCallees(f), DirectCallees)

\* JSONCG::reachable.  hasBodyMap[target] looks up the pattern, which names no
\* function: allBodies is FALSE as soon as one function is reachable.
Reachable(f) ==
  LET all == get_reachable_functions(f)
  IN  IF \E g \in all : Fun(g).match THEN "reaches"
      ELSE IF all # {} \/ Fun(f).kind # "def" THEN "maybe_reaches"
      ELSE "never_reaches"

\* ForwardFilterImpl::decl.
StdDecl(c, prev) ==
  LET f == Fun(Val(c).callee) IN
  IF f.match /\ f.deep THEN IF Correlated(c, prev) THEN "Keep" ELSE "Continue"
  ELSE CASE f.oracle = "skip"     -> "Skip"
         [] f.oracle = "continue" -> "Continue"
         [] OTHER                 -> "Keep"

\* ForwardFilterImpl::def.
StdDef(c, prev) ==
  LET f == Fun(Val(c).callee) IN
  IF f.match THEN IF f.deep => Correlated(c, prev) THEN "Keep" ELSE "Continue"
  ELSE "FollowDef"

\* CGFilterImpl::decl and def; DFSfilter continues on the status "Filter".
CGDecl(c, prev) ==
  LET f == Val(c).callee
      reached == IF impl = "nograph" THEN "unknown" ELSE Reachable(f)
  IN  IF Fun(f).match THEN IF Correlated(c, prev) THEN "Keep" ELSE "Continue"
      ELSE CASE reached = "reaches"       -> "Keep"
             [] reached = "never_reaches" -> "Skip"
             [] reached = "maybe_reaches" -> "Filter"
             [] OTHER                     -> "Continue"

callsite(v, prev) ==
  LET f == Val(v).callee IN
  IF ~IsCall(v) THEN "Continue"
  ELSE IF f = "indirect" THEN "Keep"
  ELSE IF Fun(f).kind = "intrinsic" THEN "Skip"
  ELSE IF IsDecl(f) /\ isOmpExecutor(f) THEN "FollowDef"
  ELSE IF IsDecl(f) /\ isOmpHelper(f) THEN "Skip"
  ELSE IF impl # "std" THEN CGDecl(v, prev)
  ELSE IF IsDecl(f) THEN StdDecl(v, prev)
  ELSE StdDef(v, prev)

\* An alloca of a pointer that holds an argument of its function.
isTempAlloc(v) ==
  /\ Val(v).kind = "alloca" /\ Val(v).pointer
  /\ \E s \in Traversed(v) : IsStore(s) /\ Stored(s) \in ToSet(Fun(Val(v).fn).params)

precheck(v, f) ==
  IF \/ Calls(f) = {}
     \/ chain = <<>> /\ (isTempAlloc(v) \/ allocaReachesTask(v))
  THEN "Filter"
  ELSE IF impl # "std" /\ \E c \in Calls(f) : isOmpTaskRelated(Val(c).callee) THEN "Keep"
  ELSE "Continue"

\* DefaultSearch::search, with the node itself on the path.
search(v, path, revisited) ==
  IF revisited THEN {}
  ELSE IF IsStore(v)
  THEN IF \/ Val(Pointer(v)).kind = "alloca" /\ ~Val(v).pointer
          \/ Contains(path, Pointer(v))
       THEN {} ELSE {<<Pointer(v), 0>>}
  ELSE Uses(v)

-----------------------------------------------------------------------------
(* The search.                                                             *)

Idle ==
  /\ start = "none" /\ chain = <<>> /\ acts = <<>>
  /\ verdict = "idle" /\ cuts = {}

Activation(v) ==
  [value |-> v, phase |-> "precheck", path |-> <<>>, left |-> <<>>, phis |-> {},
   defs |-> <<>>, args |-> <<>>]

Top == acts[Len(acts)]
Replace(a) == Append(Front(acts), a)
In(phase) == verdict = "open" /\ Top.phase = phase

\* CallFilter::operator() and BaseFilter::filter.
StartFilter(v, f) ==
  /\ start' = f /\ chain' = <<>> /\ acts' = <<Activation(v)>>
  /\ verdict' = "open" /\ cuts' = {}

Keep == verdict' = "keep" /\ UNCHANGED <<start, chain, acts, cuts>>

\* The calls at which it matters that and as what a value is passed: those of
\* definitions, of parallel regions and of the target API.
Matters(c) ==
  LET f == Val(c).callee IN ~IsDecl(f) \/ isOmpExecutor(f) \/ Fun(f).match

PassedTwice(c, v) ==
  \E i, j \in DOMAIN Val(c).ops : i # j /\ Val(c).ops[i] = v /\ Val(c).ops[j] = v

\* What is not followed when a value is classified: a definition; the result of a
\* skipped call that was stored to; but the first position of an argument; a
\* returned value, to the callers.
GivenUp(v, prev, status) ==
  {why \in {"definition", "skipped", "same argument", "returned"} :
     \/ why = "definition" /\ IsCall(v) /\ ~IsDecl(Val(v).callee) /\ status # "FollowDef"
     \/ why = "skipped" /\ status = "Skip" /\ (prev = "none" \/ IsStore(prev))
     \/ why = "same argument" /\ IsCall(v) /\ Matters(v) /\ PassedTwice(v, prev)
     \/ why = "returned" /\ Val(v).kind = "ret"}

PopChain == IF chain = <<>> THEN <<>> ELSE Front(chain)

\* fpath.pop() and return of the innermost activation.
ReturnFilter ==
  /\ chain' = PopChain
  /\ acts' = Front(acts)
  /\ verdict' = IF Len(acts) = 1 THEN "filter" ELSE "open"

\* fpath.getCurrentFunc().
CurrentFunc == IF chain = <<>> THEN start ELSE Last(chain)

\* DFSfilter pushes a value, classifies it and collects its successors.
Visit(a, v) ==
  LET prev == IF a.path = <<>> THEN "none" ELSE Last(a.path)
      status == callsite(v, prev)
      path == Append(a.path, v)
      isPhi == Val(v).kind = "phi"
  IN  IF status = "Keep" THEN Keep
      ELSE /\ acts' = Replace([a EXCEPT
                 !.phase = "search", !.path = path,
                 !.phis = IF isPhi THEN a.phis \cup {v} ELSE a.phis,
                 !.left = Append(a.left, IF status = "Skip" THEN {} ELSE search(v, path, isPhi /\ v \in a.phis)),
                 !.defs = IF status = "FollowDef" THEN Append(a.defs, <<prev, v>>) ELSE a.defs])
           /\ cuts' = cuts \cup GivenUp(v, prev, status)
           /\ UNCHANGED <<start, chain, verdict>>

\* DFSFuncFilter up to the call of DFSfilter.
Precheck ==
  /\ In("precheck")
  /\ LET status == IF CurrentFunc = "none" THEN "Continue" ELSE precheck(Top.value, CurrentFunc) IN
     CASE status = "Filter" -> /\ ReturnFilter
                               /\ cuts' = cuts \cup {IF Calls(CurrentFunc) = {} THEN "leaf" ELSE "temporary"}
                               /\ UNCHANGED start
       [] status = "Keep"   -> Keep
       [] OTHER             -> Visit(Top, Top.value)
  /\ UNCHANGED <<prog, impl>>

\* The next successor in the loop of DFSfilter.
Successor ==
  /\ In("search") /\ Top.path # <<>> /\ Last(Top.left) # {}
  /\ \E use \in Last(Top.left) :
       LET v == use[1]
           a == [Top EXCEPT !.left[Len(Top.left)] = @ \ {use}]
       IN  IF isTaskRelatedStore(v) THEN Keep
           ELSE IF Contains(a.path, v)
           THEN /\ acts' = Replace(a)
                /\ cuts' = cuts \cup {why \in {"own result"} : IsCall(v) /\ Matters(v)}
                /\ UNCHANGED <<start, chain, verdict>>
           ELSE Visit(a, v)
  /\ UNCHANGED <<prog, impl>>

\* DFSfilter returns true; when its first call does, the definitions are next.
PopValue ==
  /\ In("search") /\ Top.path # <<>> /\ Last(Top.left) = {}
  /\ acts' = Replace([Top EXCEPT !.path = Front(Top.path), !.left = Front(Top.left),
                                 !.phase = IF Len(Top.path) = 1 THEN "definitions" ELSE "search"])
  /\ UNCHANGED <<prog, impl, start, chain, verdict, cuts>>

\* Mutant: the chain ends in the function that is left.
PushedNot(f) == chain

Pushed(f) == Append(chain, f)

\* The arguments to follow into a definition: the one the value is passed as, or
\* all of them.
args(c, i) ==
  IF i = 0 THEN Fun(Val(c).callee).params
  ELSE IF isOmpExecutor(Val(c).callee)
  THEN <<Fun(getMicrotask(c)).params[getArgOffsetToMicrotask(i)]>>
  ELSE <<Fun(Val(c).callee).params[i]>>

\* Mutant: recursive calls are followed.
containsNot(f) == FALSE

\* fpath.contains.
contains(f) == f = start \/ Contains(chain, f)

\* The next path that reached a definition.
FollowDef ==
  /\ In("definitions") /\ Top.args = <<>> /\ Top.defs # <<>>
  /\ LET prev == Head(Top.defs)[1]
         c == Head(Top.defs)[2]
         f == Val(c).callee
         i == findArg(c, prev)
         a == [Top EXCEPT !.defs = Tail(Top.defs)]
     IN  \/ /\ contains(f)
            /\ acts' = Replace(a)
            /\ cuts' = cuts \cup {"recursion"}
            /\ UNCHANGED chain
         \/ /\ ~contains(f)
            /\ isOmpExecutor(f) /\ canDiscardMicrotaskArg(i)
            /\ acts' = Replace(a)
            /\ UNCHANGED <<chain, cuts>>
         \/ /\ ~contains(f)
            /\ ~(isOmpExecutor(f) /\ canDiscardMicrotaskArg(i))
            /\ chain' = Pushed(IF isOmpExecutor(f) THEN getMicrotask(c) ELSE f)
            /\ acts' = Replace([a EXCEPT !.args = args(c, i)])
            /\ cuts' = cuts \cup {why \in {"uncorrelated"} : Len(args(c, i)) # 1}
  /\ UNCHANGED <<prog, impl, start, verdict>>

\* The recursive call of DFSFuncFilter.
EnterDef ==
  /\ In("definitions") /\ Top.args # <<>> /\ Len(acts) < MaxDepth
  /\ acts' = Append(Replace([Top EXCEPT !.args = Tail(Top.args)]), Activation(Head(Top.args)))
  /\ UNCHANGED <<prog, impl, start, chain, verdict, cuts>>

\* All definitions were followed.
Return ==
  /\ In("definitions") /\ Top.args = <<>> /\ Top.defs = <<>>
  /\ ReturnFilter
  /\ UNCHANGED <<prog, impl, start, cuts>>

FilterStep == Precheck \/ Successor \/ PopValue \/ FollowDef \/ EnterDef \/ Return

-----------------------------------------------------------------------------
(* What the filter is to find out.                                         *)

\* Where the value goes: into what is computed from it, into the memory it is
\* stored to, into the parameter it is passed as, and back as the result.
FlowsTo(v) ==
  {u \in Users(v) : ~IsStore(u) /\ ~IsCall(u)}
  \cup {Pointer(s) : s \in {u \in Users(v) : IsStore(u) /\ Stored(u) = v /\ Val(u).pointer}}
  \cup {Fun(Val(use[1]).callee).params[use[2]] :
          use \in {w \in Uses(v) : IsCall(w[1]) /\ Val(w[1]).callee # "indirect" /\ ~IsDecl(Val(w[1]).callee)}}
  \cup {Fun(getMicrotask(use[1])).params[use[2] - 1] :
          use \in {w \in Uses(v) : IsCall(w[1]) /\ isOmpExecutor(Val(w[1]).callee) /\ w[2] > 3}}
  \cup (IF Val(v).kind = "ret" THEN {c \in Values : IsCall(c) /\ Val(c).callee = Val(v).fn} ELSE {})

\* The value, or what it flows to, is handed to the target API as a void pointer.
Reaches(v) ==
  \E x \in ReachableFrom(Values, {v}, FlowsTo) : \E use \in Uses(x) :
    /\ IsCall(use[1]) /\ Val(use[1]).callee # "indirect"
    /\ LET f == Fun(Val(use[1]).callee) IN f.match /\ f.deep /\ f.void[use[2]]
=============================================================================
