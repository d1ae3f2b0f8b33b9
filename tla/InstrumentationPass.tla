------------------------ MODULE InstrumentationPass -------------------------
(***************************************************************************)
(* The pass over one module (lib/passes): MemInstFinder collects and       *)
(* filters globals, allocas, mallocs and frees, function by function, and  *)
(* asks the call filter about globals and allocas one at a time; then      *)
(* TypeArtPass::runOnModule instruments what was kept, function by         *)
(* function.  AllocationFilter is the call filter.                         *)
(*                                                                         *)
(* A callback is recorded with the operation it stands for and the values  *)
(* of its arguments; where it is put is the subject of HeapProgram and     *)
(* StackScopes.                                                            *)
(***************************************************************************)
EXTENDS AllocationFilter, TypeDB

CONSTANTS
  Program,   \* modules to run the pass on
  Inputs     \* which of them, with which options

\* The command line options of the pass; "nograph" is the call graph filter with a
\* file that cannot be read.
Options ==
  [heap : BOOLEAN, stack : BOOLEAN, global : BOOLEAN, lifetime : BOOLEAN, nonArray : BOOLEAN,
   mallocPair : BOOLEAN, filterGlobal : BOOLEAN, callFilter : BOOLEAN, pointerAlloca : BOOLEAN,
   impl : {"none", "std", "cg", "nograph"}]

\* MemOpKind: the operations that allocate.
Allocating == {"malloc", "calloc", "realloc", "aligned_alloc"}

\* A type has an id, the width of its values if it is scalar, the bytes it takes in
\* memory (DataLayout) and, if it is an array, a flattened length; the other fields
\* of an array are those of its elements.  ScalarBits is the width of the type that
\* get_builtin_typeid gives an id, from id 0 on.
ScalarBits == <<8, 16, 32, 64, 16, 32, 64, 128, 80, 128>>
X86_FP80   == 8

\* Types occupy memory, and what the runtime takes the size of a type for is what it
\* occupies: the layout's size for a struct, BuiltinSizes for a builtin type.
ValidType(layouts, type) ==
  /\ type.id \in Nat /\ type.bits \in Nat
  /\ type.size \in Nat \ {0} /\ type.length \in Nat \ {0}
  /\ type.array \/ type.length = 1
  /\ type.id # UnknownType =>
       /\ type.bits = IF type.id + 1 \in DOMAIN ScalarBits THEN ScalarBits[type.id + 1] ELSE 0
       /\ TypeSizeIn(layouts, type.id) = type.size

\* Instructions and functions have different places in the module, the sizes a
\* program asks for are numbers, and a block starts at its own address.
ValidOperations(m) ==
  LET V == DOMAIN m.values
      kind(v) == m.values[v].kind
      num(v) == m.values[v].num
  IN  /\ \A f \in DOMAIN m.functions : m.functions[f].at \in Nat
      /\ \A f, g \in DOMAIN m.functions :
           m.functions[f].kind = "def" /\ m.functions[g].kind = "def" /\ m.functions[f].at = m.functions[g].at
           => f = g
      /\ \A v \in V : m.values[v].at \in Nat
      /\ \A v, w \in V :
           /\ m.values[v].at = m.values[w].at
           /\ {kind(v), kind(w)} \subseteq {"call", "alloca"} \/ {kind(v), kind(w)} = {"global"}
           => v = w
      /\ \A v \in V :
           /\ kind(v) = "bitcast" => ValidType(m.layouts, m.values[v].type)
           /\ kind(v) = "call" /\ m.values[v].callee # "indirect" =>
                LET ops == m.values[v].ops
                    mem == m.functions[m.values[v].callee].mem
                IN  /\ mem \in {"malloc", "calloc"} => num(ops[1]) \in Nat
                    /\ mem \in {"calloc", "realloc", "aligned_alloc"} => num(ops[2]) \in Nat
                    /\ mem \in Allocating => m.values[v].address = [block |-> v, offset |-> 0]

ASSUME ProgramAssumption == \A i \in DOMAIN Program : ValidModule(Program[i]) /\ ValidOperations(Program[i])

ASSUME InputsAssumption == \A i \in Inputs : i.prog \in DOMAIN Program /\ i.conf \in Options

VARIABLES
  conf,        \* the options
  phase,       \* what the pass does next
  todo,        \* functions of the module that are left
  queue,       \* allocas or globals the call filter has yet to see
  collector,   \* mOpsCollector
  functionMap, \* per function, the operations to instrument
  callbacks,   \* inserted callbacks, in the order of their insertion
  gaps         \* history: cuts of the search for each value

passVars == <<conf, phase, todo, queue, collector, functionMap, callbacks, gaps>>
vars == <<filterVars, passVars>>

Nothing == [globals |-> <<>>, allocas |-> <<>>, mallocs |-> <<>>, frees |-> <<>>]

PassInit ==
  /\ \E i \in Inputs : prog = Program[i.prog] /\ conf = i.conf /\ impl = i.conf.impl
  /\ Idle
  /\ phase = "globals" /\ todo = <<>> /\ queue = <<>>
  /\ collector = Nothing /\ functionMap = <<>>
  /\ callbacks = <<>> /\ gaps = <<>>

-----------------------------------------------------------------------------
(* Collecting.                                                             *)

\* The values of a set as they follow each other in the module.
InOrder(S) ==
  [i \in 1..Cardinality(S) |-> CHOOSE v \in S : Cardinality({w \in S : Val(w).at < Val(v).at}) = i - 1]

\* A use list has the latest use first.
FirstOf(S) == CHOOSE v \in S : \A w \in S : Val(w).at <= Val(v).at

OfKind(S, kind) == {v \in S : Val(v).kind = kind}

\* MemOps: what the called function does with memory, by its name.
MemOp(v) == IF IsCall(v) /\ Val(v).callee # "indirect" THEN Fun(Val(v).callee).mem ELSE "none"

\* getSingleUserAs: the only use besides those of the address sanitizer.
SingleUser(v, kind) ==
  LET uses == {use \in Uses(v) : ~(IsCall(use[1]) /\ Val(use[1]).callee = "__asan")} IN
  IF Cardinality(uses) = 1 THEN OfKind({use[1] : use \in uses}, kind) ELSE {}

\* collectRelevantMallocUsers: a cast of the block, or casts of what is loaded from
\* where it is stored.
CastsOf(l) == OfKind(Users(l), "bitcast")
LoadsOf(s) == {l \in OfKind(Users(Pointer(s)), "load") : CastsOf(l) # {}}
CastsBy(u) ==
  CASE Val(u).kind = "bitcast" -> {u}
    [] Val(u).kind = "store"   -> UNION {CastsOf(l) : l \in LoadsOf(u)}
    [] OTHER                   -> {}
MallocBcasts(c) == UNION {CastsBy(u) : u \in Users(c)}

\* The cast that is found first.
FirstCast(c) ==
  LET u == FirstOf({x \in Users(c) : CastsBy(x) # {}})
  IN  IF Val(u).kind = "bitcast" THEN u ELSE FirstOf(CastsOf(FirstOf(LoadsOf(u))))

MallocGeps(c) == OfKind(Users(c), "gep")

isi64Ptr(b) == Val(b).type.name = "i64"

\* The ways to read the uses of a block as those of new[] with an array cookie:
\* the store of the cookie and the address of the array behind it.
\* handleUnpaddedArrayCookie takes the cookie's address from the only cast of the
\* block, handlePaddedArrayCookie from the second GEP.
Cookies(c) ==
  LET geps == MallocGeps(c)
      bcasts == MallocBcasts(c)
      array == FirstOf(geps)
      cookieCasts == IF Cardinality(geps) = 1 THEN bcasts
                     ELSE SingleUser(FirstOf(geps \ {array}), "bitcast")
  IN  IF \/ Cardinality(geps) = 1 /\ Cardinality(bcasts) # 1
         \/ Cardinality(geps) = 2 /\ bcasts # {}
         \/ Cardinality(geps) > 2
      THEN {}
      ELSE {[store |-> s, gep |-> array, cast |-> a] :
              s \in UNION {SingleUser(b, "store") : b \in {x \in cookieCasts : isi64Ptr(x)}},
              a \in SingleUser(array, "bitcast")}

\* handleArrayCookie ends the compiler when there are GEPs but no cookie.
CookieError(c) == MallocGeps(c) # {} /\ Cookies(c) = {}

\* visitMallocLike.
MallocData(c) ==
  LET geps == MallocGeps(c)
      bcasts == MallocBcasts(c)
  IN  IF geps = {}
      THEN [call |-> c, cookie |-> <<>>, bitcasts |-> bcasts,
            primary |-> IF bcasts = {} THEN "none" ELSE FirstCast(c)]
      ELSE LET k == CHOOSE x \in Cookies(c) : TRUE IN
           [call |-> c, cookie |-> <<k>>, bitcasts |-> bcasts \cup {k.cast}, primary |-> k.cast]

InFunction(f) == {v \in Values : Val(v).fn = f}
Mallocs(f) == {v \in InFunction(f) : MemOp(v) \in Allocating}

\* MemOpVisitor::collect: the operations of a function, added to the lists.
collect(f) ==
  LET mallocs == InOrder(IF conf.heap THEN Mallocs(f) ELSE {})
      frees == InOrder({v \in InFunction(f) : conf.heap /\ MemOp(v) = "free"})
      allocas == InOrder({v \in OfKind(InFunction(f), "alloca") : conf.stack})
  IN  [collector EXCEPT !.allocas = @ \o allocas,
                        !.mallocs = @ \o [i \in DOMAIN mallocs |-> MallocData(mallocs[i])],
                        !.frees = @ \o frees]

-----------------------------------------------------------------------------
(* The filters that need no search.                                        *)

\* -typeart-stack-array-only.  The size of a variable length array is 0.
NonArrayAlloca(a) == ~Val(a).type.array /\ ~Val(a).vla /\ Val(a).size = 1

\* -typeart-malloc-store-filter: the alloca is stored a block that was collected.
\* The first store of a cast or a call decides; for a cast it is compared with the
\* casts of the first block only.
MallocAllocPair(a, mallocs) ==
  LET deciding == {s \in OfKind(Users(a), "store") :
                     \/ Val(Stored(s)).kind = "call"
                     \/ Val(Stored(s)).kind = "bitcast" /\ mallocs # <<>>}
      source == Stored(FirstOf(deciding))
  IN  /\ deciding # {}
      /\ IF Val(source).kind = "bitcast" THEN source \in mallocs[1].bitcasts
         ELSE \E i \in DOMAIN mallocs : mallocs[i].call = source

\* -typeart-filter-pointer-alloca.
PointerAlloca(a) == ~Val(a).vla /\ Val(a).pointer

FilteredAlloca(a, mallocs) ==
  \/ conf.nonArray /\ NonArrayAlloca(a)
  \/ conf.mallocPair /\ MallocAllocPair(a, mallocs)
  \/ conf.pointerAlloca /\ PointerAlloca(a)

\* Globals of the compiler, of sanitizers and of the standard library, externals
\* and globals of opaque type.
FilteredGlobal(g) == conf.filterGlobal /\ Val(g).internal

-----------------------------------------------------------------------------
(* MemInstFinderPass::runOnModule and runOnFunction.                       *)

Definitions == {f \in Functions : Fun(f).kind = "def" /\ ~Fun(f).typeart}
DefinitionsInOrder ==
  [i \in 1..Cardinality(Definitions) |->
     CHOOSE f \in Definitions : Cardinality({g \in Definitions : Fun(g).at < Fun(f).at}) = i - 1]

FindGlobals ==
  /\ phase = "globals"
  /\ queue' = InOrder({g \in OfKind(Values, "global") : ~FilteredGlobal(g)})
  /\ phase' = "filterGlobals"
  /\ UNCHANGED <<filterVars, conf, todo, collector, functionMap, callbacks, gaps>>

Filtering == phase \in {"filterGlobals", "filterAllocas"}

\* NoOpFilter answers for a filter that is off; globals are not filtered without
\* -typeart-filter-globals.
CallFilterOff ==
  \/ conf.impl = "none" \/ ~conf.callFilter
  \/ phase = "filterGlobals" /\ ~conf.filterGlobal

KeptList == IF phase = "filterGlobals" THEN "globals" ELSE "allocas"

AskFilter ==
  /\ Filtering /\ queue # <<>> /\ verdict = "idle" /\ ~CallFilterOff
  /\ StartFilter(Head(queue), IF phase = "filterGlobals" THEN "none" ELSE Val(Head(queue)).fn)
  /\ UNCHANGED <<prog, impl, passVars>>

KeepUnasked ==
  /\ Filtering /\ queue # <<>> /\ verdict = "idle" /\ CallFilterOff
  /\ collector' = [collector EXCEPT ![KeptList] = Append(@, Head(queue))]
  /\ queue' = Tail(queue)
  /\ UNCHANGED <<filterVars, conf, phase, todo, functionMap, callbacks, gaps>>

FilterAnswers ==
  /\ Filtering /\ verdict \in {"keep", "filter"}
  /\ collector' = IF verdict = "filter" THEN collector
                  ELSE [collector EXCEPT ![KeptList] = Append(@, Head(queue))]
  /\ gaps' = [v \in DOMAIN gaps \cup {Head(queue)} |-> IF v = Head(queue) THEN cuts ELSE gaps[v]]
  /\ queue' = Tail(queue)
  /\ verdict' = "idle" /\ start' = "none" /\ chain' = <<>> /\ acts' = <<>> /\ cuts' = {}
  /\ UNCHANGED <<prog, impl, conf, phase, todo, functionMap, callbacks>>

EndGlobals ==
  /\ phase = "filterGlobals" /\ queue = <<>>
  /\ phase' = "find" /\ todo' = DefinitionsInOrder
  /\ UNCHANGED <<filterVars, conf, queue, collector, functionMap, callbacks, gaps>>

\* runOnFunction up to the call filter.
FindInFunction ==
  /\ phase = "find" /\ todo # <<>>
  /\ LET c == collect(Head(todo)) IN
     IF \E m \in Mallocs(Head(todo)) : conf.heap /\ CookieError(m)
     THEN phase' = "exit" /\ UNCHANGED <<queue, collector>>
     ELSE /\ phase' = "filterAllocas"
          /\ queue' = InOrder({a \in ToSet(c.allocas) : ~FilteredAlloca(a, c.mallocs)})
          /\ collector' = [c EXCEPT !.allocas = <<>>]
  /\ UNCHANGED <<filterVars, conf, todo, functionMap, callbacks, gaps>>

\* Mutant: the lists are not cleared.
clearNot(c) == c

clear(c) == [c EXCEPT !.allocas = <<>>, !.mallocs = <<>>, !.frees = <<>>]

\* runOnFunction from there.
StoreFunctionData ==
  /\ phase = "filterAllocas" /\ queue = <<>>
  /\ functionMap' = [f \in DOMAIN functionMap \cup {Head(todo)} |->
                       IF f = Head(todo) THEN collector ELSE functionMap[f]]
  /\ collector' = clear(collector)
  /\ phase' = "find" /\ todo' = Tail(todo)
  /\ UNCHANGED <<filterVars, conf, queue, callbacks, gaps>>

-----------------------------------------------------------------------------
(* Arguments of the callbacks (MemOpArgCollector) and the callbacks        *)
(* (MemOpInstrumentation).                                                 *)

\* In an outlined function the callbacks are those for OpenMP.
OmpName == [heap |-> "heap_omp", free |-> "free_omp", stack |-> "stack_omp"]

Callback(name, f, op, ptr, id, count) ==
  [name |-> IF Fun(f).ompContext THEN OmpName[name] ELSE name,
   op |-> op, ptr |-> ptr, id |-> id, count |-> count]

Num(v) == Val(v).num

\* getTypeSizeInBytes: the width of a scalar in bytes, which is less than it takes in
\* memory for long double; the size in memory of the other types.
TypeSize(type) == (IF type.bits > 0 THEN type.bits \div 8 ELSE type.size) * type.length

Byte == [name |-> "i8", id |-> 0, bits |-> 8, size |-> 1, length |-> 1, array |-> FALSE]

\* The type a block is taken for: that of its primary cast, or bytes.
BlockType(m) == IF m.primary = "none" THEN Byte ELSE Val(m.primary).type

\* Mutant: the number of bytes.
ElementCountBytes(m) ==
  LET ops == Val(m.call).ops IN
  CASE MemOp(m.call) = "calloc" -> Num(ops[1]) * Num(ops[2])
    [] MemOp(m.call) = "malloc" -> Num(ops[1])
    [] OTHER                    -> Num(ops[2])

\* The element count of a heap callback.
ElementCount(m) ==
  LET ops == Val(m.call).ops
      size == TypeSize(BlockType(m))
  IN  CASE MemOp(m.call) = "calloc" ->
             IF m.primary = "none" THEN Num(ops[1]) * Num(ops[2]) ELSE Num(ops[1])
        [] MemOp(m.call) = "malloc" ->
             IF m.cookie # <<>> THEN Num(Stored(m.cookie[1].store)) ELSE Num(ops[1]) \div size
        [] OTHER -> Num(ops[2]) \div size

\* collectHeap and instrumentHeap for one block; the pointer of an array with a
\* cookie is the array's.
HeapCallbacks(f, m) ==
  LET id == BlockType(m).id
      ptr == IF m.cookie # <<>> /\ MemOp(m.call) = "malloc" THEN m.cookie[1].gep ELSE m.call
      heap == Callback("heap", f, m.call, ptr, id, ElementCount(m))
  IN  IF id = UnknownType THEN <<>>
      ELSE IF MemOp(m.call) = "realloc"
      THEN <<Callback("free", f, m.call, Val(m.call).ops[1], UnknownType, 0), heap>>
      ELSE <<heap>>

\* Mutant: the argument of free is reported.
FreedPointerPlain(c) == Val(c).ops[1]

\* collectFree: delete[] computes the block from the array, which was reported.
FreedPointer(c) ==
  LET arg == Val(c).ops[1] IN IF Val(arg).kind = "gep" THEN Val(arg).ops[1] ELSE arg

FreeCallbacks(f, c) == <<Callback("free", f, c, FreedPointer(c), UnknownType, 0)>>

\* The lifetime.start intrinsics of an alloca.
Lifetimes(a) ==
  {c \in Calls(Val(a).fn) :
     /\ Val(c).callee # "indirect" /\ Fun(Val(c).callee).lifetime
     /\ \/ Val(c).ops[2] = a
        \/ Val(Val(c).ops[2]).kind = "bitcast" /\ Val(Val(c).ops[2]).ops[1] = a}

\* collectStack and instrumentStack: at the alloca or where its lifetime starts.
StackCallbacks(f, a) ==
  LET count == IF Val(a).vla THEN Val(a).size ELSE Val(a).size * Val(a).type.length
      at(op) == Callback("stack", f, op, a, Val(a).type.id, count)
      starts == IF conf.lifetime THEN InOrder(Lifetimes(a)) ELSE <<>>
  IN  IF Val(a).type.id = UnknownType THEN <<>>
      ELSE IF starts = <<>> THEN <<at(a)>>
      ELSE [i \in DOMAIN starts |-> at(starts[i])]

GlobalCallbacks(g) ==
  IF Val(g).type.id = UnknownType THEN <<>>
  ELSE <<[name |-> "global", op |-> g, ptr |-> g, id |-> Val(g).type.id, count |-> Val(g).type.length]>>

-----------------------------------------------------------------------------
(* TypeArtPass::runOnModule and runOnFunc.                                 *)

EndFind ==
  /\ phase = "find" /\ todo = <<>>
  /\ phase' = "instrument" /\ todo' = DefinitionsInOrder
  /\ callbacks' = IF ~conf.global THEN <<>>
                  ELSE FlattenSeq([i \in DOMAIN collector.globals |-> GlobalCallbacks(collector.globals[i])])
  /\ UNCHANGED <<filterVars, conf, queue, collector, functionMap, gaps>>

InstrumentFunction ==
  /\ phase = "instrument" /\ todo # <<>>
  /\ LET f == Head(todo)
         data == functionMap[f]
         of(list, make(_, _)) == FlattenSeq([i \in DOMAIN list |-> make(f, list[i])])
     IN  callbacks' = callbacks
           \o (IF conf.heap THEN of(data.mallocs, HeapCallbacks) \o of(data.frees, FreeCallbacks) ELSE <<>>)
           \o (IF conf.stack THEN of(data.allocas, StackCallbacks) ELSE <<>>)
  /\ todo' = Tail(todo)
  /\ UNCHANGED <<filterVars, conf, phase, queue, collector, functionMap, gaps>>

EndPass ==
  /\ phase = "instrument" /\ todo = <<>>
  /\ phase' = "done"
  /\ UNCHANGED <<filterVars, conf, todo, queue, collector, functionMap, callbacks, gaps>>

Search == FilterStep /\ UNCHANGED passVars

Next ==
  \/ FindGlobals \/ AskFilter \/ KeepUnasked \/ FilterAnswers \/ EndGlobals
  \/ FindInFunction \/ StoreFunctionData
  \/ EndFind \/ InstrumentFunction \/ EndPass
  \/ Search

Spec == PassInit /\ [][Next]_vars

\* The compiler runs.
FairSpec == Spec /\ WF_vars(Next)

-----------------------------------------------------------------------------
(* Properties.                                                             *)

Inserted == ToSet(callbacks)

\* Options under which an allocation is left out on purpose.
LeftOut(v) ==
  \/ Val(v).type.id = UnknownType
  \/ Val(v).kind = "alloca" /\ Fun(Val(v).fn).typeart
  \/ IF Val(v).kind = "global" THEN ~conf.global \/ FilteredGlobal(v)
     ELSE ~conf.stack \/ FilteredAlloca(v, functionMap[Val(v).fn].mallocs)

\* An allocation that reaches the target API gets its callback, whatever the
\* module looks like, unless the search gave something up on the way: a function
\* without calls, a temporary for an argument, a recursive call, a definition that
\* is not followed because of its name or the call graph, memory that a skipped
\* call returned, an argument passed twice, a call that is passed its own result, a
\* value returned to the callers.  A call whose argument could not be told is no
\* excuse: all parameters are followed.
ReachingInstrumented ==
  phase = "done" =>
    \A v \in OfKind(Values, "alloca") \cup OfKind(Values, "global") :
      \/ ~Reaches(v) \/ LeftOut(v)
      \/ \E c \in Inserted : c.ptr = v
      \/ v \in DOMAIN gaps /\ gaps[v] \ {"uncorrelated"} # {}

\* The functions of parallel regions.
OutlinedFunctions == {getMicrotask(c) : c \in {v \in Values : IsCall(v) /\ isOmpExecutor(Val(v).callee)}}

\* The chain of functions is that of the open activations, so that the search
\* knows in which function it is, and no function is entered again: recursive
\* calls are recognized, those of outlined functions excepted, which the chain has
\* under their own name and the calls under that of the fork.  A call whose argument
\* could not be told breaks it: the chain is popped once per argument, and pushed
\* once.
ChainMatchesCalls ==
  verdict = "open" =>
    /\ \A i \in DOMAIN chain :
         \/ chain[i] \in OutlinedFunctions
         \/ chain[i] # start /\ \A j \in DOMAIN chain : chain[j] = chain[i] => j = i
    /\ "uncorrelated" \notin cuts =>
         IF Top.args # <<>> THEN Len(chain) = Len(acts)
         ELSE /\ Len(chain) = Len(acts) - 1
              /\ chain # <<>> => Top.value \in ToSet(Fun(CurrentFunc).params)

BlockSize(c) ==
  LET ops == Val(c).ops IN
  CASE MemOp(c) = "calloc" -> Num(ops[1]) * Num(ops[2])
    [] MemOp(c) = "malloc" -> Num(ops[1])
    [] OTHER               -> Num(ops[2])

\* The element count is the block's bytes divided by the size of the type.
Divided(m) == MemOp(m.call) # "calloc" /\ (MemOp(m.call) = "malloc" => m.cookie = <<>>)

\* What new[] does: the number of elements is stored in front of them, and they end
\* where the block ends.
IsNewArray(m) ==
  LET k == m.cookie[1]
      array == Val(k.gep).address
  IN  /\ array.block = m.call
      /\ array.offset + Num(Stored(k.store)) * Val(k.cast).type.size = BlockSize(m.call)

\* The element count is what calloc was asked for.
CastCalloc(m) == MemOp(m.call) = "calloc" /\ m.primary # "none"

\* Where the region ends that a heap callback makes the runtime track.
RegionEnd(c) == Val(c.ptr).address.offset + c.count * TypeSizeIn(prog.layouts, c.id)

HeapReport(c) == c.name \in {"heap", "heap_omp"}

\* A heap callback describes its block: the elements the runtime tracks, by its own
\* size of the reported type and from the reported address on, lie inside the block,
\* and what is left over is less than an element; blocks with an array cookie
\* included.  Where collectHeap and instrumentHeap get it wrong is named.  The region
\* leaves the block for a divided count of long doubles that are not in an array, and
\* for a calloc of elements smaller than the type.  It is too short for a division by
\* the size of an array, whose elements are reported, and for a calloc of larger
\* elements.  Nothing is said of a malloc in which the program keeps another number in
\* front of an address it computes: it is taken for new[].
RegionsMatch ==
  \A i \in DOMAIN callbacks :
    LET c == callbacks[i]
        m == MallocData(c.op)
        element == TypeSizeIn(prog.layouts, c.id)
        length == BlockType(m).length
        asked == Num(Val(c.op).ops[2])
    IN  HeapReport(c) /\ (MemOp(c.op) = "malloc" /\ m.cookie # <<>> => IsNewArray(m)) =>
          /\ Val(c.ptr).address.block = c.op
          /\ \/ RegionEnd(c) <= BlockSize(c.op)
             \/ Divided(m) /\ c.id = X86_FP80 /\ length = 1
             \/ CastCalloc(m) /\ asked < element
          /\ \/ BlockSize(c.op) - RegionEnd(c) < element
             \/ Divided(m) /\ length > 1
             \/ CastCalloc(m) /\ asked > element

\* The address a block was reported with is the one its release is reported with.
\* A program that computes the argument of free from another pointer is the
\* exception: the GEP is taken for the way back from an array to its cookie.
FreesMatch ==
  \A c, d \in Inserted :
    /\ c.name \in {"heap", "heap_omp"} /\ d.name \in {"free", "free_omp"}
    /\ MemOp(d.op) = "free" /\ Val(d.ptr).address.block = c.op
    => (\/ Val(d.ptr).address = Val(c.ptr).address
        \/ Val(Val(d.op).ops[1]).kind = "gep" /\ MallocGeps(c.op) = {})

\* Every operation is instrumented once, in the function it is in: what was
\* collected for one function is not instrumented again with the next.
OncePerOperation ==
  \A i, j \in DOMAIN callbacks :
    i # j => callbacks[i].op # callbacks[j].op \/ callbacks[i].name # callbacks[j].name

\* The pass comes to an end; only the chain that a call of unknown argument broke
\* can take the search deeper and deeper.
PassEnds ==
  <>(phase \in {"done", "exit"} \/ (Len(acts) = MaxDepth /\ "uncorrelated" \in cuts))
=============================================================================
