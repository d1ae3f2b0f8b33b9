# TypeART in TLA+

TypeART instruments a program at compile time so that every relevant allocation
tells a runtime library its address, type and element count; MPI checkers then
ask the runtime which type lives at an address. This directory models the
compiler pass, the code it inserts and the runtime, checks them with TLC on
small instances, and proves the central facts with TLAPS for all instances.
Paths below are relative to the repository.

## 1. The system

| Component | State | Operations | Interacts with |
| --- | --- | --- | --- |
| Allocation tracker (`lib/runtime/AllocationTracking.*`) | pointer map, thread-local `stackVars` | `__typeart_alloc`, `_stack`, `_global`, `__typeart_free`, `__typeart_leave_scope`, the `_omp` variants | map, recorder |
| Pointer map (`AllocMapWrapper.h`) | ordered map, shared mutex `alloc_m` | `put`, `find`, `remove`, `remove_range` | tracker |
| Access recorder (`AccessCounter.h`) | atomic counters, a recorder per thread, a map per type, sets of addresses | `inc*`, `dec*`, `updateMax` | called by tracker and queries, read by the printer at exit |
| Type resolution (`TypeResolution.cpp`, `RuntimeInterface.h`) | none of its own | `typeart_get_type`, `_get_containing_type`, `_get_subtype`, `_resolve_type_addr` | map, type database |
| Runtime system (`Runtime.*`) | the singleton, thread-local `rtScope` | first use, `RTGuard`, teardown | owns all of the above |
| Type database (`lib/typelib`) | registered structs by id | `registerStruct`, sizes and kinds, load and store of the type file | runtime (read), pass (read and write) |
| Type generation (`lib/passes/typegen`) | name to id map, id counter | `getOrRegisterType` for structs and vectors | type database |
| Memory operation analysis (`lib/passes/analysis`) | lists of allocas, heap calls, frees, globals of a function | visit, filter | filters, instrumentation |
| Filters (`lib/passes/filter`) | search paths along def-use and call edges | decide whether an allocation can reach MPI | analysis |
| Instrumentation (`lib/passes/instrumentation`) | none at compile time; the code it inserts keeps a counter per activation | heap, free, stack, global callbacks; scope counters | tracker callbacks |
| Pass driver (`lib/passes/TypeARTPass.*`) | the type manager | load types, run on module, store types | all passes |
| MPI interceptor (`lib/mpi_interceptor`) | call counters | check of MPI buffers | query interface |

What is hard here:

* **Interleaving.** Threads issue callbacks at any time. The recorder is
  lock-free or locked in pieces, the map's mutex is held across callbacks into
  the recorder, and the record a free removed is used after the unlock.
* **Order of program and callback.** A callback is another instruction than the
  operation it reports: the C library can reuse a block before the free
  callback runs, a `realloc` can fail after it was reported as a free, and an
  exception can leave an activation between a stack callback and the increment
  of the counter that reports it.
* **Boundaries.** `leave_scope` with more variables than there are, addresses in
  padding, empty arrays, types without a size.
* **Processes.** Several compilers rewrite one type file, and one of them can die
  while it does.
* **Lifetime.** The runtime is built by the first callback, allocates itself, and
  is torn down by one thread while others go on.
* **Searches.** The filters must not lose a path to MPI, and must end.

`PROJECT.json` lists these as hazards, each at its line, with the properties
that would catch them.

What makes each component correct: the tracker's map describes the live
allocations and nothing else; the recorder's views agree with the map and with
each other; the map's operations appear atomic; every callback returns; a query
answers with the outermost type at the address or a documented status; the
inserted callbacks keep the map in step with heap and stack; type ids mean the
same type in every process; no filter discards an allocation that reaches MPI.

## 2. The modules

| Module | Models | Source |
| --- | --- | --- |
| `AllocMap` | the map as a value, `MapOp` as operators | `AllocMapWrapper.h`, `RuntimeData.h` |
| `AllocTable` | what the map promises: each operation one atomic step | `SharedMutexMap` |
| `AllocationTracker` | callbacks, locked map and recorder, interleaved | `AllocationTracking.cpp`, `AllocMapWrapper.h`, `AccessCounter.h` |
| `HeapProgram` | a correct threaded program with heap callbacks, on `AllocTable` | `MemOpInstrumentation.cpp` |
| `StackScopes` | activations, stack callbacks, scope counters, exceptions | `MemOpInstrumentation.cpp`, `TransformUtil.h` |
| `TypeDB` | ids, sizes, descriptions of structs, registration | `TypeDB.cpp`, `TypeDatabase.h` |
| `TypeResolution` | type queries against a database, on `TypeDB` | `TypeResolution.cpp` |
| `TypeGeneration` | compiler processes and the type file, on `TypeDB` | `typegen/*`, `TypeIO.cpp`, `TypeARTPass.cpp` |
| `AllocationFilter` | the search for a call of the target API | `filter/*`, `DefUseChain.h` |
| `InstrumentationPass` | collection, filtering and instrumentation of a module, on `AllocationFilter` and `TypeDB` | `analysis/*`, `MemOpArgCollector.cpp`, `MemOpInstrumentation.cpp`, `TypeARTPass.cpp` |
| `RuntimeLifetime` | construction, re-entrancy and destruction of the runtime, the MPI checks | `Runtime.*`, `AccessCountPrinter.h`, `mpi_interceptor/*` |
| `AllocationTrackerProofs` | theorems about map, tracker and recorder | |
| `HeapProgramProofs`, `StackScopesProofs`, `RuntimeLifetimeProofs`, `TypeResolutionProofs`, `TypeGenerationProofs`, `InstrumentationPassProofs` | theorems about the module they are named after | |
| `FiniteSums` | lemmas about sums over finite sets | |
| `MCAllocationTracker`, `MCHeapProgram`, `MCTypeResolution`, `MCTypeGeneration`, `MCInstrumentationPass` | instances for TLC | |

`AllocationTracker` implements `AllocTable`; `HeapProgram` extends `AllocTable`
and may therefore treat every callback's map operation as one step.
`StackScopes` relies on the same fact for `leave_scope`. `TypeGeneration` shows
what the type file contains that `TypeResolution` reads.

### AllocationTracker

`pc[t]` names the next step of the callback that thread `t` is in, `arg[t]` and
`ret[t]` its arguments and the answer of its map operation. A step is one atomic
operation, a group of independent increments, or one critical section. The
critical section of `remove_range` contains calls that take other locks, so it
is a sequence (`LeaveLock`, `RangeRemove`/`RangeSkip`, `RangeThread`,
`RangeType`, `RangeUnlock`) under `alloc_m`. `incHeapAlloc` is seven steps:
`++curHeapAllocs`, its reload, the load and the compare-exchange loop of
`updateMax`, then counters, thread recorder and type map.

Calls are unrestricted: any thread, any address, null included, any count, also
frees of what was never allocated and `leave_scope` of more than there is, as
the runtime's own tests do. The flags of `doAlloc` are modelled as the set it
returns, because the callers compare the whole word with `ADDR_SKIPPED`; that
comparison is always unequal, so null allocations are recorded, and pushed on
`stackVars`, like others. The model keeps this.

Left out: `UNKNOWN_ID` (only logged), debug addresses, the build without thread
safety and the one with `safe_ptr`, and `RTGuard`, whose effect here is that a
thread inside the runtime issues no callback (`RuntimeLifetime` has it).

### HeapProgram

`heap` is the C library's view, `table` the runtime's. `todo[t]` is the rest of
the instrumented operation: after `malloc` the allocation callback; after `free`
the free callback (`getNextNode`); for `realloc` the free callback first, then
the call, then the allocation callback. A program uses a pointer only after the
callback that follows the allocation, and frees a block once. `lost` is a
history variable: blocks whose entry a late free callback or a failing
`realloc` removed.

### StackScopes

An activation keeps the callbacks of the current block apart from the counter,
because `StackCounter` adds a block's number of callbacks at the block's end. A
scope is left at a return (which is a block end) and at the cleanup pad
`EscapeEnumerator` adds to plain calls (which is in the middle of a block).
Activations at the same depth reuse addresses. Calls made with `invoke` end
their block and catch. `throws` tells whether the program throws at all, so that
one run covers both kinds of execution.

### TypeResolution

The database is a function from struct ids to layouts, arbitrary within
`Databases`. An address is its offset from the allocation's base. One step per
round of `getTypeInfoInternal`'s loop. Division by a zero size is undefined and
modelled as both outcomes of real machines: a trap, or quotient 0 and the
dividend as remainder. The member addresses that the code computes along the
way influence no answer and are left out.

The reference for an answer is the layout itself: `PartsOf` gives, for a struct,
every type and offset at which a part of it starts, level by level
(`MemberParts`, members of members and so on). `LaidOut` says what LLVM's layout
and the order of registration give: members follow each other without overlap,
inside the struct, and a struct comes after the structs it contains.

### TypeGeneration

A compiler process loads the type file, asks for the types of its module one
after the other and stores the file. `getOrRegisterStruct` is a frame per
activation (`frames`) and a step per member; `db`, `map` and `count` are
`typeDB`, `structMap` and `structCount`. `code` are the ids that end up in the
object file, `objects` those of finished ones.

The file is the list of descriptions, and flags: `torn` while a stream is open or
after its writer died, `mixed` when two streams were open at once. What a reader
gets of a torn file is any prefix of the list, possibly with a last element whose
text is cut (`Cut`): `io::load` returns no error code for it. A literal struct is
named after its address, so its name in one process may be another literal's in
the next. `causes` records what disturbed a build. LLVM's types with their layout
are the constant `Desc`.

`objects` keeps with each id the names the process had for its literal structs,
since the type it stands for can be named only together with them.
`ContextAssumption` says what Clang's contexts guarantee and the code relies on:
a unit has a name for each literal struct it needs, and no struct has a part of
its own name, other than a direct member. A direct member of the same name (both
without a name) is taken for the struct that is being registered; one that is
nested deeper would be registered twice under one name.

### AllocationFilter and InstrumentationPass

A module of the program is a set of values with their operands, and of
functions: definitions with parameters, declarations, intrinsics, and what the
matchers, the oracle of library names and the OpenMP helpers say about their
names. Text of LLVM IR, names and regular expressions are abstracted to these
answers. `acts` is the stack of `DFSFuncFilter` activations, each with the path of
its `DFSfilter` (`path`, and per value on it the successors `left`) and the
definitions it has to follow (`defs`, `args`); `chain` is `fpath`, which the
activations share. The order of the users of a value is open: `Successor` picks
any. `cuts` records the places where the search gives up on purpose or by
accident, `gaps` keeps them per value:

| Cut | Not followed |
| --- | --- |
| `leaf` | a function that calls nothing |
| `temporary` | a variable that holds an argument of its function |
| `recursion` | a call of a function that is on the chain |
| `definition` | a call of a definition that is named like the target, or that the call graph answers for |
| `skipped` | memory that a skipped call returned and the value was stored to |
| `same argument` | an argument passed twice, but in its first position |
| `own result` | a call that is on the path already: its result is one of its arguments |
| `returned` | a returned value, to the callers |
| `uncorrelated` | nothing: all parameters are followed, but the chain is broken |

What a module is taken to be is `ValidModule` and `ValidOperations`: finitely many
values and functions, what uses and calls refer to exists and uses are of the
operands they say, stores have no result, variables belong to definitions, a call
has no more arguments than parameters, the fork is the OpenMP runtime's and the
target API apart from it, instructions have different places, a block starts at its
own address, the sizes a program asks for are numbers, and types occupy memory: as
much as the runtime takes for their id (`ValidType`).

`InstrumentationPass` drives it: globals first, then function after function
(`collect`, the filters on allocas, `StoreFunctionData`), then the callbacks.
Callbacks are records of the operation, the pointer, the id and the count; the
size in bytes of a block is known in the model, so that its callback can be
compared with it. A type has the bytes it takes in memory and, if it is scalar, the
width of its values: `TypeSize` divides the width by 8, as `getScalarSizeInBytes`
does, while the runtime goes by `BuiltinSizes` (`TypeSizeIn`); the two differ for
long double. The primary cast is the one `collectRelevantMallocUsers` meets first
(`FirstCast`): it walks the uses of the block, latest first, and at a store of the
block those of what is loaded again. `exit` is `handleArrayCookie`'s end of the
compiler.

Three details of the code that the model keeps: `hasBodyMap[target]` looks up a
pattern, so the call graph answers `never_reaches` only for functions that call
nothing; the name compared with in `allocaReachesTask` ends in a parenthesis and
is no function's; DFSfilter treats the status `Filter` like `Continue`.

### RuntimeLifetime

`calls[t]` are the calls of the runtime a thread is in, innermost last, each with
the flag its `RTGuard` saved. The runtime's own code makes calls too: wherever it
allocates, a callback may come from inside (`NestedCall`). `instance` is the
function-local static: a second thread waits while it is constructed. The
constructor loads the type file or ends the process. A callback is reduced to
two counters, updated one after the other, that the report of the destructor
reads in the order `serialize` prints them. `mpi[t]` are the buffers the MPI
wrapper of thread `t` has yet to check.

## 3. The runs

| Run | Instance | Shows |
| --- | --- | --- |
| `HeapCallbacks` | 2 threads, 1 address, 2 types, heap and free | `HeapBalance`, `MaxCoversCur`, `MaxNeverDecreases`, `TypeBalance`, `ViewsAgree` |
| `SequentialCallbacks` | 1 thread, 2 addresses and null, every callback, plain and `_omp`, counts 0 and 2 | `TypeOK`, `TableBalance` |
| `ScopeCallbacks` | 2 threads, 2 addresses, stack, free, query, leave, 3 calls each | `TableRefinement`, `TableBalance`, `StackBalance` |
| `CallbackProgress` | 2 threads, 1 address, stack, leave and heap, 2 calls each, with fairness | `CallsReturn` |
| `HeapThreads` | 3 threads, 2 addresses, 2 types, 3 operations each, `realloc` may fail | `NoForeignEntry`, `NoStaleEntry`, `OnlyKnownLosses`, `TypeOK` |
| `ScopesReturn` | depth 3, 2 variables, 3 registrations of an activation, 2 calls, with and without exceptions | `LiveVarsTracked`, `ReturnsUntrack`, `CountersMatchStack`, `ScopeTypeOK` |
| `ScopesThrowLeak` | depth 2, exceptions | **violates** `DeadVarsUntracked` |
| `TypeQueries` | some 900 databases, every address and one byte beyond | `ResolvesOutermost`, `OffsetInStruct`, `DocumentedStatus`, `QueriesEnd`, `TypeOK` |
| `UnknownMemberType` | one struct with a member of unknown type | **violates** `DocumentedStatus` |
| `TypeFile` | 2 processes, 7 translation units, 15 types, 1 crash | `NamesResolve`, `ObjectIdsResolve`, `StoredTypesSized`, `CompilationsEnd`, `TypeOK` |
| `InstrumentationPass` | 17 modules with 8 option sets, a family of 441 two-function modules with 2 | `ReachingInstrumented`, `ChainMatchesCalls`, `RegionsMatch`, `FreesMatch`, `OncePerOperation`, `PassEnds` |
| `RuntimeLifetime` | 2 threads, 2 calls each, nesting 2, every buffer kind | `ScopeRestored`, `ExitingThreadStaysOut`, `ChecksBalance`, `ReportCovers`, `CallsEnd` |

Why the bounds are enough for the cases that matter:

* Two threads on one address produce every race of the tracker, since each
  race is between two callbacks on one entry, one counter or one lock; the
  second address of `ScopeCallbacks` lets a scope be half removed. Three calls
  per thread allow allocate, allocate, leave. For the counters the theorems
  cover any number of threads and calls.
* `HeapThreads` needs three threads so that an address can be freed, reused and
  reused again with callbacks outstanding.
* Depth 3 with slots reused per depth gives an activation both a caller and a
  callee, and a successor at its addresses; two variables distinguish a block
  that registers one from a block that registers both.
* The databases of `TypeQueries` nest every inner layout of one or two `int16`
  pairs in every outer layout of one or two members, which are bytes or inner
  structs in arrays of length 0 to 2, with or without a byte of padding in each
  position; a further family nests three levels with wider padding.
* Two processes suffice for every overlap of load and store, and for a second
  compilation that starts from the first one's file. The units contain a struct
  that contains another and a vector, two definitions of one name, two literals
  whose address is the same, a struct without a name in another one, vectors with
  padding and of unknown elements.
* The modules of `InstrumentationPass` are one per way a value can travel: direct
  call, chain of calls, recursion, mutual recursion, OpenMP region, memory, an
  argument passed twice, an argument that cannot be told, a result that is handed
  back, each way to lose a value (`Losses`), unknown callees, each
  kind of heap allocation with scalars, structs, arrays and long doubles, each form
  of `new[]`, a number in front of an array that is not `new[]`'s, and a `calloc`
  with its arguments exchanged. The family has all pairs of
  functions of two parameters with two calls each, of each other, themselves or
  `MPI_Send`, with the arguments as they are or exchanged. `MaxDepth` exceeds the
  length of every chain of different functions, so only a broken one gets there.
* Two threads are one that constructs or destroys the runtime and one that is in
  its way; nesting 2 puts a callback inside each step of a call.

Mutants in the modules (marked as such, used by no specification) are plausible
slips in the code, one for each property of each passing run; each is caught by
the property it is listed with.

### Fairness

Used by the liveness properties only. Weak fairness of a thread inside
the runtime: the scheduler runs it. Strong fairness of the four steps that take
the map's mutex: `std::shared_mutex` promises no order, but does not starve a
thread forever while others repeatedly release it on the platforms TypeART
supports; with plain weak fairness a thread may be overtaken without end. Strong
fairness of the compare-exchange: `compare_exchange_weak` may fail spuriously,
but not each time it could succeed. Nothing is assumed about the program: it
need not call again. In `TypeGeneration` and `InstrumentationPass` weak fairness
says that the operating system runs a compiler that has been started; in
`RuntimeLifetime` that threads inside the runtime or a wrapper are scheduled.

## 4. What is proved

Assumptions on constants are the named `ASSUME`s of the modules: addresses are
positive and bounded, type ids are finitely many naturals and counts naturals,
sentinels differ from real values, `Threads` is finite, a program has at least one
level of activations, types are described as LLVM describes them
(`TypesAssumption`, `ContextAssumption`), a module is one (`ProgramAssumption`).
Everything else, the number of threads, addresses, blocks, types, calls and
levels of nesting, is arbitrary.

Each theorem about a property rests on an inductive invariant, because the
properties speak of moments when nothing is under way, and a step between two
such moments needs to know what is.

### Map, tracker and recorder

* **`MapFindIsFloor`** (`AllocationTrackerProofs`). `MapOp::find` works by `lower_bound`
  and a step back; it returns the greatest key not above the address, for every
  map. Existence of least and greatest keys comes from well-foundedness of `<`.
* **`TypeCorrect`** (`AllocationTrackerProofs`): `Spec => []TypeOK` for any
  number of threads, addresses, types. `TypeOK` is not inductive: a thread about
  to count a removed record must hold one. `TypeInv` adds `ControlOK`, what
  arguments, answer and loop index are at each label (`Fits`). One lemma per
  callback, one step per action.
* **`MapImplementsTable`** (`AllocationTrackerProofs`): `Spec => TableRefinement`, the
  tracker implements `AllocTable`. The abstract table is the map without the
  entries that a running `remove_range` has yet to remove (`Condemned`), so that
  the whole range disappears in the step that takes the mutex. `TableInv` adds to
  `TypeInv` that a thread inside `remove_range` holds the mutex (`LockOwner`):
  at most one range is half removed, and no other operation sees it. Each action
  is shown to be one abstract operation or a stutter. This is what entitles
  `HeapProgram` and `StackScopes` to use one step per map operation.
* **`HeapBalanced`** (`AllocationTrackerProofs`): `Spec => []HeapBalance`. The
  balance of the three heap counters is stated for every state by counting the
  threads in flight (`HeapFlow`): those that have counted in `curHeapAllocs` and
  not yet in `heapAllocs`, and those that have counted in `heapAllocsFree` and not
  yet in `curHeapAllocs`. Each action moves one thread into or out of one of
  these sets or moves none (`Quiet`).
* **`MaxCovers`, `MaxMonotone`**: the maximum is not below the current value
  when all callbacks are done, and never decreases. `MaxFlow`: a maximum that is
  too small has a thread in `updateMax` that will raise it, and the value a
  thread compares with is never above the maximum.
* **`StackBalanced`**: the counters of a thread agree with its `stackVars`
  outside of callbacks. `StackFlow` says by how much they differ at each label of
  `__typeart_alloc_stack` and `__typeart_leave_scope`: by the entry that was pushed
  and not counted, by the part of the range that the loop has gone through, by
  the entries that were erased and not subtracted. A request for more variables
  than there are, and variables that are no longer in the map, are covered.
* **`TableBalanced`, `AllViewsAgree`, `TypesBalanced`**: what the recorder has
  counted is what is in the map, its three views have counted the same, and the
  figures per type are those of the entries. `TableFlow` states the first for every
  moment: the entries in the map, and what callbacks in flight have removed and not
  counted, are what was counted and what callbacks in flight have inserted and not
  counted. `ViewFlow` says that a global counter is ahead of its repetition per
  thread and per type by the threads that still owe it, and `TypeFlow` does the
  same for the allocations and frees of one type. Sums over threads and types are
  folds over finite sets: `FiniteSums` shows that a sum changes by what one
  element changes, and that cardinalities of the threads in flight follow. Its
  induction is over the smallest subset for which a claim fails (`SmallestSet`).

### The instrumented program

* **`EntriesAreRight`, `EntriesAreRemoved`, `LossesAreKnown`, `HeapTypeCorrect`**
  (`HeapProgramProofs`): the three safety properties of the heap callbacks. They
  are inductive together and with two facts about what threads still owe
  (`HeapInv`): an allocation callback that is due describes the block that is
  there now, and one thread at a time owns an address on the way in
  (`OneOwner`). Late free callbacks are not restricted; that is why the third
  property needs `lost`.
* **`LiveVarsAreTracked`, `ReturnsLeaveNothing`, `ScopesTypeCorrect`**
  (`StackScopesProofs`): live variables stay tracked through any exceptions, and
  a program without exceptions leaves nothing behind. The counters say how many
  entries to remove, the map which variables; the invariant connects the two by
  dividing `stackVars` into one segment per activation (`Bases`). A segment has
  at least the entries its activation accounts for, all entries above its start
  belong to this depth or a deeper one, and without exceptions the segment has
  exactly those entries and among them every live variable. `leave_scope` then
  removes nothing from below the start of the segment, which is what saves the
  outer variables from entries that an exception left on top.
* **`CountersAccount`**: `stackVars` has at least the entries that the counters of
  all activations account for, and exactly those if no exception was thrown. The
  sum over activations telescopes over the segments (`SumTelescopes`).
* **`ScopeIsRestored`, `ExitingThreadIsOut`** (`RuntimeLifetimeProofs`): `rtScope`
  is clear outside of the runtime, but in the thread that destroyed it, and that
  thread never reaches the destroyed object from an allocation or a free.
  `LifeInv` says for the `i`-th call of a thread what its guard found: `rtScope`
  set exactly if the call is nested or the thread has destroyed the runtime
  (`FrameOK`). With it constructor and destructor run in outermost calls only,
  and one call at most constructs (`OneBuilder`).
* **`ReportIsCovered`**: `heapAllocs` is ahead of `heapAlloc` by the threads
  between their two increments (`FiguresOK`), so the two figures that the report
  reads at different times differ by fewer than there are threads.
* **`ChecksBalanced`**: every buffer counted by the interceptor is in one of the
  four outcomes or still being checked. An action moves one thread into or out of
  the set of those that are checking and advances one figure (`ChecksMoved`).

### Type queries

* **`StatusDocumented`, `OffsetStaysInStruct`** (`TypeResolutionProofs`): for
  every database in which each type is known and occupies memory
  (`KnownTypesOnly`), with any nesting, a query performs only defined divisions
  and returns a status its documentation lists, and the assertion of
  `getTypeInfoInternal` holds in each round. The invariant `StepInv` says what
  every step of a query relies on; `MemberFound` shows that the member search
  ends at a member that does not start above the offset, although it never
  compares the offset with that member. `UnknownMemberType` shows the assumption
  is needed.
* **`QueriesTypeCorrect`**: under the same assumption answers are ids, counts and
  offsets. That a count is never negative is the content: it is a length minus a
  quotient (`QuotientBelow`), and an address behind the last element must have
  been refused before. No query is counted as missing twice (`MissingCounted`).
* **`OutermostFound`**: the answer is the outermost type that starts at the address,
  with the elements that are left, and padding and the inside of an atomic type are
  refused, if in addition structs are laid out as `LaidOut` says (TLC checks that
  those of `TypeQueries` are). In each round the loop's struct, offset and level
  decide the query as a whole (`Decides`): every part of a struct lies inside of it
  (`PartsInside`), so of its members only the one the search stops at can have a
  part at the offset (`OnlyMember`), and of its elements only the one the division
  gives (`PartDivided`).

### Type generation

All in `TypeGenerationProofs`, for any processes, units and types.

* **`TypeCorrect`**: `Spec => []TypeOK`. Its invariant `TypeInv` says of each
  process that it works in the context of a unit: every open activation is of a
  struct the unit needs, and has a member left if another is open inside of it.
* **`NamesLead`**: `Spec => []NamesResolve`. `SoundInv` holds as long as no
  process has read half a file: the file's ids and names are distinct and its ids
  are those below its length, and in each process (`Sound`) `structMap` is the
  database read by name, `structCount` counts the database and the open
  activations, and their ids and names are not taken. The last part is what needs
  the invariant: an activation has reserved its id before its members register
  theirs, so the database has gaps until it ends. That no nested registration
  takes the name of an open one comes from `Meets`, one activation being inside of
  the other, and `ContextAssumption`.
* **`ObjectsResolve`**: `Spec => []ObjectIdsResolve`. `TraceInv` says where every
  description comes from: each one in the file `Describes` a part of a type that a
  finished object asked for, each one in a running process a part of those or of
  its own types, members included, whose ids are described in turn. In a serial
  build the file only grows, so what held for an object file goes on to hold; two
  descriptions of one name are of one type unless `SameName`. That registration
  ends is not needed: an id gets into an object file after it has.
* **`StoredSized`**: `Spec => []StoredTypesSized`, if types occupy memory
  (`SizedTypes`; TLC checks that those of `TypeFile` do). Overlaps, dead
  processes and lost writes do not break it, because the weaker half of
  `TraceInv` needs no history of the build. It is the link to the type queries:
  what `TypeResolution` assumes of its database is what the pass stores, up to
  members of unknown type.

### The pass

All in `InstrumentationPassProofs`, for any modules, options and depth of the search.

* **`ChainFollowsCalls`**: no function is entered again by the search, those of
  parallel regions excepted, and unless the argument of a call could not be told
  the chain has one function per open activation. `SearchInv` says it for every
  activation on the stack, not only for the innermost (`Entered`): each is the
  search for a parameter of the function the chain has for it, and only the
  innermost can have an argument to follow left.
* **`InstrumentedOnce`**: no operation gets the same callback twice. `PassInv`
  follows an operation through the lists: what is in the queue, in the lists of the
  function at hand, in those of finished functions and among the callbacks belongs
  to different functions (`FunctionsApart`) or is listed once (`Apart`), because
  the lists are cleared in between; an intrinsic starts the lifetime of one alloca
  (`LifetimesApart`).
* **`RegionsDescribeBlocks`**: what a heap callback makes the runtime track, by the
  runtime's own size of the type, lies inside the block and fills it but for less
  than one element, array cookies included. What `RegionsMatch` excepts: long doubles
  that are not in an array, for which the divisor is too small, and a `calloc` whose
  second argument is less than an element, may end behind the block; a division by
  the size of an array, and a `calloc` whose second argument is more than an element,
  may leave room. For a `malloc` with an array cookie the number in front of the array
  is taken to be that of `new[]` (`IsNewArray`); a program that keeps another number
  there is taken for `new[]` by the pass. The invariant remembers which block a
  callback comes from, and that it made no `CookieError` (`MallocsOf`, `CallbacksInv`);
  `BlockShape` says what the block is taken for, `SizeFacts` relates the divisor to the
  runtime's size, type by type, and the arithmetic is `DividedRegion`.
* **`NothingLost`**: `Spec => []ReachingInstrumented`. The search keeps no set of
  visited values: a value is on the path, or was and is forgotten. `SearchCovers`
  therefore says that there is a set that `Covers` the search: every use of a value
  in it was looked at (`Done`), or is among the successors that an activation on
  the stack has left (`Open`), and what a use flows to is in the set or waits to be
  searched from (`Waits`): an argument of an open call, the parameters of a
  definition on the list, the value of an activation that has not begun. Each step
  replaces one activation (`Advances`) and may enlarge the set (`CoversStep`). When
  no activation is left nothing is open and nothing waits, so the set is closed
  under `FlowsTo`, everything that can be reached is in it (`ReachedFrom`), and no
  use of it is the target's (`NothingReached`). Nothing is assumed of the order of
  uses. `GlobalsFound` and `AllocasFound` follow what the search does not discard
  through queue, lists and `functionMap` to the callbacks.
  The proof attempts found cuts that the instances had not: a definition named
  like the target, a skipped call whose result was stored to, and a call passed its
  own result are in `Losses` now (TLC finds a lost variable for each cut that
  `ReachingInstrumented` would not excuse); and that a call whose argument could not be told
  loses nothing, so that `uncorrelated` is no excuse.

### Only model-checked

* `FreesMatch`: it depends on what the source program passes to `free`, and the
  hypothesis a theorem would need about it is nearly the conclusion.
* Liveness under fairness: `CallsReturn`, `QueriesEnd`, `CompilationsEnd`,
  `PassEnds`, `CallsEnd`.

## 5. Findings

1. **Late free callback** (`HeapThreads`). `free` is instrumented after the
   call. Another thread may be given the block and register it before the
   callback runs, which then removes the new entry.
2. **Failed `realloc`** (`HeapThreads`). The old block is reported as freed
   before the call; when the call fails it stays allocated but untracked.
   `OnlyKnownLosses` shows that 1 and 2 are the only ways to lose a live block.
3. **Exception in the middle of a block** (`ScopesThrowLeak`). The scope is left
   with a counter that does not include the current block; its variables stay in
   the map. `LiveVarsTracked` shows that the leftovers never make a later
   `leave_scope` remove a live variable.
4. **Members of unknown type** (`UnknownMemberType`). Their size is 0, and
   the resolution divides by it.
5. **Long double** (`InstrumentationPass`). The pass divides the bytes of a block by
   the 10 bytes of the values, an element takes 16 in memory and in the runtime: the
   region that is tracked ends behind the block; `RegionsMatch` has to except it, and
   without the exception TLC finds the module `LongDouble`. Arrays of two and more
   long doubles stay inside, which `RegionsDescribeBlocks` proves.
6. **Exchanged arguments of `calloc`** (`InstrumentationPass`). The first argument is
   the element count of a cast block whatever the second is: also an exception of
   `RegionsMatch`, which the module `Exchanged` needs.
7. **Shortcuts of the call filter** (`InstrumentationPass`). A recursive call is
   not followed with the argument it passes, and an allocation that reaches MPI
   that way is filtered, against the README's "provably never". The same holds
   for an argument passed twice (only its first position is followed), for a
   function without calls that stores its argument in a global, for a value that
   is returned to other callers than the one searched (a global behind a getter:
   `Returned`), for a variable that holds an argument and whose own address is
   sent, for a definition that is named like the target but is not passed a void
   pointer, for memory that a skipped call such as `malloc` returned and the value
   was stored to, for a call that is passed its own result, and for functions the
   call graph calls `maybe_reaches`. `NothingLost` proves there is no other way.

Observations that need no run: `status != AllocState::ADDR_SKIPPED` is always
true (`AllocationTracking.cpp:113`); `maxHeapAllocs` may miss a peak, because
`updateMax` offers a value reloaded after the increment; the `INVALID_ID` at the
end of `getTypeInfo` and the `WRONG_KIND` inside the loop cannot be reached;
`fpath` is popped once per argument but pushed once per definition, so a call
whose argument is unknown breaks the chain (the exception in `ChainMatchesCalls`);
a heap block cast to an array type is reported with the element's id and the
number of arrays (an exception in `RegionsMatch`); with the chain broken the search
can go round in circles (`Endless`, the exception in `PassEnds`); parallel builds that share a type file lose
types (the condition of `ObjectIdsResolve`); the comment at `Runtime.cpp:123`
says `rtScope` is initially true, the definition below it says false.

## 6. Not modelled

* `lib/passes/compat/CallSite.h` (vendored from LLVM), `lib/support` (logging,
  tables, process introspection) and `lib/mpi_interceptor/wrap.py` (third-party):
  no state of TypeART.
* `printStats`, statistics counters, debug output, and the formatting of the
  access report.
* `typeart_get_source_location` (an external symbolizer) and
  `typeart_get_return_address` (one field).
* The text of the type file and of the call graph's JSON beyond complete and cut
  off; the matching of function names.
* Definitions with variable arguments in the filter: `findArg` reads past the
  parameters there, which is undefined.
* Building the LLVM IR of the callbacks; where they are put is in `HeapProgram`
  and `StackScopes`, what they say in `InstrumentationPass`.
* The end of the compiler when `-typeart-call-filter-impl=cg` comes without a file
  (`MemInstFinder.cpp:90`).
* `findAllocaForValue` beyond one cast: LLVM also looks through GEPs, phis and selects
  for the alloca of a `lifetime.start`.
* More than four casts of one block: the code takes the first of an LLVM set, which
  keeps the order of insertion up to four.
* Types of 4 GiB and more, whose size overflows `unsigned`, and of no size, by which
  the inserted code would divide.
* What a build does after a compiler read half a type file: the properties of
  `TypeGeneration` are stated up to there.
* Builds without thread safety or with `safe_ptr`; CMake, scripts and wrappers.

## 7. State

Modelled: tracker, map, recorder, heap and stack instrumentation, type resolution,
type file and type generation, filters, analysis and argument collection, runtime
lifetime, MPI interceptor. Proved: the safety properties of tracker and recorder,
the refinement of `AllocTable`, those of heap program, scopes, queries, type file and
runtime lifetime, the interceptor's figures, and of the pass the chain, the single
instrumentation, the tracked regions and that nothing that reaches MPI is lost.
Left: `FreesMatch` as a theorem.
