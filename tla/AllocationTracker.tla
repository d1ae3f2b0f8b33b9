-------------------------- MODULE AllocationTracker --------------------------
(***************************************************************************)
(* The callbacks of the TypeART runtime (lib/runtime/AllocationTracking.cpp)*)
(* with the locked pointer map (AllocMapWrapper.h) and the access recorder *)
(* (AccessCounter.h), at the granularity at which threads interleave: one  *)
(* step per atomic counter operation or group of independent ones, and one *)
(* step per critical section that contains no other synchronisation.  The  *)
(* only critical section that does contain some, remove_range under the    *)
(* map's mutex, is a sequence of steps bracketed by alloc_m.               *)
(*                                                                         *)
(* Any thread may issue any callback with any argument at any time, as the *)
(* runtime's tests do: nothing below assumes a well-behaved program.       *)
(***************************************************************************)
EXTENDS AllocMap, Sequences, FiniteSets, Functions

CONSTANTS
  Threads,    \* threads of the instrumented program
  QueryAddrs, \* addresses a client may ask about, interior ones included
  NoAnswer,   \* "no map operation of the current call has completed yet"
  NoThread,   \* "nobody holds the map's mutex exclusively"
  Ops,        \* the callbacks the program uses
  OmpModes,   \* which of the plain (FALSE) and _omp (TRUE) callbacks it uses
  MaxLeave,   \* bound: largest alloca_count passed to leave_scope
  MaxCalls    \* bound: number of callbacks a thread issues

AllocOps == {"heap", "stack", "global"}
AllOps   == AllocOps \cup {"free", "leave", "query"}

ASSUME ThreadsAssumption    == IsFiniteSet(Threads) /\ NoThread \notin Threads
ASSUME QueryAddrsAssumption == QueryAddrs \subseteq Nat
ASSUME OpsAssumption        == Ops \subseteq AllOps /\ OmpModes \subseteq BOOLEAN
ASSUME BoundsAssumption     == MaxLeave \in Nat /\ MaxCalls \in Nat

\* AtomicCounter members of AccessRecorder.
Counters == {"heapAllocs", "heapArray", "curHeapAllocs", "maxHeapAllocs",
             "heapAllocsFree", "heapArrayFree", "globalAllocs", "globalArray",
             "addrReuses", "addrChecked", "nullAlloc", "zeroAlloc",
             "nullAndZeroAlloc", "omp_stack", "omp_heap", "omp_heap_free"}

\* Members of a ThreadRecorder.
ThreadCounters == {"heapAllocs", "heapArray", "heapAllocsFree", "heapArrayFree",
                   "stackAllocs", "curStackAllocs", "maxStackAllocs",
                   "stackArray", "stackAllocsFree", "stackArrayFree"}

\* The per-type maps of AccessRecorder.
TypeMaps == {"heapAlloc", "stackAlloc", "globalAlloc", "heapFree", "stackFree"}

\* A callback and its arguments.  count and typeId of an allocation are in info.
Call(op, addr, info, n, omp) ==
  [op |-> op, addr |-> addr, info |-> info, n |-> n, omp |-> omp]

NoCall == Call("none", Null, NoEntry, 0, FALSE)

AllocCalls == [op : AllocOps, addr : Addrs \cup {Null}, info : PointerInfo, n : {0}, omp : BOOLEAN]
FreeCalls  == [op : {"free"}, addr : Addrs \cup {Null}, info : {NoEntry}, n : {0}, omp : BOOLEAN]
LeaveCalls == [op : {"leave"}, addr : {Null}, info : {NoEntry}, n : 0..MaxLeave, omp : BOOLEAN]
QueryCalls == [op : {"query"}, addr : QueryAddrs, info : {NoEntry}, n : {0}, omp : {FALSE}]
AllCalls   == AllocCalls \cup FreeCalls \cup LeaveCalls \cup QueryCalls

\* The steps of a callback by the callbacks that take them.
HeapLabels  == {"heapCur", "heapLoad", "maxLoad", "cas", "heapCount", "heapThread", "heapType"}
StackLabels == {"push", "stackThread", "stackType"}
AllocLabels == {"doAlloc", "put", "reuse", "global", "globalType"} \cup HeapLabels \cup StackLabels
FreeLabels  == {"doFree", "freeCount", "freeThread", "freeType", "decHeap"}
LockLabels  == {"range", "rangeThread", "rangeType"}
LeaveLabels == {"leave", "erase", "decStack"} \cup LockLabels
QueryLabels == {"find", "used"}
Labels == {"idle", "omp", "return"} \cup AllocLabels \cup FreeLabels \cup LeaveLabels \cup QueryLabels

VARIABLES
  wrapper,    \* AllocationTracker::wrapper, the pointer map
  alloc_m,    \* exclusive holder of SharedMutexMap::alloc_m
  stackVars,  \* threadData.stackVars (thread local)
  cnt,        \* counters of the AccessRecorder
  thr,        \* thr[t]: the ThreadRecorder of t
  byType,     \* heapAlloc, stackAlloc, ... of the AccessRecorder
  seen,       \* AccessRecorder::seen
  pc,         \* pc[t]: the next step of t's current callback
  arg,        \* arg[t]: its arguments
  ret,        \* ret[t]: what its map operation returned
  newVal,     \* newVal[t], prevMax[t]: locals of updateMax
  prevMax,
  pos,        \* pos[t]: index of remove_range's loop
  calls       \* calls[t]: number of callbacks t has issued

mapVars   == <<wrapper, alloc_m>>
recVars   == <<cnt, thr, byType, seen>>
localVars == <<newVal, prevMax, pos>>
vars == <<wrapper, alloc_m, stackVars, cnt, thr, byType, seen,
          pc, arg, ret, newVal, prevMax, pos, calls>>

Init ==
  /\ wrapper = [a \in Addrs |-> NoEntry]
  /\ alloc_m = NoThread
  /\ stackVars = [t \in Threads |-> <<>>]
  /\ cnt = [k \in Counters |-> 0]
  /\ thr = [t \in Threads |-> [k \in ThreadCounters |-> 0]]
  /\ byType = [k \in TypeMaps |-> [id \in TypeIds |-> 0]]
  /\ seen = {}
  /\ pc = [t \in Threads |-> "idle"]
  /\ arg = [t \in Threads |-> NoCall]
  /\ ret = [t \in Threads |-> NoAnswer]
  /\ newVal = [t \in Threads |-> 0]
  /\ prevMax = [t \in Threads |-> 0]
  /\ pos = [t \in Threads |-> 0]
  /\ calls = [t \in Threads |-> 0]

-----------------------------------------------------------------------------
(* Steps shared by the callbacks.                                          *)

Step(t, from, to) == pc[t] = from /\ pc' = [pc EXCEPT ![t] = to]

\* ++c for every recorder counter c in S.
CountStep(t, from, to, S) ==
  /\ Step(t, from, to)
  /\ cnt' = [k \in Counters |-> IF k \in S THEN cnt[k] + 1 ELSE cnt[k]]
  /\ UNCHANGED <<mapVars, stackVars, thr, byType, seen, arg, ret, localVars, calls>>

\* ++c for the counters S of t's ThreadRecorder, under threadRecorderMutex.
ThreadStep(t, from, to, S) ==
  /\ Step(t, from, to)
  /\ thr' = [thr EXCEPT ![t] =
       [k \in ThreadCounters |-> IF k \in S THEN thr[t][k] + 1 ELSE thr[t][k]]]
  /\ UNCHANGED <<mapVars, stackVars, cnt, byType, seen, arg, ret, localVars, calls>>

\* ++m[id] for one of the per-type maps, under the map's own mutex.
TypeStep(t, from, to, m, id) ==
  /\ Step(t, from, to)
  /\ byType' = [byType EXCEPT ![m] = [byType[m] EXCEPT ![id] = byType[m][id] + 1]]
  /\ UNCHANGED <<mapVars, stackVars, cnt, thr, seen, arg, ret, localVars, calls>>

\* The counters S, and A too when the allocation has several elements.
WithArray(info, S, A) == IF info.count > 1 THEN S \cup A ELSE S

\* The _omp callbacks count themselves after the plain work; leave_scope_omp
\* has no counter of its own.
After(call) == IF call.omp /\ call.op \in {"heap", "stack", "free"} THEN "omp" ELSE "return"

\* The flags doAlloc returns (UNKNOWN_ID, which only logs, left out).
DoAllocStatus(call, overridden) ==
  LET skipped == {"NO_INIT", "ADDR_SKIPPED"} IN
  IF call.addr = Null
  THEN IF call.info.count = 0 THEN skipped \cup {"ZERO_COUNT", "NULL_ZERO"}
                              ELSE skipped \cup {"NULL_PTR"}
  ELSE {"NO_INIT", "OK"} \cup (IF call.info.count = 0 THEN {"ZERO_COUNT"} ELSE {})
                         \cup (IF overridden THEN {"ADDR_REUSE"} ELSE {})

\* onAlloc, onAllocStack and onAllocGlobal after doAlloc: the test `status !=
\* AllocState::ADDR_SKIPPED` compares the whole flag word, not one bit of it.
AfterDoAlloc(call, overridden) ==
  IF DoAllocStatus(call, overridden) # {"ADDR_SKIPPED"}
  THEN CASE call.op = "heap"   -> "heapCur"
         [] call.op = "stack"  -> "push"
         [] call.op = "global" -> "global"
  ELSE After(call)

-----------------------------------------------------------------------------
(* Entering and leaving a callback.                                        *)

\* The program calls into the runtime from outside of it (RTGuard admits it).
Enter(t, call, label) ==
  /\ calls[t] < MaxCalls
  /\ call.op \in Ops
  /\ Step(t, "idle", label)
  /\ arg' = [arg EXCEPT ![t] = call]
  /\ calls' = [calls EXCEPT ![t] = calls[t] + 1]
  /\ UNCHANGED <<mapVars, stackVars, recVars, ret, localVars>>

CallAlloc(t) ==
  \E op \in AllocOps, a \in Addrs \cup {Null}, info \in PointerInfo, omp \in OmpModes :
    \* There is no _omp callback for globals.
    /\ op = "global" => ~omp
    /\ Enter(t, Call(op, a, info, 0, omp), "doAlloc")

CallFree(t) ==
  \E a \in Addrs \cup {Null}, omp \in OmpModes :
    Enter(t, Call("free", a, NoEntry, 0, omp), "doFree")

CallLeaveScope(t) ==
  \E n \in 0..MaxLeave, omp \in OmpModes :
    Enter(t, Call("leave", Null, NoEntry, n, omp), "leave")

CallQuery(t) ==
  \E a \in QueryAddrs : Enter(t, Call("query", a, NoEntry, 0, FALSE), "find")

OmpCounter == [heap |-> "omp_heap", stack |-> "omp_stack", free |-> "omp_heap_free"]

OmpCount(t) == CountStep(t, "omp", "return", {OmpCounter[arg[t].op]})

Return(t) ==
  /\ Step(t, "return", "idle")
  /\ arg' = [arg EXCEPT ![t] = NoCall]
  /\ ret' = [ret EXCEPT ![t] = NoAnswer]
  /\ newVal' = [newVal EXCEPT ![t] = 0]
  /\ prevMax' = [prevMax EXCEPT ![t] = 0]
  /\ pos' = [pos EXCEPT ![t] = 0]
  /\ UNCHANGED <<mapVars, stackVars, recVars, calls>>

-----------------------------------------------------------------------------
(* Allocation: doAlloc, then the bookkeeping of the allocation's kind.     *)

DoAlloc(t) ==
  LET call == arg[t] IN
  CountStep(t, "doAlloc",
    IF call.addr = Null THEN AfterDoAlloc(call, FALSE) ELSE "put",
    IF call.info.count = 0
    THEN {"zeroAlloc"} \cup (IF call.addr = Null THEN {"nullAndZeroAlloc"} ELSE {})
    ELSE IF call.addr = Null THEN {"nullAlloc"} ELSE {})

WrapperPut(t) ==
  LET call == arg[t]
      overridden == MapOverrides(wrapper, call.addr) IN
  /\ alloc_m = NoThread
  /\ Step(t, "put", IF overridden THEN "reuse" ELSE AfterDoAlloc(call, FALSE))
  /\ wrapper' = MapPut(wrapper, call.addr, call.info)
  /\ ret' = [ret EXCEPT ![t] = [op |-> "put", overridden |-> overridden]]
  /\ UNCHANGED <<alloc_m, stackVars, recVars, arg, localVars, calls>>

\* Mutant: an overwritten entry is not counted.
AddrReuseUncounted(t) == CountStep(t, "reuse", AfterDoAlloc(arg[t], TRUE), {})

AddrReuse(t) == CountStep(t, "reuse", AfterDoAlloc(arg[t], TRUE), {"addrReuses"})

\* incHeapAlloc: ++curHeapAllocs, then updateMax with a value loaded afterwards.
HeapCur(t) == CountStep(t, "heapCur", "heapLoad", {"curHeapAllocs"})

HeapLoad(t) ==
  /\ Step(t, "heapLoad", "maxLoad")
  /\ newVal' = [newVal EXCEPT ![t] = cnt["curHeapAllocs"]]
  /\ UNCHANGED <<mapVars, stackVars, recVars, arg, ret, prevMax, pos, calls>>

MaxLoad(t) ==
  /\ Step(t, "maxLoad", "cas")
  /\ prevMax' = [prevMax EXCEPT ![t] = cnt["maxHeapAllocs"]]
  /\ UNCHANGED <<mapVars, stackVars, recVars, arg, ret, newVal, pos, calls>>

\* The loop condition of updateMax fails: the maximum is large enough.
MaxDone(t) ==
  /\ prevMax[t] >= newVal[t]
  /\ Step(t, "cas", "heapCount")
  /\ UNCHANGED <<mapVars, stackVars, recVars, arg, ret, localVars, calls>>

\* Mutant: a plain store of the new maximum.
MaxSwapStore(t) ==
  /\ prevMax[t] < newVal[t]
  /\ Step(t, "cas", "heapCount")
  /\ cnt' = [cnt EXCEPT !["maxHeapAllocs"] = newVal[t]]
  /\ UNCHANGED <<mapVars, stackVars, thr, byType, seen, arg, ret, localVars, calls>>

\* compare_exchange_weak succeeds ...
MaxSwap(t) ==
  /\ prevMax[t] < newVal[t]
  /\ cnt["maxHeapAllocs"] = prevMax[t]
  /\ Step(t, "cas", "heapCount")
  /\ cnt' = [cnt EXCEPT !["maxHeapAllocs"] = newVal[t]]
  /\ UNCHANGED <<mapVars, stackVars, thr, byType, seen, arg, ret, localVars, calls>>

\* Mutant: one attempt instead of a loop.
MaxRetryOnce(t) ==
  /\ prevMax[t] < newVal[t]
  /\ Step(t, "cas", "heapCount")
  /\ UNCHANGED <<mapVars, stackVars, recVars, arg, ret, localVars, calls>>

\* Mutant: the expected value is not reloaded.
MaxRetryStale(t) ==
  /\ prevMax[t] < newVal[t]
  /\ Step(t, "cas", "cas")
  /\ UNCHANGED <<mapVars, stackVars, recVars, arg, ret, localVars, calls>>

\* ... or fails, because the maximum moved or spuriously, and reloads it.
MaxRetry(t) ==
  /\ prevMax[t] < newVal[t]
  /\ Step(t, "cas", "cas")
  /\ prevMax' = [prevMax EXCEPT ![t] = cnt["maxHeapAllocs"]]
  /\ UNCHANGED <<mapVars, stackVars, recVars, arg, ret, newVal, pos, calls>>

HeapCount(t) ==
  CountStep(t, "heapCount", "heapThread",
            WithArray(arg[t].info, {"heapAllocs"}, {"heapArray"}))

HeapThread(t) ==
  ThreadStep(t, "heapThread", "heapType",
             WithArray(arg[t].info, {"heapAllocs"}, {"heapArray"}))

HeapType(t) == TypeStep(t, "heapType", After(arg[t]), "heapAlloc", arg[t].info.typeId)

PushStack(t) ==
  /\ Step(t, "push", "stackThread")
  /\ stackVars' = [stackVars EXCEPT ![t] = Append(stackVars[t], arg[t].addr)]
  /\ UNCHANGED <<mapVars, recVars, arg, ret, localVars, calls>>

StackThread(t) ==
  ThreadStep(t, "stackThread", "stackType",
             WithArray(arg[t].info, {"curStackAllocs", "stackAllocs"}, {"stackArray"}))

StackType(t) == TypeStep(t, "stackType", After(arg[t]), "stackAlloc", arg[t].info.typeId)

GlobalCount(t) ==
  CountStep(t, "global", "globalType",
            WithArray(arg[t].info, {"globalAllocs"}, {"globalArray"}))

GlobalType(t) == TypeStep(t, "globalType", "return", "globalAlloc", arg[t].info.typeId)

-----------------------------------------------------------------------------
(* Deallocation of heap memory: doFreeHeap, then decHeapAlloc.             *)

FreeNull(t) ==
  /\ arg[t].addr = Null
  /\ Step(t, "doFree", After(arg[t]))
  /\ UNCHANGED <<mapVars, stackVars, recVars, arg, ret, localVars, calls>>

\* Mutant: decHeapAlloc also for an address that was not in the map.
WrapperRemoveAlwaysDec(t) ==
  LET a == arg[t].addr IN
  /\ a # Null
  /\ alloc_m = NoThread
  /\ Step(t, "doFree", IF wrapper[a] = NoEntry THEN "decHeap" ELSE "freeCount")
  /\ wrapper' = MapRemove(wrapper, a)
  /\ ret' = [ret EXCEPT ![t] = [op |-> "remove", entry |-> wrapper[a]]]
  /\ UNCHANGED <<alloc_m, stackVars, recVars, arg, localVars, calls>>

WrapperRemove(t) ==
  LET a == arg[t].addr IN
  /\ a # Null
  /\ alloc_m = NoThread
  /\ Step(t, "doFree", IF wrapper[a] = NoEntry THEN After(arg[t]) ELSE "freeCount")
  /\ wrapper' = MapRemove(wrapper, a)
  /\ ret' = [ret EXCEPT ![t] = [op |-> "remove", entry |-> wrapper[a]]]
  /\ UNCHANGED <<alloc_m, stackVars, recVars, arg, localVars, calls>>

FreeCount(t) ==
  CountStep(t, "freeCount", "freeThread",
            WithArray(ret[t].entry, {"heapAllocsFree"}, {"heapArrayFree"}))

\* Mutant: the thread's allocations are counted instead of its frees.
FreeThreadAllocs(t) ==
  ThreadStep(t, "freeThread", "freeType",
             WithArray(ret[t].entry, {"heapAllocs"}, {"heapArray"}))

FreeThread(t) ==
  ThreadStep(t, "freeThread", "freeType",
             WithArray(ret[t].entry, {"heapAllocsFree"}, {"heapArrayFree"}))

\* Mutant: the type is looked up again after the map was unlocked.
FreeTypeRelookup(t) ==
  LET now == wrapper[arg[t].addr] IN
  TypeStep(t, "freeType", "decHeap", "heapFree",
           IF now = NoEntry THEN ret[t].entry.typeId ELSE now.typeId)

FreeType(t) == TypeStep(t, "freeType", "decHeap", "heapFree", ret[t].entry.typeId)

DecHeap(t) ==
  /\ Step(t, "decHeap", After(arg[t]))
  /\ cnt' = [cnt EXCEPT !["curHeapAllocs"] = cnt["curHeapAllocs"] - 1]
  /\ UNCHANGED <<mapVars, stackVars, thr, byType, seen, arg, ret, localVars, calls>>

-----------------------------------------------------------------------------
(* Leaving a scope: the last n stack variables of the thread are removed   *)
(* from the map under one exclusive lock, then from the thread's stack.    *)

\* Mutants: alloca_count is not clamped at all; only the range is clamped; the
\* range is removed without the exclusive lock.
LeaveLockUnclamped(t) ==
  /\ alloc_m = NoThread
  /\ Step(t, "leave", "range")
  /\ alloc_m' = t
  /\ pos' = [pos EXCEPT ![t] = Len(stackVars[t]) - arg[t].n + 1]
  /\ UNCHANGED <<wrapper, stackVars, recVars, arg, ret, newVal, prevMax, calls>>

LeaveLockRangeOnly(t) ==
  LET size == Len(stackVars[t])
      n == IF arg[t].n > size THEN size ELSE arg[t].n IN
  /\ alloc_m = NoThread
  /\ Step(t, "leave", "range")
  /\ alloc_m' = t
  /\ pos' = [pos EXCEPT ![t] = size - n + 1]
  /\ UNCHANGED <<wrapper, stackVars, recVars, arg, ret, newVal, prevMax, calls>>

LeaveLockShared(t) ==
  LET size == Len(stackVars[t])
      n == IF arg[t].n > size THEN size ELSE arg[t].n IN
  /\ alloc_m = NoThread
  /\ Step(t, "leave", "range")
  /\ arg' = [arg EXCEPT ![t] = [arg[t] EXCEPT !.n = n]]
  /\ pos' = [pos EXCEPT ![t] = size - n + 1]
  /\ UNCHANGED <<alloc_m, wrapper, stackVars, recVars, ret, newVal, prevMax, calls>>

\* Clamp alloca_count to the size of the stack and lock the map.
LeaveLock(t) ==
  LET size == Len(stackVars[t])
      n == IF arg[t].n > size THEN size ELSE arg[t].n IN
  /\ alloc_m = NoThread
  /\ Step(t, "leave", "range")
  /\ alloc_m' = t
  /\ arg' = [arg EXCEPT ![t] = [arg[t] EXCEPT !.n = n]]
  /\ pos' = [pos EXCEPT ![t] = size - n + 1]
  /\ UNCHANGED <<wrapper, stackVars, recVars, ret, newVal, prevMax, calls>>

\* One element of bulk_op: it is in the map ...
RangeRemove(t) ==
  LET a == stackVars[t][pos[t]] IN
  /\ Step(t, "range", "rangeThread")
  /\ pos[t] <= Len(stackVars[t])
  /\ a # Null /\ wrapper[a] # NoEntry
  /\ wrapper' = MapRemove(wrapper, a)
  /\ ret' = [ret EXCEPT ![t] = [op |-> "remove", entry |-> wrapper[a]]]
  /\ pos' = [pos EXCEPT ![t] = pos[t] + 1]
  /\ UNCHANGED <<alloc_m, stackVars, recVars, arg, newVal, prevMax, calls>>

\* Mutant: incStackFree for every element, in the map or not.
RangeSkipCounted(t) ==
  LET a == stackVars[t][pos[t]] IN
  /\ Step(t, "range", "range")
  /\ pos[t] <= Len(stackVars[t])
  /\ a # Null => wrapper[a] = NoEntry
  /\ pos' = [pos EXCEPT ![t] = pos[t] + 1]
  /\ thr' = [thr EXCEPT ![t] = [thr[t] EXCEPT !["stackAllocsFree"] = thr[t]["stackAllocsFree"] + 1]]
  /\ UNCHANGED <<mapVars, stackVars, cnt, byType, seen, arg, ret, newVal, prevMax, calls>>

\* ... or not (it is nullptr, or somebody else removed it).
RangeSkip(t) ==
  LET a == stackVars[t][pos[t]] IN
  /\ Step(t, "range", "range")
  /\ pos[t] <= Len(stackVars[t])
  /\ a # Null => wrapper[a] = NoEntry
  /\ pos' = [pos EXCEPT ![t] = pos[t] + 1]
  /\ UNCHANGED <<mapVars, stackVars, recVars, arg, ret, newVal, prevMax, calls>>

\* incStackFree, called back for each removed element with the map locked.
RangeThread(t) ==
  ThreadStep(t, "rangeThread", "rangeType",
             WithArray(ret[t].entry, {"stackAllocsFree"}, {"stackArrayFree"}))

RangeType(t) == TypeStep(t, "rangeType", "range", "stackFree", ret[t].entry.typeId)

RangeUnlock(t) ==
  /\ pos[t] > Len(stackVars[t])
  /\ Step(t, "range", "erase")
  /\ alloc_m' = NoThread
  /\ UNCHANGED <<wrapper, stackVars, recVars, arg, ret, localVars, calls>>

EraseStack(t) ==
  /\ Step(t, "erase", "decStack")
  /\ stackVars' = [stackVars EXCEPT ![t] = SubSeq(@, 1, Len(@) - arg[t].n)]
  /\ UNCHANGED <<mapVars, recVars, arg, ret, localVars, calls>>

\* decStackAlloc: maxStackAllocs is brought up to date only here.
DecStack(t) ==
  LET cur == thr[t]["curStackAllocs"]
      max == thr[t]["maxStackAllocs"] IN
  /\ Step(t, "decStack", "return")
  /\ thr' = [thr EXCEPT ![t] = [thr[t] EXCEPT
       !["maxStackAllocs"] = IF max < cur THEN cur ELSE max,
       !["curStackAllocs"] = cur - arg[t].n]]
  /\ UNCHANGED <<mapVars, stackVars, cnt, byType, seen, arg, ret, localVars, calls>>

-----------------------------------------------------------------------------
(* A type query: findBaseAlloc under the shared lock, then incUsedInRequest.*)

WrapperFind(t) ==
  /\ alloc_m = NoThread
  /\ Step(t, "find", "used")
  /\ ret' = [ret EXCEPT ![t] = [op |-> "find", base |-> MapFind(wrapper, arg[t].addr)]]
  /\ UNCHANGED <<mapVars, stackVars, recVars, arg, localVars, calls>>

UsedInRequest(t) ==
  /\ Step(t, "used", "return")
  /\ cnt' = [cnt EXCEPT !["addrChecked"] = cnt["addrChecked"] + 1]
  /\ seen' = seen \cup {arg[t].addr}
  /\ UNCHANGED <<mapVars, stackVars, thr, byType, arg, ret, localVars, calls>>

-----------------------------------------------------------------------------
(* The specification.                                                      *)

AllocStep(t) ==
  \/ DoAlloc(t) \/ WrapperPut(t) \/ AddrReuse(t)
  \/ HeapCur(t) \/ HeapLoad(t) \/ MaxLoad(t) \/ MaxDone(t) \/ MaxSwap(t) \/ MaxRetry(t)
  \/ HeapCount(t) \/ HeapThread(t) \/ HeapType(t)
  \/ PushStack(t) \/ StackThread(t) \/ StackType(t)
  \/ GlobalCount(t) \/ GlobalType(t)

FreeStep(t) ==
  \/ FreeNull(t) \/ WrapperRemove(t)
  \/ FreeCount(t) \/ FreeThread(t) \/ FreeType(t) \/ DecHeap(t)

LeaveStep(t) ==
  \/ LeaveLock(t) \/ RangeRemove(t) \/ RangeSkip(t) \/ RangeThread(t) \/ RangeType(t)
  \/ RangeUnlock(t) \/ EraseStack(t) \/ DecStack(t)

QueryStep(t) == WrapperFind(t) \/ UsedInRequest(t)

CallStep(t) == CallAlloc(t) \/ CallFree(t) \/ CallLeaveScope(t) \/ CallQuery(t)

\* What the runtime does once it is called.
RuntimeStep(t) ==
  \/ AllocStep(t) \/ FreeStep(t) \/ LeaveStep(t) \/ QueryStep(t)
  \/ OmpCount(t) \/ Return(t)

Quiescent == \A t \in Threads : pc[t] = "idle"

\* Every thread has issued all its callbacks: the one way for the model to stop.
Terminated == Quiescent /\ (\A t \in Threads : calls[t] = MaxCalls) /\ UNCHANGED vars

Next == (\E t \in Threads : CallStep(t) \/ RuntimeStep(t)) \/ Terminated

Spec == Init /\ [][Next]_vars

\* The scheduler runs every thread that can run, a mutex is granted to a thread
\* that keeps asking for it, and compare_exchange_weak does not fail forever
\* once it could succeed again and again.
Fairness ==
  \A t \in Threads : /\ WF_vars(RuntimeStep(t))
                     /\ SF_vars(WrapperPut(t) \/ WrapperRemove(t) \/ WrapperFind(t) \/ LeaveLock(t))
                     /\ SF_vars(MaxSwap(t) \/ MaxDone(t))

FairSpec == Spec /\ Fairness
-----------------------------------------------------------------------------
(* Properties.                                                             *)

\* Type correctness of the whole state; in particular remove_range's loop
\* index stays inside the thread's stack because alloca_count is clamped.
TypeOK ==
  /\ wrapper \in Maps
  /\ alloc_m \in Threads \cup {NoThread}
  /\ stackVars \in [Threads -> Seq(Addrs \cup {Null})]
  /\ cnt \in [Counters -> Int]
  /\ thr \in [Threads -> [ThreadCounters -> Int]]
  /\ byType \in [TypeMaps -> [TypeIds -> Nat]]
  /\ seen \subseteq QueryAddrs
  /\ pc \in [Threads -> Labels]
  /\ arg \in [Threads -> AllCalls \cup {NoCall}]
  /\ ret \in [Threads -> Answers \cup {NoAnswer}]
  /\ newVal \in [Threads -> Int]
  /\ prevMax \in [Threads -> Int]
  /\ pos \in [Threads -> Nat]
  /\ calls \in [Threads -> 0..MaxCalls]

\* When no callback is running, the current number of heap allocations that
\* the recorder reports is the number of recorded allocations minus the number
\* of recorded frees, however the increments of onAlloc and onFreeHeap on the
\* three atomics interleaved.
HeapBalance ==
  Quiescent => cnt["curHeapAllocs"] = cnt["heapAllocs"] - cnt["heapAllocsFree"]

\* incHeapAlloc increments curHeapAllocs and loads it again for updateMax, and
\* frees run in between; still, when no callback is running the recorded
\* maximum is not below the current value.
MaxCoversCur == Quiescent => cnt["maxHeapAllocs"] >= cnt["curHeapAllocs"]

\* updateMax never replaces the maximum by a smaller value, whatever other
\* threads did between its load and its compare-exchange.
MaxNeverDecreases == [][cnt'["maxHeapAllocs"] >= cnt["maxHeapAllocs"]]_vars

\* Outside of its callbacks a thread's curStackAllocs is the size of its
\* stackVars, over-long leave_scope requests included, and frees of stack
\* entries are never counted twice.
StackBalance ==
  \A t \in Threads : pc[t] = "idle" =>
    /\ thr[t]["curStackAllocs"] = Len(stackVars[t])
    /\ thr[t]["stackAllocs"] - thr[t]["stackAllocsFree"] >= Len(stackVars[t])

SumThreads(k) == SumFunctionOnSet([t \in Threads |-> thr[t][k]], Threads)
SumTypes(m)   == SumFunctionOnSet(byType[m], TypeIds)

\* When no callback is running, the recorder's figures account for every entry
\* of the map: each recorded allocation is in the map, was skipped because its
\* address was null, was overwritten, or was recorded as freed.  Concurrent
\* put, remove and remove_range of the same address cannot break the sum.
TableBalance ==
  Quiescent =>
    Cardinality(Keys(wrapper)) =
        cnt["heapAllocs"] + SumThreads("stackAllocs") + cnt["globalAllocs"]
      - cnt["nullAlloc"] - cnt["nullAndZeroAlloc"] - cnt["addrReuses"]
      - cnt["heapAllocsFree"] - SumThreads("stackAllocsFree")

\* The three views of the recorder that AccessCountPrinter prints - global
\* counters, per-thread recorders, per-type maps - agree when no callback is
\* running.
ViewsAgree ==
  Quiescent =>
    /\ cnt["heapAllocs"] = SumThreads("heapAllocs") /\ cnt["heapAllocs"] = SumTypes("heapAlloc")
    /\ cnt["heapAllocsFree"] = SumThreads("heapAllocsFree")
    /\ cnt["heapAllocsFree"] = SumTypes("heapFree")
    /\ SumThreads("stackAllocs") = SumTypes("stackAlloc")
    /\ SumThreads("stackAllocsFree") = SumTypes("stackFree")
    /\ cnt["globalAllocs"] = SumTypes("globalAlloc")

\* Per type: the entries of a type that the map holds are covered by recorded
\* allocations of that type that were not recorded as freed, although the
\* record a free removes may be another thread's, of another type.
TypeBalance ==
  Quiescent =>
    \A id \in TypeIds :
      Cardinality({a \in Keys(wrapper) : wrapper[a].typeId = id}) <=
          byType["heapAlloc"][id] + byType["stackAlloc"][id] + byType["globalAlloc"][id]
        - byType["heapFree"][id] - byType["stackFree"][id]

\* The entries a running remove_range has still to remove.
Condemned ==
  UNION {{stackVars[t][i] : i \in pos[t]..Len(stackVars[t])} :
           t \in {u \in Threads : pc[u] \in LockLabels}}

\* The table other threads can observe: a scope is gone when its removal starts.
Observed == [a \in Addrs |-> IF a \in Condemned THEN NoEntry ELSE wrapper[a]]

Table == INSTANCE AllocTable
           WITH table  <- Observed,
                answer <- [t \in Threads |-> IF arg[t].op = "leave" THEN NoAnswer ELSE ret[t]]

\* The locked map implements the atomic table: no put, remove or find of another
\* thread sees a scope that is only partly removed, and every answer is the one
\* the atomic table gives.
TableRefinement == Table!TableSpec

\* Every callback that is entered returns to the program.
CallsReturn == \A t \in Threads : pc[t] # "idle" ~> pc[t] = "idle"

=============================================================================
