----------------------- MODULE AllocationTrackerProofs -----------------------
(***************************************************************************)
(* Theorems about AllocationTracker for any number of threads, addresses,  *)
(* types and callbacks: the pointer map's search; type correctness; the    *)
(* locked map implements the atomic table of AllocTable; the recorder's    *)
(* figures, each for itself, against each other and against the map.       *)
(***************************************************************************)
EXTENDS AllocationTracker, FiniteSums

-----------------------------------------------------------------------------
(* What find of the pointer map returns, for every set of addresses and     *)
(* every content of the map.                                               *)

\* A nonempty set of naturals has a least element.
LEMMA LeastOfNaturals ==
  ASSUME NEW S, S \subseteq Nat, S # {}
  PROVE  Least(S) \in S /\ \A y \in S : Least(S) <= y
<1>1. PICK x \in S : \A y \in S : x <= y
  BY LeastNatural
<1> QED
  BY <1>1 DEF Least

\* A nonempty set of addresses has a greatest element: turn the order around.
LEMMA GreatestOfAddrs ==
  ASSUME NEW S, S \subseteq Addrs, S # {}
  PROVE  Greatest(S) \in S /\ \A y \in S : y <= Greatest(S)
<1> DEFINE D == {d \in Nat : MaxAddr - d \in S}
<1>1. \A y \in S : y \in Int /\ MaxAddr - y \in D /\ MaxAddr - (MaxAddr - y) = y
  BY AddrsAssumption
<1>2. D \subseteq Nat /\ D # {}
  BY <1>1
<1> HIDE DEF D
<1>3. Least(D) \in D /\ \A d \in D : Least(D) <= d
  BY <1>2, LeastOfNaturals
<1>4. MaxAddr - Least(D) \in S
  BY <1>3 DEF D
<1>5. ASSUME NEW y \in S PROVE y <= MaxAddr - Least(D)
  <2>1. Least(D) \in Nat /\ MaxAddr \in Nat /\ y \in Int
    BY <1>1, <1>2, <1>3, AddrsAssumption
  <2>2. Least(D) <= MaxAddr - y
    BY <1>1, <1>3
  <2> QED
    BY <2>1, <2>2
<1> QED
  BY <1>4, <1>5 DEF Greatest

\* MapOp::find, which searches with lower_bound and steps back when it
\* overshoots, returns the greatest key not above the address, for every map
\* and every address, interior and unmapped ones included.
THEOREM MapFindIsFloor ==
  ASSUME NEW m \in Maps, NEW addr \in Nat
  PROVE  MapFind(m, addr) = Floor(m, addr)
<1> DEFINE K == Keys(m)
           above == {k \in K : k >= addr}
           below == {k \in K : k <= addr}
           under(x) == {k \in K : k < x}
<1>0. K \subseteq Addrs /\ \A k \in K : k \in Nat
  BY AddrsAssumption DEF Keys
<1>k. K = Keys(m)
  OBVIOUS
<1> HIDE DEF K
<1>1. CASE K = {}
  BY <1>k, <1>1 DEF MapFind, Floor
<1>2. CASE K # {} /\ addr < Least(K)
  <2>1. \A k \in K : Least(K) <= k
    BY <1>0, <1>2, LeastOfNaturals
  <2>2. Least(K) \in Nat
    BY <1>0, <1>2, LeastOfNaturals
  <2>3. below = {}
    BY <1>0, <1>2, <2>1, <2>2
  <2> QED
    BY <1>k, <1>2, <2>3 DEF MapFind, Floor
<1>3. CASE K # {} /\ ~(addr < Least(K))
  <2>1. Least(K) \in K
    BY <1>0, <1>3, LeastOfNaturals
  <2>2. below # {}
    BY <1>0, <1>3, <2>1
  <2>3. Floor(m, addr) = Greatest(below)
    BY <1>k, <2>2 DEF Floor
  <2>4. CASE above = {}
    <3>1. below = K
      BY <1>0, <2>4
    <3> QED
      BY <1>k, <1>3, <2>3, <2>4, <3>1 DEF MapFind
  <2>5. CASE above # {}
    <3>1. Least(above) \in above /\ \A y \in above : Least(above) <= y
      BY <1>0, <2>5, LeastOfNaturals
    <3>2. CASE Least(above) = addr
      <4>1. Greatest(below) \in below /\ \A y \in below : y <= Greatest(below)
        BY <1>0, <2>2, GreatestOfAddrs
      <4>2. Greatest(below) = addr
        BY <1>0, <3>1, <3>2, <4>1
      <4> QED
        BY <1>k, <1>3, <2>3, <2>5, <3>2, <4>2 DEF MapFind
    <3>3. CASE Least(above) # addr
      <4>1. under(Least(above)) = below
        BY <1>0, <3>1, <3>3
      <4> QED
        BY <1>k, <1>3, <2>3, <2>5, <3>3, <4>1 DEF MapFind
    <3> QED
      BY <3>2, <3>3
  <2> QED
    BY <2>4, <2>5
<1> QED
  BY <1>1, <1>2, <1>3

\* The answer of find is an address of the map or Null.
LEMMA MapFindType ==
  ASSUME NEW m \in Maps, NEW addr \in Nat
  PROVE  MapFind(m, addr) \in Addrs \cup {Null}
<1> DEFINE below == {k \in Keys(m) : k <= addr}
<1>1. below \subseteq Addrs
  BY DEF Keys
<1>2. CASE below = {}
  BY <1>2, MapFindIsFloor DEF Floor
<1>3. CASE below # {}
  <2>1. Greatest(below) \in below
    BY <1>1, <1>3, GreatestOfAddrs
  <2> QED
    BY <1>1, <1>3, <2>1, MapFindIsFloor DEF Floor
<1> QED
  BY <1>2, <1>3

-----------------------------------------------------------------------------
(* The inductive invariant of type correctness.                            *)

\* What the arguments, the answer and the loop index of a thread are at a label.
Fits(l, call, answer, p) ==
  /\ l \in AllocLabels => call \in AllocCalls
  /\ l \in FreeLabels  => call \in FreeCalls
  /\ l \in LeaveLabels => call \in LeaveCalls
  /\ l \in QueryLabels => call \in QueryCalls
  /\ l \in {"put", "reuse"} => call.addr \in Addrs
  /\ l \in {"freeCount", "freeThread", "freeType", "rangeThread", "rangeType"} =>
       answer \in RemoveAnswers /\ answer.entry \in PointerInfo
  /\ l \in LockLabels => p >= 1
  /\ l = "omp" => call.op \in {"heap", "stack", "free"}

ControlOK == \A t \in Threads : Fits(pc[t], arg[t], ret[t], pos[t])

\* The inductive invariant behind type correctness: types alone do not say that
\* a thread about to count a removed record holds one.
TypeInv == TypeOK /\ ControlOK

-----------------------------------------------------------------------------
(* Labels.                                                                 *)

\* After its work a callback counts itself as _omp or returns.
LEMMA AfterLabel ==
  ASSUME NEW call
  PROVE  After(call) \in {"omp", "return"}
  BY DEF After

\* After doAlloc an allocation is recorded by its kind, or the callback is done.
LEMMA AfterDoAllocLabel ==
  ASSUME NEW call \in AllocCalls, NEW o \in BOOLEAN
  PROVE  AfterDoAlloc(call, o) \in {"heapCur", "push", "global", After(call)}
  BY DEF AfterDoAlloc, AllocCalls, AllocOps

\* A thread outside of the work of a callback carries no obligation.
LEMMA FitsDone ==
  ASSUME NEW call, NEW answer, NEW p, NEW l \in {"idle", "return"}
  PROVE  Fits(l, call, answer, p)
  BY DEF Fits, AllocLabels, FreeLabels, LeaveLabels, QueryLabels, LockLabels, HeapLabels, StackLabels

\* The same holds at the label that follows the work of a callback.
LEMMA FitsAfter ==
  ASSUME NEW call, NEW answer, NEW p
  PROVE  Fits(After(call), call, answer, p)
  BY DEF After, Fits, AllocLabels, FreeLabels, LeaveLabels, QueryLabels, LockLabels, HeapLabels, StackLabels

\* A thread moves; what the others rely on does not change.
LEMMA ControlMove ==
  ASSUME TypeInv, NEW t \in Threads, NEW to,
         pc' = [pc EXCEPT ![t] = to],
         \A u \in Threads \ {t} : arg'[u] = arg[u] /\ ret'[u] = ret[u] /\ pos'[u] = pos[u],
         Fits(to, arg'[t], ret'[t], pos'[t])
  PROVE  ControlOK'
  BY DEF TypeInv, TypeOK, ControlOK

\* Assigning an integer to a counter leaves a group of counters.
LEMMA UpdateCounter ==
  ASSUME NEW D, NEW f \in [D -> Int], NEW k, NEW x \in Int
  PROVE  [f EXCEPT ![k] = x] \in [D -> Int]
  OBVIOUS

-----------------------------------------------------------------------------
(* The counting steps.                                                     *)

\* Incrementing recorder counters keeps the types, wherever control goes.
LEMMA CountStepType ==
  ASSUME TypeInv, NEW t \in Threads, NEW from, NEW to \in Labels, NEW S,
         Fits(to, arg[t], ret[t], pos[t]),
         CountStep(t, from, to, S)
  PROVE  TypeInv'
<1>1. TypeOK'
  BY DEF TypeInv, TypeOK, CountStep, Step, mapVars, localVars
<1>2. ControlOK'
  BY ControlMove DEF CountStep, Step, localVars
<1> QED
  BY <1>1, <1>2 DEF TypeInv

\* ... as does incrementing counters of the thread's recorder,
LEMMA ThreadStepType ==
  ASSUME TypeInv, NEW t \in Threads, NEW from, NEW to \in Labels, NEW S,
         Fits(to, arg[t], ret[t], pos[t]),
         ThreadStep(t, from, to, S)
  PROVE  TypeInv'
<1>1. TypeOK'
  BY DEF TypeInv, TypeOK, ThreadStep, Step, mapVars, localVars
<1>2. ControlOK'
  BY ControlMove DEF ThreadStep, Step, localVars
<1> QED
  BY <1>1, <1>2 DEF TypeInv

\* ... and incrementing an entry of a per-type map.
LEMMA TypeStepType ==
  ASSUME TypeInv, NEW t \in Threads, NEW from, NEW to \in Labels,
         NEW m \in TypeMaps, NEW id \in TypeIds,
         Fits(to, arg[t], ret[t], pos[t]),
         TypeStep(t, from, to, m, id)
  PROVE  TypeInv'
<1>1. TypeOK'
  <2>1. byType' \in [TypeMaps -> [TypeIds -> Nat]]
    BY DEF TypeInv, TypeOK, TypeStep
  <2> QED
    BY <2>1 DEF TypeInv, TypeOK, TypeStep, Step, mapVars, localVars
<1>2. ControlOK'
  BY ControlMove DEF TypeStep, Step, localVars
<1> QED
  BY <1>1, <1>2 DEF TypeInv

-----------------------------------------------------------------------------
(* Type correctness: one lemma per callback, one step per action.          *)

\* The tracker starts well typed, with every thread outside of the runtime.
LEMMA InitType == Init => TypeInv
<1> SUFFICES ASSUME Init PROVE TypeInv
  OBVIOUS
<1>1. TypeOK
  BY BoundsAssumption DEF Init, TypeOK, Maps, Labels
<1>2. ControlOK
  BY FitsDone DEF Init, ControlOK
<1> QED
  BY <1>1, <1>2 DEF TypeInv

\* The program calls into the runtime.
LEMMA EnterType ==
  ASSUME TypeInv, NEW t \in Threads, NEW call \in AllCalls, NEW label \in Labels,
         Fits(label, call, ret[t], pos[t]), Enter(t, call, label)
  PROVE  TypeInv'
<1>1. TypeOK'
  BY BoundsAssumption DEF TypeInv, TypeOK, Enter, Step, mapVars, recVars, localVars
<1>2. arg'[t] = call /\ ret'[t] = ret[t] /\ pos'[t] = pos[t]
  BY DEF TypeInv, TypeOK, Enter, localVars
<1>3. ControlOK'
  BY <1>2, ControlMove DEF TypeInv, TypeOK, Enter, Step, localVars
<1> QED
  BY <1>1, <1>3 DEF TypeInv

\* Every callback is entered with arguments of its kind.
LEMMA CallStepType ==
  ASSUME TypeInv, NEW t \in Threads, CallStep(t)
  PROVE  TypeInv'
<1> USE DEF Labels, AllocLabels, FreeLabels, LeaveLabels, QueryLabels, LockLabels, HeapLabels, StackLabels
<1>1. CASE CallAlloc(t)
  <2>1. PICK op \in AllocOps, a \in Addrs \cup {Null}, info \in PointerInfo, omp \in OmpModes :
          Enter(t, Call(op, a, info, 0, omp), "doAlloc")
    BY <1>1 DEF CallAlloc
  <2>2. Call(op, a, info, 0, omp) \in AllocCalls
    BY OpsAssumption DEF Call, AllocCalls
  <2>3. Fits("doAlloc", Call(op, a, info, 0, omp), ret[t], pos[t])
    BY <2>2 DEF Fits
  <2> QED
    BY <2>1, <2>2, <2>3, EnterType DEF AllCalls
<1>2. CASE CallFree(t)
  <2>1. PICK a \in Addrs \cup {Null}, omp \in OmpModes :
          Enter(t, Call("free", a, NoEntry, 0, omp), "doFree")
    BY <1>2 DEF CallFree
  <2>2. Call("free", a, NoEntry, 0, omp) \in FreeCalls
    BY OpsAssumption DEF Call, FreeCalls
  <2>3. Fits("doFree", Call("free", a, NoEntry, 0, omp), ret[t], pos[t])
    BY <2>2 DEF Fits
  <2> QED
    BY <2>1, <2>2, <2>3, EnterType DEF AllCalls
<1>3. CASE CallLeaveScope(t)
  <2>1. PICK n \in 0..MaxLeave, omp \in OmpModes :
          Enter(t, Call("leave", Null, NoEntry, n, omp), "leave")
    BY <1>3 DEF CallLeaveScope
  <2>2. Call("leave", Null, NoEntry, n, omp) \in LeaveCalls
    BY OpsAssumption DEF Call, LeaveCalls
  <2>3. Fits("leave", Call("leave", Null, NoEntry, n, omp), ret[t], pos[t])
    BY <2>2 DEF Fits
  <2> QED
    BY <2>1, <2>2, <2>3, EnterType DEF AllCalls
<1>4. CASE CallQuery(t)
  <2>1. PICK a \in QueryAddrs : Enter(t, Call("query", a, NoEntry, 0, FALSE), "find")
    BY <1>4 DEF CallQuery
  <2>2. Call("query", a, NoEntry, 0, FALSE) \in QueryCalls
    BY DEF Call, QueryCalls
  <2>3. Fits("find", Call("query", a, NoEntry, 0, FALSE), ret[t], pos[t])
    BY <2>2 DEF Fits
  <2> QED
    BY <2>1, <2>2, <2>3, EnterType DEF AllCalls
<1> QED
  BY <1>1, <1>2, <1>3, <1>4 DEF CallStep

\* doAlloc and the recording of an allocation keep the types.
LEMMA AllocStepType ==
  ASSUME TypeInv, NEW t \in Threads, AllocStep(t)
  PROVE  TypeInv'
<1> USE DEF Labels, AllocLabels, FreeLabels, LeaveLabels, QueryLabels, LockLabels, HeapLabels, StackLabels
<1>f. Fits(pc[t], arg[t], ret[t], pos[t])
  BY DEF TypeInv, ControlOK
<1>a. After(arg[t]) \in Labels /\ Fits(After(arg[t]), arg[t], ret[t], pos[t])
  BY AfterLabel, FitsAfter
<1>b. ASSUME NEW o \in BOOLEAN, NEW answer, arg[t] \in AllocCalls
      PROVE  /\ AfterDoAlloc(arg[t], o) \in Labels
             /\ Fits(AfterDoAlloc(arg[t], o), arg[t], answer, pos[t])
  <2>1. CASE AfterDoAlloc(arg[t], o) = After(arg[t])
    BY <2>1, AfterLabel, FitsAfter
  <2>2. CASE AfterDoAlloc(arg[t], o) \in {"heapCur", "push", "global"}
    BY <1>b, <2>2 DEF Fits
  <2> QED
    BY <1>b, <2>1, <2>2, AfterDoAllocLabel
<1>1. CASE DoAlloc(t)
  <2>1. pc[t] = "doAlloc" /\ arg[t] \in AllocCalls
    BY <1>f, <1>1 DEF DoAlloc, CountStep, Step, Fits
  <2>2. CASE arg[t].addr = Null
    BY <1>1, <1>b, <2>1, <2>2, CountStepType DEF DoAlloc
  <2>3. CASE arg[t].addr # Null
    <3>1. Fits("put", arg[t], ret[t], pos[t])
      BY <2>1, <2>3 DEF Fits, AllocCalls
    <3> QED
      BY <1>1, <2>3, <3>1, CountStepType DEF DoAlloc
  <2> QED
    BY <2>2, <2>3
<1>2. CASE WrapperPut(t)
  <2> DEFINE o  == MapOverrides(wrapper, arg[t].addr)
             to == IF o THEN "reuse" ELSE AfterDoAlloc(arg[t], FALSE)
  <2>1. pc[t] = "put" /\ arg[t] \in AllocCalls /\ arg[t].addr \in Addrs
    BY <1>f, <1>2 DEF WrapperPut, Step, Fits
  <2>2. o \in BOOLEAN
    BY DEF MapOverrides
  <2>3. [op |-> "put", overridden |-> o] \in Answers
    BY <2>2 DEF Answers, PutAnswers
  <2>4. to \in Labels /\ \A answer : Fits(to, arg[t], answer, pos[t])
    BY <1>b, <2>1 DEF Fits
  <2>5. wrapper' \in Maps
    BY <1>2, <2>1 DEF WrapperPut, MapPut, Maps, TypeInv, TypeOK, AllocCalls
  <2> HIDE DEF o, to
  <2>6. pc' = [pc EXCEPT ![t] = to] /\ ret' = [ret EXCEPT ![t] = [op |-> "put", overridden |-> o]]
    BY <1>2 DEF WrapperPut, Step, o, to
  <2>7. TypeOK'
    BY <1>2, <2>3, <2>4, <2>5, <2>6 DEF WrapperPut, TypeInv, TypeOK, recVars, localVars
  <2>8. ControlOK'
    BY <1>2, <2>4, <2>6, ControlMove DEF WrapperPut, localVars, TypeInv, TypeOK
  <2> QED
    BY <2>7, <2>8 DEF TypeInv
<1>3. CASE AddrReuse(t)
  <2>1. arg[t] \in AllocCalls
    BY <1>f, <1>3 DEF AddrReuse, CountStep, Step, Fits
  <2> QED
    BY <1>3, <1>b, <2>1, CountStepType DEF AddrReuse
<1>4. CASE HeapCur(t)
  <2>1. Fits("heapLoad", arg[t], ret[t], pos[t])
    BY <1>f, <1>4 DEF HeapCur, CountStep, Step, Fits
  <2> QED
    BY <1>4, <2>1, CountStepType DEF HeapCur
<1>5. CASE HeapLoad(t) \/ MaxLoad(t) \/ MaxDone(t) \/ MaxSwap(t) \/ MaxRetry(t)
  <2>1. PICK to \in {"maxLoad", "cas", "heapCount"} : pc' = [pc EXCEPT ![t] = to]
    BY <1>5 DEF HeapLoad, MaxLoad, MaxDone, MaxSwap, MaxRetry, Step
  <2>2. Fits(to, arg[t], ret[t], pos[t])
    BY <1>f, <1>5 DEF HeapLoad, MaxLoad, MaxDone, MaxSwap, MaxRetry, Step, Fits
  <2>3. UNCHANGED <<wrapper, alloc_m, stackVars, thr, byType, seen, arg, ret, pos, calls>>
    BY <1>5 DEF HeapLoad, MaxLoad, MaxDone, MaxSwap, MaxRetry, mapVars, recVars, localVars
  <2>4. /\ cnt' \in [Counters -> Int]
        /\ newVal' \in [Threads -> Int]
        /\ prevMax' \in [Threads -> Int]
    <3>1. /\ cnt \in [Counters -> Int]
          /\ newVal \in [Threads -> Int]
          /\ prevMax \in [Threads -> Int]
      BY DEF TypeInv, TypeOK
    <3>2. cnt["curHeapAllocs"] \in Int /\ cnt["maxHeapAllocs"] \in Int /\ newVal[t] \in Int
      BY <3>1 DEF Counters
    <3> QED
      BY <1>5, <3>1, <3>2 DEF HeapLoad, MaxLoad, MaxDone, MaxSwap, MaxRetry, recVars, localVars
  <2>5. TypeOK'
    BY <2>1, <2>3, <2>4 DEF TypeInv, TypeOK
  <2>6. ControlOK'
    BY <2>1, <2>2, <2>3, ControlMove
  <2> QED
    BY <2>5, <2>6 DEF TypeInv
<1>6. CASE HeapCount(t) \/ HeapThread(t)
  <2>1. /\ HeapCount(t) => Fits("heapThread", arg[t], ret[t], pos[t])
        /\ HeapThread(t) => Fits("heapType", arg[t], ret[t], pos[t])
    BY <1>f DEF HeapCount, HeapThread, CountStep, ThreadStep, Step, Fits
  <2> QED
    BY <1>6, <2>1, CountStepType, ThreadStepType DEF HeapCount, HeapThread
<1>7. CASE HeapType(t) \/ StackType(t) \/ GlobalType(t)
  <2>1. arg[t] \in AllocCalls
    BY <1>f, <1>7 DEF HeapType, StackType, GlobalType, TypeStep, Step, Fits
  <2>2. arg[t].info.typeId \in TypeIds
    BY <2>1 DEF AllocCalls, PointerInfo
  <2>3. Fits("return", arg[t], ret[t], pos[t])
    BY FitsDone
  <2> QED
    BY <1>7, <1>a, <2>2, <2>3, TypeStepType DEF HeapType, StackType, GlobalType, TypeMaps
<1>8. CASE PushStack(t)
  <2>1. arg[t] \in AllocCalls /\ Fits("stackThread", arg[t], ret[t], pos[t])
    BY <1>f, <1>8 DEF PushStack, Step, Fits
  <2>2. stackVars' \in [Threads -> Seq(Addrs \cup {Null})]
    BY <1>8, <2>1 DEF PushStack, TypeInv, TypeOK, AllocCalls
  <2>3. TypeOK'
    BY <1>8, <2>2 DEF PushStack, Step, TypeInv, TypeOK, mapVars, recVars, localVars
  <2>4. ControlOK'
    BY <1>8, <2>1, ControlMove DEF PushStack, Step, localVars
  <2> QED
    BY <2>3, <2>4 DEF TypeInv
<1>9. CASE StackThread(t)
  <2>1. Fits("stackType", arg[t], ret[t], pos[t])
    BY <1>f, <1>9 DEF StackThread, ThreadStep, Step, Fits
  <2> QED
    BY <1>9, <2>1, ThreadStepType DEF StackThread
<1>10. CASE GlobalCount(t)
  <2>1. Fits("globalType", arg[t], ret[t], pos[t])
    BY <1>f, <1>10 DEF GlobalCount, CountStep, Step, Fits
  <2> QED
    BY <1>10, <2>1, CountStepType DEF GlobalCount
<1> QED
  BY <1>1, <1>2, <1>3, <1>4, <1>5, <1>6, <1>7, <1>8, <1>9, <1>10 DEF AllocStep

\* doFreeHeap keeps the types: the record it counts is one the map held.
LEMMA FreeStepType ==
  ASSUME TypeInv, NEW t \in Threads, FreeStep(t)
  PROVE  TypeInv'
<1> USE DEF Labels, AllocLabels, FreeLabels, LeaveLabels, QueryLabels, LockLabels, HeapLabels, StackLabels
<1>f. Fits(pc[t], arg[t], ret[t], pos[t])
  BY DEF TypeInv, ControlOK
<1>a. After(arg[t]) \in Labels /\ \A answer : Fits(After(arg[t]), arg[t], answer, pos[t])
  BY AfterLabel, FitsAfter
<1>1. CASE FreeNull(t)
  <2>1. TypeOK'
    BY <1>1, <1>a DEF FreeNull, Step, TypeInv, TypeOK, mapVars, recVars, localVars
  <2>2. ControlOK'
    BY <1>1, <1>a, ControlMove DEF FreeNull, Step, localVars
  <2> QED
    BY <2>1, <2>2 DEF TypeInv
<1>2. CASE WrapperRemove(t)
  <2> DEFINE a == arg[t].addr
             answer == [op |-> "remove", entry |-> wrapper[a]]
             to == IF wrapper[a] = NoEntry THEN After(arg[t]) ELSE "freeCount"
  <2>1. arg[t] \in FreeCalls /\ a \in Addrs
    <3>1. arg[t] \in FreeCalls
      BY <1>f, <1>2 DEF WrapperRemove, Step, Fits
    <3> QED
      BY <1>2, <3>1 DEF WrapperRemove, FreeCalls
  <2>2. wrapper[a] \in PointerInfo \cup {NoEntry}
    BY <2>1 DEF TypeInv, TypeOK, Maps
  <2>3. answer \in RemoveAnswers /\ answer \in Answers
    BY <2>2 DEF Answers, RemoveAnswers
  <2>4. to \in Labels /\ Fits(to, arg[t], answer, pos[t])
    BY <1>a, <2>1, <2>2, <2>3 DEF Fits
  <2>5. wrapper' \in Maps
    BY <1>2 DEF WrapperRemove, MapRemove, Maps, TypeInv, TypeOK
  <2>6. pc' = [pc EXCEPT ![t] = to] /\ ret' = [ret EXCEPT ![t] = answer]
    BY <1>2 DEF WrapperRemove, Step
  <2> HIDE DEF a, answer, to
  <2>7. TypeOK'
    BY <1>2, <2>3, <2>4, <2>5, <2>6 DEF WrapperRemove, TypeInv, TypeOK, recVars, localVars
  <2>8. ControlOK'
    BY <1>2, <2>4, <2>6, ControlMove DEF WrapperRemove, localVars, TypeInv, TypeOK
  <2> QED
    BY <2>7, <2>8 DEF TypeInv
<1>3. CASE FreeCount(t)
  <2>1. Fits("freeThread", arg[t], ret[t], pos[t])
    BY <1>f, <1>3 DEF FreeCount, CountStep, Step, Fits
  <2> QED
    BY <1>3, <2>1, CountStepType DEF FreeCount
<1>4. CASE FreeThread(t)
  <2>1. Fits("freeType", arg[t], ret[t], pos[t])
    BY <1>f, <1>4 DEF FreeThread, ThreadStep, Step, Fits
  <2> QED
    BY <1>4, <2>1, ThreadStepType DEF FreeThread
<1>5. CASE FreeType(t)
  <2>1. Fits("decHeap", arg[t], ret[t], pos[t]) /\ ret[t].entry \in PointerInfo
    BY <1>f, <1>5 DEF FreeType, TypeStep, Step, Fits
  <2>2. ret[t].entry.typeId \in TypeIds
    BY <2>1 DEF PointerInfo
  <2> QED
    BY <1>5, <2>1, <2>2, TypeStepType DEF FreeType, TypeMaps
<1>6. CASE DecHeap(t)
  <2>0. cnt \in [Counters -> Int] /\ cnt["curHeapAllocs"] \in Int
    BY DEF TypeInv, TypeOK, Counters
  <2>1. cnt' \in [Counters -> Int]
    <3>1. cnt["curHeapAllocs"] - 1 \in Int
      BY <2>0
    <3> QED
      BY <1>6, <2>0, <3>1, UpdateCounter DEF DecHeap
  <2>2. TypeOK'
    BY <1>6, <1>a, <2>1 DEF DecHeap, Step, TypeInv, TypeOK, mapVars, localVars
  <2>3. ControlOK'
    BY <1>6, <1>a, ControlMove DEF DecHeap, Step, localVars
  <2> QED
    BY <2>2, <2>3 DEF TypeInv
<1> QED
  BY <1>1, <1>2, <1>3, <1>4, <1>5, <1>6 DEF FreeStep

\* onLeaveScope keeps the types: the loop index stays inside stackVars.
LEMMA LeaveStepType ==
  ASSUME TypeInv, NEW t \in Threads, LeaveStep(t)
  PROVE  TypeInv'
<1> USE DEF Labels, AllocLabels, FreeLabels, LeaveLabels, QueryLabels, LockLabels, HeapLabels, StackLabels
<1>f. Fits(pc[t], arg[t], ret[t], pos[t])
  BY DEF TypeInv, ControlOK
<1>s. stackVars[t] \in Seq(Addrs \cup {Null}) /\ Len(stackVars[t]) \in Nat /\ pos[t] \in Nat
  BY DEF TypeInv, TypeOK
<1>1. CASE LeaveLock(t)
  <2> DEFINE size == Len(stackVars[t])
             n == IF arg[t].n > size THEN size ELSE arg[t].n
             call == [arg[t] EXCEPT !.n = n]
  <2>1. arg[t] \in LeaveCalls
    BY <1>f, <1>1 DEF LeaveLock, Step, Fits
  <2>2. n \in 0..MaxLeave /\ size - n + 1 \in Nat /\ size - n + 1 >= 1
    BY <1>s, <2>1, BoundsAssumption DEF LeaveCalls
  <2>3. call \in LeaveCalls
    BY <2>1, <2>2 DEF LeaveCalls
  <2>4. Fits("range", call, ret[t], size - n + 1)
    BY <2>2, <2>3 DEF Fits
  <2>5. /\ pc' = [pc EXCEPT ![t] = "range"] /\ alloc_m' = t
        /\ arg' = [arg EXCEPT ![t] = call] /\ pos' = [pos EXCEPT ![t] = size - n + 1]
        /\ UNCHANGED <<wrapper, stackVars, recVars, ret, newVal, prevMax, calls>>
    BY <1>1, Zenon DEF LeaveLock, Step
  <2> HIDE DEF size, n, call
  <2>6. TypeOK'
    BY <2>2, <2>3, <2>5 DEF TypeInv, TypeOK, recVars, AllCalls
  <2>7. arg'[t] = call /\ ret'[t] = ret[t] /\ pos'[t] = size - n + 1
    BY <2>5 DEF TypeInv, TypeOK
  <2>8. ControlOK'
    BY <2>4, <2>5, <2>7, ControlMove DEF TypeInv, TypeOK
  <2> QED
    BY <2>6, <2>8 DEF TypeInv
<1>2. CASE RangeRemove(t)
  <2> DEFINE a == stackVars[t][pos[t]]
             answer == [op |-> "remove", entry |-> wrapper[a]]
  <2>1. arg[t] \in LeaveCalls /\ pos[t] >= 1
    BY <1>f, <1>2 DEF RangeRemove, Step, Fits
  <2>2. a \in Addrs
    BY <1>2, <1>s, <2>1 DEF RangeRemove
  <2>3. wrapper[a] \in PointerInfo
    BY <1>2, <2>2 DEF RangeRemove, TypeInv, TypeOK, Maps
  <2>4. answer \in RemoveAnswers /\ answer \in Answers
    BY <2>3 DEF Answers, RemoveAnswers
  <2>5. Fits("rangeThread", arg[t], answer, pos[t] + 1)
    BY <1>s, <2>1, <2>3, <2>4 DEF Fits
  <2>6. wrapper' \in Maps
    BY <1>2 DEF RangeRemove, MapRemove, Maps, TypeInv, TypeOK
  <2>7. ret' = [ret EXCEPT ![t] = answer] /\ pos' = [pos EXCEPT ![t] = pos[t] + 1]
    BY <1>2 DEF RangeRemove
  <2> HIDE DEF a, answer
  <2>8. TypeOK'
    BY <1>2, <1>s, <2>4, <2>6, <2>7 DEF RangeRemove, Step, TypeInv, TypeOK, recVars
  <2>9. ControlOK'
    <3>1. ret'[t] = answer /\ pos'[t] = pos[t] + 1 /\ arg'[t] = arg[t]
      BY <1>2, <2>7 DEF RangeRemove, TypeInv, TypeOK
    <3>2. \A u \in Threads \ {t} : arg'[u] = arg[u] /\ ret'[u] = ret[u] /\ pos'[u] = pos[u]
      BY <1>2, <2>7 DEF RangeRemove, TypeInv, TypeOK
    <3>3. pc' = [pc EXCEPT ![t] = "rangeThread"]
      BY <1>2 DEF RangeRemove, Step
    <3> QED
      BY <2>5, <3>1, <3>2, <3>3, ControlMove
  <2> QED
    BY <2>8, <2>9 DEF TypeInv
<1>3. CASE RangeSkip(t)
  <2>1. Fits("range", arg[t], ret[t], pos[t] + 1)
    BY <1>f, <1>s, <1>3 DEF RangeSkip, Step, Fits
  <2>2. TypeOK'
    BY <1>3, <1>s DEF RangeSkip, Step, TypeInv, TypeOK, mapVars, recVars
  <2>3. ControlOK'
    BY <1>3, <2>1, ControlMove DEF RangeSkip, Step, TypeInv, TypeOK
  <2> QED
    BY <2>2, <2>3 DEF TypeInv
<1>4. CASE RangeThread(t)
  <2>1. Fits("rangeType", arg[t], ret[t], pos[t])
    BY <1>f, <1>4 DEF RangeThread, ThreadStep, Step, Fits
  <2> QED
    BY <1>4, <2>1, ThreadStepType DEF RangeThread
<1>5. CASE RangeType(t)
  <2>1. Fits("range", arg[t], ret[t], pos[t]) /\ ret[t].entry \in PointerInfo
    BY <1>f, <1>5 DEF RangeType, TypeStep, Step, Fits
  <2>2. ret[t].entry.typeId \in TypeIds
    BY <2>1 DEF PointerInfo
  <2> QED
    BY <1>5, <2>1, <2>2, TypeStepType DEF RangeType, TypeMaps
<1>6. CASE RangeUnlock(t)
  <2>1. Fits("erase", arg[t], ret[t], pos[t])
    BY <1>f, <1>6 DEF RangeUnlock, Step, Fits
  <2>2. TypeOK'
    BY <1>6 DEF RangeUnlock, Step, TypeInv, TypeOK, recVars, localVars
  <2>3. ControlOK'
    BY <1>6, <2>1, ControlMove DEF RangeUnlock, Step, localVars
  <2> QED
    BY <2>2, <2>3 DEF TypeInv
<1>7. CASE EraseStack(t)
  <2>1. Fits("decStack", arg[t], ret[t], pos[t]) /\ arg[t] \in LeaveCalls
    BY <1>f, <1>7 DEF EraseStack, Step, Fits
  <2>2. SubSeq(stackVars[t], 1, Len(stackVars[t]) - arg[t].n) \in Seq(Addrs \cup {Null})
    <3>1. arg[t].n \in Nat
      BY <2>1, BoundsAssumption DEF LeaveCalls
    <3> QED
      BY <1>s, <3>1
  <2>3. stackVars' \in [Threads -> Seq(Addrs \cup {Null})]
    BY <1>7, <2>2 DEF EraseStack, TypeInv, TypeOK
  <2>4. TypeOK'
    BY <1>7, <2>3 DEF EraseStack, Step, TypeInv, TypeOK, mapVars, recVars, localVars
  <2>5. ControlOK'
    BY <1>7, <2>1, ControlMove DEF EraseStack, Step, localVars
  <2> QED
    BY <2>4, <2>5 DEF TypeInv
<1>8. CASE DecStack(t)
  <2>1. arg[t] \in LeaveCalls
    BY <1>f, <1>8 DEF DecStack, Step, Fits
  <2>2. thr[t] \in [ThreadCounters -> Int] /\ arg[t].n \in Int
    BY <2>1, BoundsAssumption DEF LeaveCalls, TypeInv, TypeOK
  <2>3. thr' \in [Threads -> [ThreadCounters -> Int]]
    <3> DEFINE cur == thr[t]["curStackAllocs"]
               max == thr[t]["maxStackAllocs"]
               top == IF max < cur THEN cur ELSE max
               new == [thr[t] EXCEPT !["maxStackAllocs"] = top, !["curStackAllocs"] = cur - arg[t].n]
    <3>1. cur \in Int /\ max \in Int /\ top \in Int
      BY <2>2 DEF ThreadCounters
    <3>2. thr' = [thr EXCEPT ![t] = new]
      BY <1>8 DEF DecStack
    <3> HIDE DEF cur, max, top
    <3>3. new \in [ThreadCounters -> Int]
      <4>1. [thr[t] EXCEPT !["maxStackAllocs"] = top] \in [ThreadCounters -> Int]
        BY <2>2, <3>1, UpdateCounter
      <4>2. cur - arg[t].n \in Int
        BY <2>2, <3>1
      <4> QED
        BY <4>1, <4>2, UpdateCounter
    <3> HIDE DEF new
    <3> QED
      BY <3>2, <3>3 DEF TypeInv, TypeOK
  <2>4. TypeOK'
    BY <1>8, <2>3 DEF DecStack, Step, TypeInv, TypeOK, mapVars, localVars
  <2>5. ControlOK'
    BY <1>8, FitsDone, ControlMove DEF DecStack, Step, localVars
  <2> QED
    BY <2>4, <2>5 DEF TypeInv
<1> QED
  BY <1>1, <1>2, <1>3, <1>4, <1>5, <1>6, <1>7, <1>8 DEF LeaveStep

\* findBaseAlloc and incUsedInRequest keep the types.
LEMMA QueryStepType ==
  ASSUME TypeInv, NEW t \in Threads, QueryStep(t)
  PROVE  TypeInv'
<1> USE DEF Labels, AllocLabels, FreeLabels, LeaveLabels, QueryLabels, LockLabels, HeapLabels, StackLabels
<1>f. arg[t] \in QueryCalls
  BY DEF TypeInv, ControlOK, Fits, QueryStep, WrapperFind, UsedInRequest, Step
<1>1. CASE WrapperFind(t)
  <2> DEFINE answer == [op |-> "find", base |-> MapFind(wrapper, arg[t].addr)]
  <2>1. MapFind(wrapper, arg[t].addr) \in Addrs \cup {Null}
    BY <1>f, MapFindType, QueryAddrsAssumption DEF QueryCalls, TypeInv, TypeOK
  <2>2. answer \in Answers
    BY <2>1 DEF Answers, FindAnswers
  <2>3. Fits("used", arg[t], answer, pos[t])
    BY <1>f DEF Fits
  <2>4. ret' = [ret EXCEPT ![t] = answer]
    BY <1>1 DEF WrapperFind
  <2> HIDE DEF answer
  <2>5. TypeOK'
    BY <1>1, <2>2, <2>4 DEF WrapperFind, Step, TypeInv, TypeOK, mapVars, recVars, localVars
  <2>6. ControlOK'
    BY <1>1, <2>3, <2>4, ControlMove DEF WrapperFind, Step, localVars, TypeInv, TypeOK
  <2> QED
    BY <2>5, <2>6 DEF TypeInv
<1>2. CASE UsedInRequest(t)
  <2>0. cnt \in [Counters -> Int] /\ cnt["addrChecked"] \in Int
    BY DEF TypeInv, TypeOK, Counters
  <2>1. cnt' \in [Counters -> Int] /\ seen' \subseteq QueryAddrs
    <3>1. cnt["addrChecked"] + 1 \in Int
      BY <2>0
    <3>2. cnt' \in [Counters -> Int]
      BY <1>2, <2>0, <3>1, UpdateCounter DEF UsedInRequest
    <3>3. seen' \subseteq QueryAddrs
      BY <1>2, <1>f DEF UsedInRequest, TypeInv, TypeOK, QueryCalls
    <3> QED
      BY <3>2, <3>3
  <2>2. TypeOK'
    BY <1>2, <2>1 DEF UsedInRequest, Step, TypeInv, TypeOK, mapVars, localVars
  <2>3. ControlOK'
    BY <1>2, FitsDone, ControlMove DEF UsedInRequest, Step, localVars
  <2> QED
    BY <2>2, <2>3 DEF TypeInv
<1> QED
  BY <1>1, <1>2 DEF QueryStep

\* The _omp counters and the return to the program keep the types.
LEMMA ReturnType ==
  ASSUME TypeInv, NEW t \in Threads, OmpCount(t) \/ Return(t)
  PROVE  TypeInv'
<1>1. CASE OmpCount(t)
  BY <1>1, FitsDone, CountStepType DEF OmpCount, Labels
<1>2. CASE Return(t)
  <2>1. TypeOK'
    BY <1>2 DEF Return, Step, TypeInv, TypeOK, mapVars, recVars, Labels
  <2>2. ControlOK'
    BY <1>2, FitsDone, ControlMove DEF Return, Step, TypeInv, TypeOK
  <2> QED
    BY <2>1, <2>2 DEF TypeInv
<1> QED
  BY <1>1, <1>2

\* The invariant is inductive.
LEMMA NextType == TypeInv /\ [Next]_vars => TypeInv'
<1> SUFFICES ASSUME TypeInv, [Next]_vars PROVE TypeInv'
  OBVIOUS
<1>1. ASSUME NEW t \in Threads, CallStep(t) \/ RuntimeStep(t) PROVE TypeInv'
  BY <1>1, CallStepType, AllocStepType, FreeStepType, LeaveStepType, QueryStepType, ReturnType
  DEF RuntimeStep
<1>2. CASE UNCHANGED vars
  BY <1>2 DEF vars, TypeInv, TypeOK, ControlOK
<1> QED
  BY <1>1, <1>2 DEF Next, Terminated

\* No callback, in no interleaving with others and with no arguments, brings a
\* variable outside of its type, and a thread that counts a removed record
\* holds one.
THEOREM TypeInvariant == Spec => []TypeInv
  BY InitType, NextType, PTL DEF Spec

\* In particular remove_range never indexes outside of the thread's stack.
THEOREM TypeCorrect == Spec => []TypeOK
<1>1. TypeInv => TypeOK
  BY DEF TypeInv
<1> QED
  BY <1>1, TypeInvariant, PTL

-----------------------------------------------------------------------------
(* The locked map implements the table: every step of the tracker is a step*)
(* of the table or leaves it alone.                                        *)

\* A thread inside remove_range holds the map's mutex.
LockOwner == \A t \in Threads : pc[t] \in LockLabels => alloc_m = t

\* A thread outside of the runtime has no answer.
IdleSilent == \A t \in Threads : pc[t] = "idle" => ret[t] = NoAnswer

TableInv == TypeInv /\ LockOwner /\ IdleSilent

\* The answers the table gives.
Answer == [t \in Threads |-> IF arg[t].op = "leave" THEN NoAnswer ELSE ret[t]]

-----------------------------------------------------------------------------
(* What the other threads observe.                                         *)

\* The entries that are condemned, in this state and in the next one.
LEMMA CondemnedMember ==
  /\ \A a : a \in Condemned <=>
       \E t \in Threads : pc[t] \in LockLabels /\ \E i \in pos[t]..Len(stackVars[t]) : a = stackVars[t][i]
  /\ \A a : a \in Condemned' <=>
       \E t \in Threads : pc'[t] \in LockLabels /\ \E i \in pos'[t]..Len(stackVars'[t]) : a = stackVars'[t][i]
  BY DEF Condemned

\* When nobody holds the mutex the observed table is the map.
LEMMA UnlockedObserved ==
  ASSUME TableInv, alloc_m = NoThread
  PROVE  Condemned = {} /\ Observed = wrapper
<1>1. \A t \in Threads : pc[t] \notin LockLabels
  BY ThreadsAssumption DEF TableInv, LockOwner
<1>2. Condemned = {}
  BY <1>1, CondemnedMember
<1> QED
  BY <1>2 DEF Observed, TableInv, TypeInv, TypeOK, Maps

\* A step of a thread outside of remove_range condemns nothing and saves nothing.
LEMMA OutsideCondemned ==
  ASSUME NEW t \in Threads, pc[t] \notin LockLabels, pc'[t] \notin LockLabels,
         \A u \in Threads \ {t} : pc'[u] = pc[u] /\ stackVars'[u] = stackVars[u] /\ pos'[u] = pos[u]
  PROVE  Condemned' = Condemned
<1>1. \A a : a \in Condemned' <=> a \in Condemned
  BY CondemnedMember
<1> QED
  BY <1>1

\* The map starts empty, and nobody has an answer.
LEMMA MappedInit == Init => Table!TableInit
<1> SUFFICES ASSUME Init PROVE Table!TableInit
  OBVIOUS
<1>1. Condemned = {}
  <2>1. \A t \in Threads : pc[t] \notin LockLabels
    BY DEF Init, LockLabels
  <2> QED
    BY <2>1, CondemnedMember
<1>2. Observed = [a \in Addrs |-> NoEntry]
  BY <1>1 DEF Observed, Init
<1>3. Answer = [t \in Threads |-> NoAnswer]
  BY DEF Answer, Init
<1> QED
  BY <1>2, <1>3 DEF Table!TableInit, Answer

-----------------------------------------------------------------------------
(* Steps the table does not notice.                                        *)

\* t moves outside of remove_range; the map and its answers stay.
Local(t, from, to) ==
  /\ Step(t, from, to)
  /\ UNCHANGED <<wrapper, alloc_m, arg, ret>>
  /\ \A u \in Threads \ {t} : stackVars'[u] = stackVars[u] /\ pos'[u] = pos[u]

\* Labels of a callback outside of remove_range.
Working == Labels \ (LockLabels \cup {"idle"})

\* Counting steps of any kind are local.
LEMMA CountingLocal ==
  ASSUME NEW t \in Threads, NEW from, NEW to,
         \/ \E S : CountStep(t, from, to, S)
         \/ \E S : ThreadStep(t, from, to, S)
         \/ \E m, id : TypeStep(t, from, to, m, id)
  PROVE  Local(t, from, to)
  BY DEF CountStep, ThreadStep, TypeStep, Local, mapVars, localVars

\* The recording of allocations.
LEMMA AllocLocal ==
  ASSUME TypeInv, NEW t \in Threads,
         \/ DoAlloc(t) \/ AddrReuse(t)
         \/ HeapCur(t) \/ HeapLoad(t) \/ MaxLoad(t) \/ MaxDone(t) \/ MaxSwap(t) \/ MaxRetry(t)
         \/ HeapCount(t) \/ HeapThread(t) \/ HeapType(t)
         \/ PushStack(t) \/ StackThread(t) \/ StackType(t)
         \/ GlobalCount(t) \/ GlobalType(t)
  PROVE  \E from, to \in Working : Local(t, from, to)
<1> USE DEF Working, Labels, AllocLabels, FreeLabels, LeaveLabels, QueryLabels, LockLabels,
            HeapLabels, StackLabels
<1>f. Fits(pc[t], arg[t], ret[t], pos[t])
  BY DEF TypeInv, ControlOK
<1>a. After(arg[t]) \in Working
  BY AfterLabel
<1>b. ASSUME NEW o \in BOOLEAN, arg[t] \in AllocCalls
      PROVE  AfterDoAlloc(arg[t], o) \in Working
  BY <1>a, <1>b, AfterDoAllocLabel
<1>1. CASE DoAlloc(t)
  <2> DEFINE to == IF arg[t].addr = Null THEN AfterDoAlloc(arg[t], FALSE) ELSE "put"
  <2>1. arg[t] \in AllocCalls
    BY <1>f, <1>1 DEF DoAlloc, CountStep, Step, Fits
  <2>2. to \in Working
    BY <1>b, <2>1
  <2>3. \E S : CountStep(t, "doAlloc", to, S)
    BY <1>1 DEF DoAlloc
  <2> HIDE DEF to
  <2> QED
    BY <2>2, <2>3, CountingLocal
<1>2. CASE AddrReuse(t)
  <2>1. arg[t] \in AllocCalls
    BY <1>f, <1>2 DEF AddrReuse, CountStep, Step, Fits
  <2>2. AfterDoAlloc(arg[t], TRUE) \in Working
    BY <1>b, <2>1
  <2> QED
    BY <1>2, <2>2, CountingLocal DEF AddrReuse
<1>3. CASE HeapCur(t) \/ HeapCount(t) \/ GlobalCount(t) \/ HeapThread(t) \/ StackThread(t)
  BY <1>3, CountingLocal DEF HeapCur, HeapCount, GlobalCount, HeapThread, StackThread
<1>4. CASE HeapType(t) \/ StackType(t) \/ GlobalType(t)
  <2>1. PICK from \in Working, to \in Working : \E m, id : TypeStep(t, from, to, m, id)
    BY <1>4, <1>a DEF HeapType, StackType, GlobalType
  <2> QED
    BY <2>1, CountingLocal
<1>5. CASE HeapLoad(t) \/ MaxLoad(t) \/ MaxDone(t) \/ MaxSwap(t) \/ MaxRetry(t)
  BY <1>5 DEF HeapLoad, MaxLoad, MaxDone, MaxSwap, MaxRetry, Local, mapVars, localVars
<1>6. CASE PushStack(t)
  <2>1. \A u \in Threads \ {t} : stackVars'[u] = stackVars[u]
    BY <1>6 DEF PushStack, TypeInv, TypeOK
  <2> QED
    BY <1>6, <2>1 DEF PushStack, Local, mapVars, localVars
<1> QED
  BY <1>1, <1>2, <1>3, <1>4, <1>5, <1>6

\* The recording of frees, the end of a scope, queries and _omp callbacks.
LEMMA RestLocal ==
  ASSUME TypeInv, NEW t \in Threads,
         \/ FreeNull(t) \/ FreeCount(t) \/ FreeThread(t) \/ FreeType(t) \/ DecHeap(t)
         \/ EraseStack(t) \/ DecStack(t) \/ UsedInRequest(t) \/ OmpCount(t)
  PROVE  \E from, to \in Working : Local(t, from, to)
<1> USE DEF Working, Labels, AllocLabels, FreeLabels, LeaveLabels, QueryLabels, LockLabels,
            HeapLabels, StackLabels
<1>a. After(arg[t]) \in Working
  BY AfterLabel
<1>1. CASE FreeNull(t) \/ DecHeap(t)
  BY <1>1, <1>a DEF FreeNull, DecHeap, Local, mapVars, localVars
<1>2. CASE FreeCount(t) \/ FreeThread(t) \/ FreeType(t) \/ OmpCount(t)
  BY <1>2, CountingLocal DEF FreeCount, FreeThread, FreeType, OmpCount
<1>3. CASE EraseStack(t)
  <2>1. \A u \in Threads \ {t} : stackVars'[u] = stackVars[u]
    BY <1>3 DEF EraseStack, TypeInv, TypeOK
  <2> QED
    BY <1>3, <2>1 DEF EraseStack, Local, mapVars, localVars
<1>4. CASE DecStack(t) \/ UsedInRequest(t)
  BY <1>4 DEF DecStack, UsedInRequest, Local, mapVars, localVars
<1> QED
  BY <1>1, <1>2, <1>3, <1>4

\* Neither the observed table nor an answer changes.
Unnoticed == Observed' = Observed /\ Answer' = Answer

\* A local step keeps the invariant.
LEMMA LocalStep ==
  ASSUME TableInv, NEW t \in Threads, NEW from \in Working, NEW to \in Working, Local(t, from, to)
  PROVE  LockOwner' /\ IdleSilent' /\ Unnoticed
<1>1. /\ pc[t] = from /\ pc'[t] = to /\ \A u \in Threads \ {t} : pc'[u] = pc[u]
      /\ from \notin LockLabels /\ to \notin LockLabels /\ to # "idle"
  BY DEF Local, Step, Working, TableInv, TypeInv, TypeOK
<1>2. UNCHANGED <<wrapper, alloc_m, arg, ret>>
  BY DEF Local
<1>3. LockOwner' /\ IdleSilent'
  BY <1>1, <1>2 DEF TableInv, LockOwner, IdleSilent
<1>4. Condemned' = Condemned
  BY <1>1, OutsideCondemned DEF Local
<1> QED
  BY <1>2, <1>3, <1>4 DEF Unnoticed, Observed, Answer

\* Entering a callback: there is no answer yet.
LEMMA CallUnnoticed ==
  ASSUME TableInv, NEW t \in Threads, CallStep(t)
  PROVE  LockOwner' /\ IdleSilent' /\ Unnoticed
<1>1. PICK label \in {"doAlloc", "doFree", "leave", "find"} : \E call : Enter(t, call, label)
  BY DEF CallStep, CallAlloc, CallFree, CallLeaveScope, CallQuery
<1>2. /\ pc[t] = "idle" /\ pc'[t] = label /\ \A u \in Threads \ {t} : pc'[u] = pc[u]
      /\ UNCHANGED <<wrapper, alloc_m, stackVars, ret, pos>>
      /\ \A u \in Threads \ {t} : arg'[u] = arg[u]
  BY <1>1 DEF Enter, Step, TableInv, TypeInv, TypeOK, mapVars, localVars
<1>3. pc[t] \notin LockLabels /\ label \notin LockLabels /\ label # "idle"
  BY <1>2 DEF LockLabels
<1>4. LockOwner' /\ IdleSilent'
  BY <1>2, <1>3 DEF TableInv, LockOwner, IdleSilent
<1>5. Condemned' = Condemned
  BY <1>2, <1>3, OutsideCondemned
<1>6. ret[t] = NoAnswer /\ ret'[t] = NoAnswer
  BY <1>2 DEF TableInv, IdleSilent
<1>7. Answer' = Answer
  <2>1. ASSUME NEW u \in Threads PROVE Answer'[u] = Answer[u]
    BY <1>2, <1>6 DEF Answer
  <2> QED
    BY <2>1 DEF Answer
<1> QED
  BY <1>2, <1>4, <1>5, <1>7 DEF Unnoticed, Observed

\* Inside remove_range an entry leaves the map that nobody could observe.
LEMMA RangeUnnoticed ==
  ASSUME TableInv, NEW t \in Threads,
         RangeRemove(t) \/ RangeSkip(t) \/ RangeThread(t) \/ RangeType(t)
  PROVE  LockOwner' /\ IdleSilent' /\ Unnoticed
<1> DEFINE a == stackVars[t][pos[t]]
<1>t. /\ stackVars[t] \in Seq(Addrs \cup {Null}) /\ pos[t] \in Nat /\ Len(stackVars[t]) \in Nat
      /\ wrapper \in Maps
  BY DEF TableInv, TypeInv, TypeOK
<1>1. PICK to \in LockLabels : Step(t, pc[t], to) /\ pc[t] \in LockLabels
  BY DEF RangeRemove, RangeSkip, RangeThread, RangeType, ThreadStep, TypeStep, Step, LockLabels
<1>2. pc'[t] = to /\ \A u \in Threads \ {t} : pc'[u] = pc[u]
  BY <1>1 DEF Step, TableInv, TypeInv, TypeOK
<1>3. UNCHANGED <<alloc_m, stackVars, arg>>
  BY DEF RangeRemove, RangeSkip, RangeThread, RangeType, ThreadStep, TypeStep, mapVars
<1>4. \A u \in Threads \ {t} : ret'[u] = ret[u] /\ pos'[u] = pos[u]
  BY DEF RangeRemove, RangeSkip, RangeThread, RangeType, ThreadStep, TypeStep, localVars,
         TableInv, TypeInv, TypeOK
<1>5. LockOwner' /\ IdleSilent'
  BY <1>1, <1>2, <1>3, <1>4 DEF TableInv, LockOwner, IdleSilent, LockLabels
<1>6. Fits(pc[t], arg[t], ret[t], pos[t]) /\ pos[t] >= 1
  BY <1>1 DEF TableInv, TypeInv, ControlOK, Fits
<1>7. arg[t].op = "leave"
  BY <1>1, <1>6 DEF Fits, LeaveLabels, LeaveCalls
<1>8. Answer' = Answer
  BY <1>3, <1>4, <1>7 DEF Answer
<1>9. CASE RangeRemove(t) \/ RangeSkip(t)
  <2>1. /\ pos[t] <= Len(stackVars[t]) /\ pos'[t] = pos[t] + 1
        /\ \A b \in Addrs \ {a} : wrapper'[b] = wrapper[b]
        /\ a \in Addrs => wrapper'[a] = NoEntry
    BY <1>9, <1>t, AddrsAssumption DEF Null, RangeRemove, RangeSkip, TableInv, TypeInv, TypeOK, MapRemove, Maps, mapVars
  <2>2. \A i : i \in pos[t]..Len(stackVars[t]) <=> i = pos[t] \/ i \in pos'[t]..Len(stackVars[t])
    BY <1>t, <2>1
  <2>3. \A b : b # a => (b \in Condemned' <=> b \in Condemned)
    BY <1>1, <1>2, <1>3, <1>4, <2>2, CondemnedMember
  <2>4. a \in Condemned
    BY <1>1, <2>2, CondemnedMember
  <2> HIDE DEF a
  <2>5. ASSUME NEW b \in Addrs PROVE Observed'[b] = Observed[b]
    BY <2>1, <2>3, <2>4 DEF Observed
  <2> QED
    BY <1>5, <1>8, <2>5 DEF Unnoticed, Observed
<1>10. CASE RangeThread(t) \/ RangeType(t)
  <2>1. UNCHANGED <<wrapper, pos>>
    BY <1>10 DEF RangeThread, RangeType, ThreadStep, TypeStep, mapVars, localVars
  <2>2. \A b : b \in Condemned' <=> b \in Condemned
    BY <1>1, <1>2, <1>3, <2>1, CondemnedMember
  <2> QED
    BY <1>5, <1>8, <2>1, <2>2 DEF Unnoticed, Observed
<1> QED
  BY <1>9, <1>10

\* The mutex is released when nothing is condemned any more.
LEMMA UnlockUnnoticed ==
  ASSUME TableInv, NEW t \in Threads, RangeUnlock(t)
  PROVE  LockOwner' /\ IdleSilent' /\ Unnoticed
<1>t. pos[t] \in Nat /\ Len(stackVars[t]) \in Nat
  BY DEF TableInv, TypeInv, TypeOK
<1>1. /\ pc[t] = "range" /\ pc'[t] = "erase" /\ \A u \in Threads \ {t} : pc'[u] = pc[u]
      /\ pos[t] > Len(stackVars[t]) /\ UNCHANGED <<wrapper, stackVars, arg, ret, pos>>
  BY DEF RangeUnlock, Step, TableInv, TypeInv, TypeOK, localVars
<1>2. \A u \in Threads \ {t} : pc[u] \notin LockLabels
  BY <1>1 DEF TableInv, LockOwner, LockLabels
<1>3. "erase" \notin LockLabels
  BY DEF LockLabels
<1>4. LockOwner' /\ IdleSilent'
  BY <1>1, <1>2, <1>3 DEF TableInv, LockOwner, IdleSilent
<1>5. pos[t]..Len(stackVars[t]) = {}
  BY <1>t, <1>1
<1>6. \A b : b \notin Condemned /\ b \notin Condemned'
  BY <1>1, <1>2, <1>3, <1>5, CondemnedMember
<1> QED
  BY <1>1, <1>4, <1>6 DEF Unnoticed, Observed, Answer

-----------------------------------------------------------------------------
(* Steps of the table.                                                     *)

\* Another thread's step under the mutex, which t holds for the step alone.
LEMMA UnlockedStep ==
  ASSUME TableInv, NEW t \in Threads, NEW from \in Working, NEW to \in Working, Step(t, from, to),
         alloc_m = NoThread, UNCHANGED <<alloc_m, stackVars, arg, pos>>,
         wrapper' \in Maps, \A u \in Threads \ {t} : ret'[u] = ret[u]
  PROVE  LockOwner' /\ IdleSilent' /\ Observed = wrapper /\ Observed' = wrapper'
<1>1. /\ pc[t] = from /\ pc'[t] = to /\ \A u \in Threads \ {t} : pc'[u] = pc[u]
      /\ from \notin LockLabels /\ to \notin LockLabels /\ to # "idle"
  BY DEF Step, Working, TableInv, TypeInv, TypeOK
<1>2. LockOwner' /\ IdleSilent'
  BY <1>1 DEF TableInv, LockOwner, IdleSilent
<1>3. Condemned = {} /\ Observed = wrapper
  BY UnlockedObserved
<1>4. Condemned' = {}
  BY <1>1, <1>3, OutsideCondemned
<1>5. Observed' = wrapper'
  BY <1>4 DEF Observed, Maps
<1> QED
  BY <1>2, <1>3, <1>5

\* put: the test of the old record's type id finds out whether there was one.
LEMMA PutStep ==
  ASSUME TableInv, TypeInv', NEW t \in Threads, WrapperPut(t)
  PROVE  LockOwner' /\ IdleSilent' /\ Table!TableNext
<1> USE DEF Working, Labels, AllocLabels, FreeLabels, LeaveLabels, QueryLabels, LockLabels,
            HeapLabels, StackLabels
<1> DEFINE a == arg[t].addr
           info == arg[t].info
           o == MapOverrides(wrapper, a)
           to == IF o THEN "reuse" ELSE AfterDoAlloc(arg[t], FALSE)
<1>1. pc[t] = "put" /\ arg[t] \in AllocCalls /\ a \in Addrs
  BY DEF TableInv, TypeInv, ControlOK, WrapperPut, Step, Fits
<1>2. info \in PointerInfo /\ arg[t].op # "leave"
  BY <1>1 DEF AllocCalls, AllocOps
<1>3. to \in Working
  BY <1>1, AfterDoAllocLabel, AfterLabel
<1>4. /\ Step(t, "put", to) /\ alloc_m = NoThread /\ UNCHANGED <<alloc_m, stackVars, arg, pos>>
      /\ wrapper' = [wrapper EXCEPT ![a] = info]
      /\ ret' = [ret EXCEPT ![t] = [op |-> "put", overridden |-> o]]
  BY DEF WrapperPut, MapPut, localVars
<1>5. o <=> a \in Table!Keys(wrapper)
  <2>1. wrapper[a] \in PointerInfo \cup {NoEntry}
    BY <1>1 DEF TableInv, TypeInv, TypeOK, Maps
  <2>2. wrapper[a] # NoEntry => wrapper[a].typeId \in Nat
    BY <2>1, TypeIdsAssumption DEF PointerInfo
  <2> QED
    BY <1>1, <2>2 DEF MapOverrides, Table!Keys
<1>6. o \in BOOLEAN /\ (a \in Table!Keys(wrapper)) \in BOOLEAN
  BY DEF MapOverrides
<1>7. o = (a \in Table!Keys(wrapper))
  BY <1>5, <1>6
<1> HIDE DEF to, o, info, a
<1>8. LockOwner' /\ IdleSilent' /\ Observed = wrapper /\ Observed' = wrapper'
  BY <1>3, <1>4, UnlockedStep DEF TypeInv, TypeOK, TableInv
<1>9. Answer' = [Answer EXCEPT ![t] = [op |-> "put", overridden |-> a \in Table!Keys(Observed)]]
  <2>1. ret'[t] = [op |-> "put", overridden |-> a \in Table!Keys(Observed)]
    BY <1>4, <1>7, <1>8 DEF TableInv, TypeInv, TypeOK
  <2> QED
    BY <1>2, <1>4, <2>1 DEF Answer, TableInv, TypeInv, TypeOK
<1>10. Table!Put(t, a, info)
  BY <1>4, <1>8, <1>9 DEF Table!Put, Table!Respond, Answer
<1>11. a \in Addrs /\ info \in Table!PointerInfo
  BY <1>1, <1>2 DEF a, info, PointerInfo, Table!PointerInfo
<1> QED
  BY <1>8, <1>10, <1>11 DEF Table!TableNext

\* remove: the record is taken out and returned under one lock.
LEMMA RemoveStep ==
  ASSUME TableInv, TypeInv', NEW t \in Threads, WrapperRemove(t)
  PROVE  LockOwner' /\ IdleSilent' /\ Table!TableNext
<1> USE DEF Working, Labels, AllocLabels, FreeLabels, LeaveLabels, QueryLabels, LockLabels,
            HeapLabels, StackLabels
<1> DEFINE a == arg[t].addr
           to == IF wrapper[a] = NoEntry THEN After(arg[t]) ELSE "freeCount"
<1>1. pc[t] = "doFree" /\ arg[t] \in FreeCalls
  BY DEF TableInv, TypeInv, ControlOK, WrapperRemove, Step, Fits
<1>2. a \in Addrs /\ arg[t].op # "leave"
  BY <1>1 DEF FreeCalls, WrapperRemove
<1>3. to \in Working
  BY AfterLabel
<1>4. /\ Step(t, "doFree", to) /\ alloc_m = NoThread /\ UNCHANGED <<alloc_m, stackVars, arg, pos>>
      /\ wrapper' = [wrapper EXCEPT ![a] = NoEntry]
      /\ ret' = [ret EXCEPT ![t] = [op |-> "remove", entry |-> wrapper[a]]]
  BY DEF WrapperRemove, MapRemove, localVars
<1> HIDE DEF to, a
<1>5. LockOwner' /\ IdleSilent' /\ Observed = wrapper /\ Observed' = wrapper'
  BY <1>3, <1>4, UnlockedStep DEF TypeInv, TypeOK, TableInv
<1>6. Answer' = [Answer EXCEPT ![t] = [op |-> "remove", entry |-> Observed[a]]]
  BY <1>2, <1>4, <1>5 DEF Answer, TableInv, TypeInv, TypeOK
<1>7. Table!Remove(t, a)
  BY <1>4, <1>5, <1>6 DEF Table!Remove, Table!Respond, Answer
<1> QED
  BY <1>2, <1>5, <1>7 DEF Table!TableNext

\* find: the search with lower_bound finds the base address.
LEMMA FindStep ==
  ASSUME TableInv, TypeInv', NEW t \in Threads, WrapperFind(t)
  PROVE  LockOwner' /\ IdleSilent' /\ Table!TableNext
<1> USE DEF Working, Labels, AllocLabels, FreeLabels, LeaveLabels, QueryLabels, LockLabels,
            HeapLabels, StackLabels
<1> DEFINE a == arg[t].addr
<1>1. pc[t] = "find" /\ arg[t] \in QueryCalls
  BY DEF TableInv, TypeInv, ControlOK, WrapperFind, Step, Fits
<1>2. a \in QueryAddrs /\ a \in Nat /\ arg[t].op # "leave"
  BY <1>1, QueryAddrsAssumption DEF QueryCalls
<1>3. /\ Step(t, "find", "used") /\ alloc_m = NoThread
      /\ UNCHANGED <<wrapper, alloc_m, stackVars, arg, pos>>
      /\ ret' = [ret EXCEPT ![t] = [op |-> "find", base |-> MapFind(wrapper, a)]]
  BY DEF WrapperFind, mapVars, localVars
<1>4. MapFind(wrapper, a) = Table!Floor(wrapper, a)
  <2>1. MapFind(wrapper, a) = Floor(wrapper, a)
    BY <1>2, MapFindIsFloor DEF TableInv, TypeInv, TypeOK
  <2> QED
    BY <2>1 DEF Floor, Table!Floor, Keys, Table!Keys, Greatest, Table!Greatest, Null, Table!Null
<1> HIDE DEF a
<1>5. LockOwner' /\ IdleSilent' /\ Observed = wrapper /\ Observed' = wrapper'
  BY <1>3, UnlockedStep DEF TypeInv, TypeOK, TableInv
<1>6. Answer' = [Answer EXCEPT ![t] = [op |-> "find", base |-> Table!Floor(Observed, a)]]
  <2>1. ret'[t] = [op |-> "find", base |-> Table!Floor(Observed, a)]
    BY <1>3, <1>4, <1>5 DEF TableInv, TypeInv, TypeOK
  <2> QED
    BY <1>2, <1>3, <2>1 DEF Answer, TableInv, TypeInv, TypeOK
<1>7. Table!Find(t, a)
  BY <1>3, <1>5, <1>6 DEF Table!Find, Table!Respond, Answer
<1> QED
  BY <1>2, <1>5, <1>7 DEF Table!TableNext

\* Locking the map for remove_range is the step at which the scope disappears.
LEMMA LeaveLockStep ==
  ASSUME TableInv, TypeInv', NEW t \in Threads, LeaveLock(t)
  PROVE  LockOwner' /\ IdleSilent' /\ Table!TableNext
<1>1. /\ pc[t] = "leave" /\ pc'[t] = "range" /\ \A u \in Threads \ {t} : pc'[u] = pc[u]
      /\ alloc_m = NoThread /\ alloc_m' = t /\ UNCHANGED <<wrapper, stackVars, ret>>
  BY DEF LeaveLock, Step, TableInv, TypeInv, TypeOK
<1>2. arg[t] \in LeaveCalls
  BY <1>1 DEF TableInv, TypeInv, ControlOK, Fits, LeaveLabels
<1>3. arg[t].op = "leave" /\ arg'[t].op = "leave" /\ \A u \in Threads \ {t} : arg'[u] = arg[u]
  <2> DEFINE n == IF arg[t].n > Len(stackVars[t]) THEN Len(stackVars[t]) ELSE arg[t].n
  <2>1. arg' = [arg EXCEPT ![t] = [arg[t] EXCEPT !.n = n]]
    BY Zenon DEF LeaveLock
  <2> HIDE DEF n
  <2> QED
    BY <1>2, <2>1 DEF LeaveCalls, TableInv, TypeInv, TypeOK
<1>4. \A u \in Threads : pc[u] \notin LockLabels
  BY <1>1, ThreadsAssumption DEF TableInv, LockOwner
<1>5. LockOwner' /\ IdleSilent'
  BY <1>1, <1>4 DEF TableInv, LockOwner, IdleSilent
<1>6. Observed = wrapper
  BY <1>1, UnlockedObserved
<1>7. Answer' = Answer
  <2>1. ASSUME NEW u \in Threads PROVE Answer'[u] = Answer[u]
    BY <1>1, <1>3 DEF Answer
  <2> QED
    BY <2>1 DEF Answer
<1> DEFINE S == Condemned' \cap Addrs
<1>8. Observed' = [a \in Addrs |-> IF a \in S THEN NoEntry ELSE Observed[a]]
  BY <1>1, <1>6 DEF Observed
<1> HIDE DEF S
<1>9. Table!RemoveRange(S)
  BY <1>7, <1>8 DEF Table!RemoveRange, Answer
<1>10. S \in SUBSET Addrs
  BY DEF S
<1> QED
  BY <1>5, <1>9, <1>10 DEF Table!TableNext

\* Returning to the program forgets the answer.
LEMMA ReturnStep ==
  ASSUME TableInv, TypeInv', NEW t \in Threads, Return(t)
  PROVE  LockOwner' /\ IdleSilent' /\ Table!TableNext
<1>1. /\ pc[t] = "return" /\ pc'[t] = "idle" /\ \A u \in Threads \ {t} : pc'[u] = pc[u]
      /\ UNCHANGED <<wrapper, alloc_m, stackVars>>
      /\ ret'[t] = NoAnswer /\ arg'[t] = NoCall
      /\ \A u \in Threads \ {t} : ret'[u] = ret[u] /\ arg'[u] = arg[u] /\ pos'[u] = pos[u]
  BY DEF Return, Step, TableInv, TypeInv, TypeOK, mapVars
<1>2. "return" \notin LockLabels /\ "idle" \notin LockLabels
  BY DEF LockLabels
<1>3. LockOwner' /\ IdleSilent'
  BY <1>1, <1>2 DEF TableInv, LockOwner, IdleSilent
<1>4. Condemned' = Condemned
  BY <1>1, <1>2, OutsideCondemned
<1>5. Observed' = Observed
  BY <1>1, <1>4 DEF Observed
<1>6. Answer' = [Answer EXCEPT ![t] = NoAnswer]
  BY <1>1 DEF Answer, NoCall, Call
<1>7. Table!Forget(t)
  BY <1>5, <1>6 DEF Table!Forget, Table!Respond, Answer
<1> QED
  BY <1>3, <1>7 DEF Table!TableNext

-----------------------------------------------------------------------------
(* The theorems.                                                           *)

\* Nobody is inside the runtime.
LEMMA TableInvInit == Init => TableInv
<1>1. Init => LockOwner /\ IdleSilent
  BY DEF Init, LockOwner, IdleSilent, LockLabels
<1> QED
  BY <1>1, InitType DEF TableInv

\* Every step of the tracker is a step of the table or leaves it alone.
LEMMA TableInvNext ==
  TableInv /\ [Next]_vars => TableInv' /\ [Table!TableNext]_(Table!tableVars)
<1> SUFFICES ASSUME TableInv, [Next]_vars
             PROVE  TableInv' /\ [Table!TableNext]_(Table!tableVars)
  OBVIOUS
<1>t. TypeInv'
  BY NextType DEF TableInv
<1>u. Unnoticed => UNCHANGED Table!tableVars
  BY DEF Unnoticed, Answer, Table!tableVars
<1>1. ASSUME NEW t \in Threads, CallStep(t) \/ RuntimeStep(t)
      PROVE  LockOwner' /\ IdleSilent' /\ (Table!TableNext \/ Unnoticed)
  <2>1. CASE \E from, to \in Working : Local(t, from, to)
    BY <2>1, LocalStep
  <2>2. CASE CallStep(t)
    BY <2>2, CallUnnoticed
  <2>3. CASE AllocStep(t)
    BY <2>1, <2>3, <1>t, AllocLocal, PutStep DEF AllocStep, TableInv
  <2>4. CASE FreeStep(t)
    BY <2>1, <2>4, <1>t, RestLocal, RemoveStep DEF FreeStep, TableInv
  <2>5. CASE LeaveStep(t)
    BY <2>1, <2>5, <1>t, RestLocal, LeaveLockStep, RangeUnnoticed, UnlockUnnoticed
    DEF LeaveStep, TableInv
  <2>6. CASE QueryStep(t)
    BY <2>1, <2>6, <1>t, RestLocal, FindStep DEF QueryStep, TableInv
  <2>7. CASE OmpCount(t) \/ Return(t)
    BY <2>1, <2>7, <1>t, RestLocal, ReturnStep DEF TableInv
  <2> QED
    BY <1>1, <2>2, <2>3, <2>4, <2>5, <2>6, <2>7 DEF RuntimeStep
<1>2. CASE UNCHANGED vars
  <2>1. LockOwner' /\ IdleSilent' /\ Unnoticed
    BY <1>2 DEF vars, TableInv, LockOwner, IdleSilent, Unnoticed, Observed, Condemned, Answer
  <2> QED
    BY <1>t, <1>u, <2>1 DEF TableInv
<1>3. CASE \E t \in Threads : CallStep(t) \/ RuntimeStep(t)
  BY <1>t, <1>u, <1>1, <1>3 DEF TableInv
<1> QED
  BY <1>2, <1>3 DEF Next, Terminated

\* A thread inside remove_range has the map's mutex for itself, and a thread
\* outside of the runtime has no answer.
THEOREM TableInvariant == Spec => []TableInv
  BY TableInvInit, TableInvNext, PTL DEF Spec

\* The locked map implements the atomic table: whatever the threads do, no put,
\* remove or find sees a scope that is only partly removed, and every answer is
\* the one the atomic table gives.
THEOREM MapImplementsTable == Spec => TableRefinement
  BY MappedInit, TableInvInit, TableInvNext, PTL DEF Spec, TableRefinement, Table!TableSpec

-----------------------------------------------------------------------------
(* The recorder's figures: the balance of curHeapAllocs, heapAllocs and    *)
(* heapAllocsFree, the lock-free maximum, and the stack counters of each   *)
(* thread against its stackVars.                                           *)

\* Allocations counted in curHeapAllocs and not yet in heapAllocs, and frees
\* counted in heapAllocsFree and not yet in curHeapAllocs.
AllocFlight == {"heapLoad", "maxLoad", "cas", "heapCount"}
FreeFlight  == {"freeThread", "freeType", "decHeap"}
Flight      == AllocFlight \cup FreeFlight

\* 1 or 0: whether label l is in L; and the threads whose label is.
Flag(l, L) == IF l \in L THEN 1 ELSE 0
At(L) == {u \in Threads : pc[u] \in L}

\* The balance holds in every state once the callbacks in flight are counted.
HeapFlow ==
  cnt["curHeapAllocs"] =
      cnt["heapAllocs"] + Cardinality(At(AllocFlight))
    - cnt["heapAllocsFree"] + Cardinality(At(FreeFlight))

\* updateMax never holds a maximum from the future, and a maximum below the
\* current value is about to be raised by a thread inside updateMax.
MaxFlow ==
  /\ \A t \in Threads : pc[t] = "cas" => prevMax[t] <= cnt["maxHeapAllocs"]
  /\ \/ cnt["curHeapAllocs"] <= cnt["maxHeapAllocs"]
     \/ \E t \in Threads :
          \/ pc[t] = "heapLoad"
          \/ pc[t] \in {"maxLoad", "cas"} /\ newVal[t] >= cnt["curHeapAllocs"]

HeapInv == TypeInv /\ HeapFlow /\ MaxFlow

-----------------------------------------------------------------------------
(* What a step does to the heap counters.                                  *)

\* t moves from one label to another and the counters change by c, a and f.
HeapMove(t, from, to, c, a, f) ==
  /\ pc[t] = from
  /\ pc' = [pc EXCEPT ![t] = to]
  /\ cnt'["curHeapAllocs"] = cnt["curHeapAllocs"] + c
  /\ cnt'["heapAllocs"] = cnt["heapAllocs"] + a
  /\ cnt'["heapAllocsFree"] = cnt["heapAllocsFree"] + f

\* The maximum and the locals of updateMax do not change, except for the locals
\* of a thread outside of it.
MaxFrame(t) ==
  /\ cnt'["maxHeapAllocs"] = cnt["maxHeapAllocs"]
  /\ \A u \in Threads \ {t} : newVal'[u] = newVal[u] /\ prevMax'[u] = prevMax[u]

\* A step that no heap counter notices.
Quiet(t) ==
  /\ \E from, to \in Labels \ Flight : HeapMove(t, from, to, 0, 0, 0)
  /\ MaxFrame(t)

\* The four heap counters are integers.
LEMMA HeapCountersType ==
  ASSUME TypeInv
  PROVE  /\ cnt["curHeapAllocs"] \in Int
         /\ cnt["maxHeapAllocs"] \in Int
         /\ cnt["heapAllocs"] \in Int
         /\ cnt["heapAllocsFree"] \in Int
  BY DEF TypeInv, TypeOK, Counters

\* A step between labels out of flight that leaves cnt alone.
LEMMA QuietMove ==
  ASSUME TypeInv, NEW t \in Threads,
         NEW from \in Labels \ Flight, NEW to \in Labels \ Flight, Step(t, from, to),
         cnt' = cnt,
         \A u \in Threads \ {t} : newVal'[u] = newVal[u] /\ prevMax'[u] = prevMax[u]
  PROVE  Quiet(t)
<1>1. HeapMove(t, from, to, 0, 0, 0)
  BY HeapCountersType DEF HeapMove, Step
<1> QED
  BY <1>1 DEF Quiet, MaxFrame

\* ... or that counts in counters without a balance.
LEMMA QuietCount ==
  ASSUME TypeInv, NEW t \in Threads,
         NEW from \in Labels \ Flight, NEW to \in Labels \ Flight, NEW S,
         CountStep(t, from, to, S),
         {"curHeapAllocs", "maxHeapAllocs", "heapAllocs", "heapAllocsFree"} \cap S = {}
  PROVE  Quiet(t)
<1>1. \A k \in {"curHeapAllocs", "maxHeapAllocs", "heapAllocs", "heapAllocsFree"} : cnt'[k] = cnt[k]
  BY DEF CountStep, Counters
<1>2. HeapMove(t, from, to, 0, 0, 0)
  BY <1>1, HeapCountersType DEF HeapMove, CountStep, Step
<1> QED
  BY <1>1, <1>2 DEF Quiet, MaxFrame, CountStep, localVars

\* The steps of an allocation callback that leave the heap counters alone.
LEMMA QuietAlloc ==
  ASSUME TypeInv, NEW t \in Threads,
         \/ DoAlloc(t) \/ WrapperPut(t) \/ AddrReuse(t) \/ HeapThread(t) \/ HeapType(t)
         \/ PushStack(t) \/ StackThread(t) \/ StackType(t) \/ GlobalCount(t) \/ GlobalType(t)
  PROVE  Quiet(t)
<1> USE DEF Labels, AllocLabels, FreeLabels, LeaveLabels, QueryLabels, LockLabels, HeapLabels,
            StackLabels, Flight, AllocFlight, FreeFlight
<1>f. Fits(pc[t], arg[t], ret[t], pos[t])
  BY DEF TypeInv, ControlOK
<1>a. After(arg[t]) \in Labels \ Flight
  BY AfterLabel
<1>b. ASSUME NEW o \in BOOLEAN, arg[t] \in AllocCalls
      PROVE  AfterDoAlloc(arg[t], o) \in Labels \ Flight
  BY <1>a, <1>b, AfterDoAllocLabel
<1>1. CASE DoAlloc(t)
  <2>1. arg[t] \in AllocCalls
    BY <1>f, <1>1 DEF DoAlloc, CountStep, Step, Fits
  <2> DEFINE to == IF arg[t].addr = Null THEN AfterDoAlloc(arg[t], FALSE) ELSE "put"
             S == IF arg[t].info.count = 0
                  THEN {"zeroAlloc"} \cup (IF arg[t].addr = Null THEN {"nullAndZeroAlloc"} ELSE {})
                  ELSE IF arg[t].addr = Null THEN {"nullAlloc"} ELSE {}
  <2>2. to \in Labels \ Flight
    BY <1>b, <2>1
  <2>3. {"curHeapAllocs", "maxHeapAllocs", "heapAllocs", "heapAllocsFree"} \cap S = {}
    OBVIOUS
  <2>4. CountStep(t, "doAlloc", to, S)
    BY <1>1 DEF DoAlloc
  <2> QED
    BY <2>2, <2>3, <2>4, QuietCount
<1>2. CASE WrapperPut(t)
  <2>1. arg[t] \in AllocCalls
    BY <1>f, <1>2 DEF WrapperPut, Step, Fits
  <2>2. PICK to \in Labels \ Flight : Step(t, "put", to)
    BY <1>2, <1>b, <2>1 DEF WrapperPut
  <2>3. cnt' = cnt /\ newVal' = newVal /\ prevMax' = prevMax
    BY <1>2 DEF WrapperPut, recVars, localVars
  <2> QED
    BY <2>2, <2>3, QuietMove
<1>3. CASE AddrReuse(t)
  <2>1. arg[t] \in AllocCalls
    BY <1>f, <1>3 DEF AddrReuse, CountStep, Step, Fits
  <2>2. AfterDoAlloc(arg[t], TRUE) \in Labels \ Flight
    BY <1>b, <2>1
  <2> QED
    BY <1>3, <2>2, QuietCount DEF AddrReuse
<1>4. CASE HeapThread(t) \/ StackThread(t)
  <2>1. PICK from \in Labels \ Flight, to \in Labels \ Flight : Step(t, from, to)
    BY <1>4 DEF HeapThread, StackThread, ThreadStep
  <2>2. cnt' = cnt /\ newVal' = newVal /\ prevMax' = prevMax
    BY <1>4 DEF HeapThread, StackThread, ThreadStep, localVars
  <2> QED
    BY <2>1, <2>2, QuietMove
<1>5. CASE HeapType(t) \/ StackType(t) \/ GlobalType(t)
  <2>1. PICK from \in Labels \ Flight, to \in Labels \ Flight : Step(t, from, to)
    BY <1>5, <1>a DEF HeapType, StackType, GlobalType, TypeStep
  <2>2. cnt' = cnt /\ newVal' = newVal /\ prevMax' = prevMax
    BY <1>5 DEF HeapType, StackType, GlobalType, TypeStep, localVars
  <2> QED
    BY <2>1, <2>2, QuietMove
<1>6. CASE PushStack(t)
  <2>1. Step(t, "push", "stackThread") /\ cnt' = cnt /\ newVal' = newVal /\ prevMax' = prevMax
    BY <1>6 DEF PushStack, recVars, localVars
  <2> QED
    BY <2>1, QuietMove
<1>7. CASE GlobalCount(t)
  <2> DEFINE S == WithArray(arg[t].info, {"globalAllocs"}, {"globalArray"})
  <2>1. {"curHeapAllocs", "maxHeapAllocs", "heapAllocs", "heapAllocsFree"} \cap S = {}
    BY DEF WithArray
  <2>2. CountStep(t, "global", "globalType", S)
    BY <1>7 DEF GlobalCount
  <2> QED
    BY <2>1, <2>2, QuietCount
<1> QED
  BY <1>1, <1>2, <1>3, <1>4, <1>5, <1>6, <1>7

\* The same for all other callbacks.
LEMMA QuietRest ==
  ASSUME TypeInv, NEW t \in Threads,
         \/ CallStep(t) \/ FreeNull(t) \/ WrapperRemove(t) \/ LeaveStep(t) \/ QueryStep(t)
         \/ OmpCount(t) \/ Return(t)
  PROVE  Quiet(t)
<1> USE DEF Labels, AllocLabels, FreeLabels, LeaveLabels, QueryLabels, LockLabels, HeapLabels,
            StackLabels, Flight, AllocFlight, FreeFlight
<1>f. Fits(pc[t], arg[t], ret[t], pos[t])
  BY DEF TypeInv, ControlOK
<1>a. After(arg[t]) \in Labels \ Flight
  BY AfterLabel
<1>1. CASE CallStep(t)
  <2>1. PICK label \in {"doAlloc", "doFree", "leave", "find"} : Step(t, "idle", label)
    BY <1>1 DEF CallStep, CallAlloc, CallFree, CallLeaveScope, CallQuery, Enter
  <2>2. cnt' = cnt /\ newVal' = newVal /\ prevMax' = prevMax
    BY <1>1 DEF CallStep, CallAlloc, CallFree, CallLeaveScope, CallQuery, Enter, recVars, localVars
  <2> QED
    BY <2>1, <2>2, QuietMove
<1>2. CASE FreeNull(t) \/ WrapperRemove(t)
  <2>1. PICK to \in Labels \ Flight : Step(t, "doFree", to)
    BY <1>2, <1>a DEF FreeNull, WrapperRemove
  <2>2. cnt' = cnt /\ newVal' = newVal /\ prevMax' = prevMax
    BY <1>2 DEF FreeNull, WrapperRemove, recVars, localVars
  <2> QED
    BY <2>1, <2>2, QuietMove
<1>3. CASE LeaveStep(t)
  <2>1. PICK from \in Labels \ Flight, to \in Labels \ Flight : Step(t, from, to)
    BY <1>3 DEF LeaveStep, LeaveLock, RangeRemove, RangeSkip, RangeThread, RangeType, RangeUnlock,
                EraseStack, DecStack, ThreadStep, TypeStep
  <2>2. cnt' = cnt /\ newVal' = newVal /\ prevMax' = prevMax
    BY <1>3 DEF LeaveStep, LeaveLock, RangeRemove, RangeSkip, RangeThread, RangeType, RangeUnlock,
                EraseStack, DecStack, ThreadStep, TypeStep, recVars, localVars
  <2> QED
    BY <2>1, <2>2, QuietMove
<1>4. CASE WrapperFind(t)
  <2>1. Step(t, "find", "used") /\ cnt' = cnt /\ newVal' = newVal /\ prevMax' = prevMax
    BY <1>4 DEF WrapperFind, recVars, localVars
  <2> QED
    BY <2>1, QuietMove
<1>5. CASE UsedInRequest(t)
  <2>1. \A k \in {"curHeapAllocs", "maxHeapAllocs", "heapAllocs", "heapAllocsFree"} : cnt'[k] = cnt[k]
    BY <1>5 DEF UsedInRequest, TypeInv, TypeOK, Counters
  <2>2. HeapMove(t, "used", "return", 0, 0, 0)
    BY <1>5, <2>1, HeapCountersType DEF HeapMove, UsedInRequest, Step
  <2> QED
    BY <1>5, <2>1, <2>2 DEF Quiet, MaxFrame, UsedInRequest, localVars
<1>6. CASE OmpCount(t)
  <2>1. arg[t].op \in {"heap", "stack", "free"}
    BY <1>f, <1>6 DEF OmpCount, CountStep, Step, Fits
  <2>2. OmpCounter[arg[t].op] \in {"omp_heap", "omp_stack", "omp_heap_free"}
    BY <2>1 DEF OmpCounter
  <2>3. {"curHeapAllocs", "maxHeapAllocs", "heapAllocs", "heapAllocsFree"} \cap {OmpCounter[arg[t].op]} = {}
    BY <2>2
  <2> QED
    BY <1>6, <2>3, QuietCount DEF OmpCount
<1>7. CASE Return(t)
  <2>1. Step(t, "return", "idle") /\ cnt' = cnt
    BY <1>7 DEF Return, recVars
  <2>2. \A u \in Threads \ {t} : newVal'[u] = newVal[u] /\ prevMax'[u] = prevMax[u]
    BY <1>7 DEF Return, TypeInv, TypeOK
  <2> QED
    BY <2>1, <2>2, QuietMove
<1> QED
  BY <1>1, <1>2, <1>3, <1>4, <1>5, <1>6, <1>7 DEF QueryStep

-----------------------------------------------------------------------------
(* The balance.                                                            *)

\* How the number of threads at labels L changes when t moves.
LEMMA MoveCount ==
  ASSUME TypeInv, NEW t \in Threads, NEW to, NEW L, pc' = [pc EXCEPT ![t] = to]
  PROVE  /\ Cardinality(At(L)) \in Nat
         /\ Cardinality(At(L))' = Cardinality(At(L)) + Flag(to, L)
                                                    - Flag(pc[t], L)
<1> DEFINE rest == At(L) \ {t}
<1>1. IsFiniteSet(At(L)) /\ IsFiniteSet(rest)
  BY ThreadsAssumption, FS_Subset DEF At
<1>2. /\ Cardinality(At(L)) \in Nat
      /\ Cardinality(rest) = IF pc[t] \in L THEN Cardinality(At(L)) - 1 ELSE Cardinality(At(L))
  BY <1>1, FS_RemoveElement, FS_CardinalityType DEF At
<1>3. At(L)' = IF to \in L THEN rest \cup {t} ELSE rest
  BY DEF At, TypeInv, TypeOK
<1>4. Cardinality(rest \cup {t}) = Cardinality(rest) + 1
  BY <1>1, FS_AddElement
<1>5. Cardinality(At(L))' = Cardinality(At(L)')
  OBVIOUS
<1> HIDE DEF rest
<1> QED
  BY <1>2, <1>3, <1>4, <1>5 DEF Flag

\* A move that changes the counters by as much as the number of callbacks in
\* flight keeps the balance.
LEMMA FlowMove ==
  ASSUME TypeInv, HeapFlow, NEW t \in Threads, NEW from \in Labels, NEW to \in Labels,
         NEW c \in Int, NEW a \in Int, NEW f \in Int, HeapMove(t, from, to, c, a, f),
         c = a + Flag(to, AllocFlight) - Flag(from, AllocFlight)
             - f + Flag(to, FreeFlight) - Flag(from, FreeFlight)
  PROVE  HeapFlow'
<1>1. /\ Cardinality(At(AllocFlight)) \in Nat
      /\ Cardinality(At(AllocFlight))' = Cardinality(At(AllocFlight))
             + Flag(to, AllocFlight) - Flag(from, AllocFlight)
  BY MoveCount DEF HeapMove
<1>2. /\ Cardinality(At(FreeFlight)) \in Nat
      /\ Cardinality(At(FreeFlight))' = Cardinality(At(FreeFlight))
             + Flag(to, FreeFlight) - Flag(from, FreeFlight)
  BY MoveCount DEF HeapMove
<1>3. /\ Flag(to, AllocFlight) \in Int /\ Flag(from, AllocFlight) \in Int
      /\ Flag(to, FreeFlight) \in Int /\ Flag(from, FreeFlight) \in Int
  BY DEF Flag
<1>4. /\ cnt'["curHeapAllocs"] = cnt["curHeapAllocs"] + c
      /\ cnt'["heapAllocs"] = cnt["heapAllocs"] + a
      /\ cnt'["heapAllocsFree"] = cnt["heapAllocsFree"] + f
  BY DEF HeapMove
<1> QED
  BY <1>1, <1>2, <1>3, <1>4, HeapCountersType DEF HeapFlow

\* The steps that do touch the heap counters, by their effect on them.
LEMMA HeapSteps ==
  ASSUME TypeInv, NEW t \in Threads
  PROVE  /\ HeapCur(t)    => HeapMove(t, "heapCur", "heapLoad", 1, 0, 0) /\ MaxFrame(t)
         /\ HeapLoad(t)   => HeapMove(t, "heapLoad", "maxLoad", 0, 0, 0)
         /\ MaxLoad(t)    => HeapMove(t, "maxLoad", "cas", 0, 0, 0)
         /\ MaxDone(t)    => HeapMove(t, "cas", "heapCount", 0, 0, 0)
         /\ MaxSwap(t)    => HeapMove(t, "cas", "heapCount", 0, 0, 0)
         /\ MaxRetry(t)   => HeapMove(t, "cas", "cas", 0, 0, 0)
         /\ HeapCount(t)  => HeapMove(t, "heapCount", "heapThread", 0, 1, 0) /\ MaxFrame(t)
         /\ FreeCount(t)  => HeapMove(t, "freeCount", "freeThread", 0, 0, 1) /\ MaxFrame(t)
         /\ FreeThread(t) => HeapMove(t, "freeThread", "freeType", 0, 0, 0) /\ MaxFrame(t)
         /\ FreeType(t)   => HeapMove(t, "freeType", "decHeap", 0, 0, 0) /\ MaxFrame(t)
         /\ DecHeap(t)    => HeapMove(t, "decHeap", After(arg[t]), -1, 0, 0) /\ MaxFrame(t)
<1> USE HeapCountersType
<1>1. HeapCur(t) => HeapMove(t, "heapCur", "heapLoad", 1, 0, 0) /\ MaxFrame(t)
  BY DEF HeapCur, CountStep, Step, HeapMove, MaxFrame, Counters, localVars
<1>2. HeapCount(t) => HeapMove(t, "heapCount", "heapThread", 0, 1, 0) /\ MaxFrame(t)
  BY DEF HeapCount, CountStep, Step, HeapMove, MaxFrame, Counters, localVars, WithArray
<1>3. FreeCount(t) => HeapMove(t, "freeCount", "freeThread", 0, 0, 1) /\ MaxFrame(t)
  BY DEF FreeCount, CountStep, Step, HeapMove, MaxFrame, Counters, localVars, WithArray
<1>4. /\ FreeThread(t) => HeapMove(t, "freeThread", "freeType", 0, 0, 0) /\ MaxFrame(t)
      /\ FreeType(t)   => HeapMove(t, "freeType", "decHeap", 0, 0, 0) /\ MaxFrame(t)
  BY DEF FreeThread, FreeType, ThreadStep, TypeStep, Step, HeapMove, MaxFrame, localVars
<1>5. DecHeap(t) => HeapMove(t, "decHeap", After(arg[t]), -1, 0, 0) /\ MaxFrame(t)
  <2> SUFFICES ASSUME DecHeap(t) PROVE HeapMove(t, "decHeap", After(arg[t]), -1, 0, 0) /\ MaxFrame(t)
    OBVIOUS
  <2>1. /\ cnt'["curHeapAllocs"] = cnt["curHeapAllocs"] - 1
        /\ \A k \in {"maxHeapAllocs", "heapAllocs", "heapAllocsFree"} : cnt'[k] = cnt[k]
    BY DEF DecHeap, TypeInv, TypeOK, Counters
  <2> QED
    BY <2>1 DEF DecHeap, Step, HeapMove, MaxFrame, localVars
<1>6. /\ HeapLoad(t) => HeapMove(t, "heapLoad", "maxLoad", 0, 0, 0)
      /\ MaxLoad(t)  => HeapMove(t, "maxLoad", "cas", 0, 0, 0)
      /\ MaxDone(t)  => HeapMove(t, "cas", "heapCount", 0, 0, 0)
      /\ MaxRetry(t) => HeapMove(t, "cas", "cas", 0, 0, 0)
  BY DEF HeapLoad, MaxLoad, MaxDone, MaxRetry, Step, HeapMove, recVars
<1>7. MaxSwap(t) => HeapMove(t, "cas", "heapCount", 0, 0, 0)
  <2> SUFFICES ASSUME MaxSwap(t) PROVE HeapMove(t, "cas", "heapCount", 0, 0, 0)
    OBVIOUS
  <2>1. \A k \in {"curHeapAllocs", "heapAllocs", "heapAllocsFree"} : cnt'[k] = cnt[k]
    BY DEF MaxSwap, TypeInv, TypeOK, Counters
  <2> QED
    BY <2>1 DEF MaxSwap, Step, HeapMove
<1> QED
  BY <1>1, <1>2, <1>3, <1>4, <1>5, <1>6, <1>7

\* Every step of every callback keeps the balance.
LEMMA FlowStep ==
  ASSUME TypeInv, HeapFlow, NEW t \in Threads, CallStep(t) \/ RuntimeStep(t)
  PROVE  HeapFlow'
<1> USE DEF Labels, AllocLabels, FreeLabels, LeaveLabels, QueryLabels, LockLabels, HeapLabels,
            StackLabels, Flight, AllocFlight, FreeFlight
<1>1. CASE Quiet(t)
  <2>1. PICK from, to \in Labels \ Flight : HeapMove(t, from, to, 0, 0, 0)
    BY <1>1 DEF Quiet
  <2>2. from \in Labels /\ to \in Labels /\ Flag(from, AllocFlight) = Flag(to, AllocFlight)
        /\ Flag(from, FreeFlight) = Flag(to, FreeFlight) /\ Flag(to, AllocFlight) \in {0, 1}
        /\ Flag(to, FreeFlight) \in {0, 1}
    BY DEF Flag
  <2> HIDE DEF Labels, AllocFlight, FreeFlight
  <2> QED
    BY <2>1, <2>2, FlowMove
<1>2. CASE HeapCur(t)
  BY <1>2, HeapSteps, FlowMove DEF Flag
<1>3. CASE HeapLoad(t) \/ MaxLoad(t) \/ MaxDone(t) \/ MaxSwap(t) \/ MaxRetry(t)
  <2>1. PICK from, to \in AllocFlight : HeapMove(t, from, to, 0, 0, 0)
    BY <1>3, HeapSteps
  <2>2. from \in Labels /\ to \in Labels /\ Flag(from, AllocFlight) = Flag(to, AllocFlight)
        /\ Flag(from, FreeFlight) = Flag(to, FreeFlight) /\ Flag(to, AllocFlight) \in {0, 1}
        /\ Flag(to, FreeFlight) \in {0, 1}
    BY DEF Flag
  <2> HIDE DEF Labels, AllocFlight, FreeFlight
  <2> QED
    BY <2>1, <2>2, FlowMove
<1>4. CASE HeapCount(t)
  BY <1>4, HeapSteps, FlowMove DEF Flag
<1>5. CASE FreeCount(t)
  BY <1>5, HeapSteps, FlowMove DEF Flag
<1>6. CASE FreeThread(t) \/ FreeType(t)
  <2>1. PICK from, to \in FreeFlight : HeapMove(t, from, to, 0, 0, 0)
    BY <1>6, HeapSteps
  <2>2. from \in Labels /\ to \in Labels /\ Flag(from, AllocFlight) = Flag(to, AllocFlight)
        /\ Flag(from, FreeFlight) = Flag(to, FreeFlight) /\ Flag(to, AllocFlight) \in {0, 1}
        /\ Flag(to, FreeFlight) \in {0, 1}
    BY DEF Flag
  <2> HIDE DEF Labels, AllocFlight, FreeFlight
  <2> QED
    BY <2>1, <2>2, FlowMove
<1>7. CASE DecHeap(t)
  <2>1. PICK to \in {"omp", "return"} : HeapMove(t, "decHeap", to, -1, 0, 0)
    BY <1>7, HeapSteps, AfterLabel
  <2>2. /\ "decHeap" \in Labels /\ to \in Labels
        /\ Flag("decHeap", AllocFlight) = 0 /\ Flag(to, AllocFlight) = 0
        /\ Flag("decHeap", FreeFlight) = 1 /\ Flag(to, FreeFlight) = 0
    BY DEF Flag
  <2> HIDE DEF Labels, AllocFlight, FreeFlight
  <2> QED
    BY <2>1, <2>2, FlowMove
<1> QED
  BY <1>1, <1>2, <1>3, <1>4, <1>5, <1>6, <1>7, QuietAlloc, QuietRest
  DEF RuntimeStep, AllocStep, FreeStep

-----------------------------------------------------------------------------
(* The maximum.                                                            *)

\* Every step keeps the maximum covered by itself or by a thread in updateMax,
\* and none lowers it.
LEMMA MaxStep ==
  ASSUME TypeInv, MaxFlow, NEW t \in Threads, CallStep(t) \/ RuntimeStep(t)
  PROVE  MaxFlow' /\ cnt'["maxHeapAllocs"] >= cnt["maxHeapAllocs"]
<1> DEFINE cur == cnt["curHeapAllocs"]
           max == cnt["maxHeapAllocs"]
           cur1 == cnt'["curHeapAllocs"]
           max1 == cnt'["maxHeapAllocs"]
<1>t. /\ cur \in Int /\ max \in Int
      /\ \A u \in Threads : newVal[u] \in Int /\ prevMax[u] \in Int
      /\ pc \in [Threads -> Labels]
  BY HeapCountersType DEF TypeInv, TypeOK
\* The current value does not grow and the witness, if any, stays where it is.
<1>1. ASSUME MaxFrame(t), NEW from, NEW to, NEW c \in Int, c <= 0, NEW a, NEW f,
             HeapMove(t, from, to, c, a, f),
             from \notin {"heapLoad", "maxLoad", "cas"}, to \notin {"heapLoad", "maxLoad", "cas"}
      PROVE  MaxFlow' /\ max1 >= max
  BY <1>1, <1>t DEF MaxFlow, MaxFrame, HeapMove
<1>2. CASE Quiet(t)
  <2>1. PICK from, to \in Labels \ Flight : HeapMove(t, from, to, 0, 0, 0)
    BY <1>2 DEF Quiet
  <2>2. from \notin {"heapLoad", "maxLoad", "cas"} /\ to \notin {"heapLoad", "maxLoad", "cas"}
    BY DEF Flight, AllocFlight
  <2> QED
    BY <1>1, <1>2, <2>1, <2>2 DEF Quiet
<1>3. CASE HeapCount(t) \/ FreeCount(t) \/ FreeThread(t) \/ FreeType(t) \/ DecHeap(t)
  <2>1. PICK from \in {"heapCount", "freeCount", "freeThread", "freeType", "decHeap"},
             to \in {"heapThread", "freeThread", "freeType", "decHeap", "omp", "return"},
             c \in {0, -1}, a \in {0, 1}, f \in {0, 1} : HeapMove(t, from, to, c, a, f)
    BY <1>3, HeapSteps, AfterLabel
  <2>2. MaxFrame(t)
    BY <1>3, HeapSteps
  <2> QED
    BY <1>1, <2>1, <2>2
<1>4. CASE HeapCur(t)
  <2>1. HeapMove(t, "heapCur", "heapLoad", 1, 0, 0) /\ MaxFrame(t)
    BY <1>4, HeapSteps
  <2>2. pc'[t] = "heapLoad"
    BY <1>t, <2>1 DEF HeapMove
  <2> QED
    BY <1>t, <2>1, <2>2 DEF MaxFlow, HeapMove, MaxFrame
<1>5. CASE HeapLoad(t)
  <2>1. /\ HeapMove(t, "heapLoad", "maxLoad", 0, 0, 0) /\ max1 = max
        /\ prevMax' = prevMax /\ newVal' = [newVal EXCEPT ![t] = cur]
    BY <1>5, HeapSteps DEF HeapLoad, recVars
  <2>2. pc'[t] = "maxLoad" /\ newVal'[t] = cur /\ cur1 = cur
    BY <1>t, <2>1 DEF HeapMove, TypeInv, TypeOK
  <2> QED
    BY <1>t, <2>1, <2>2 DEF MaxFlow, HeapMove
<1>6. CASE MaxLoad(t) \/ MaxRetry(t)
  <2>1. PICK from \in {"maxLoad", "cas"} : HeapMove(t, from, "cas", 0, 0, 0)
    BY <1>6, HeapSteps
  <2>2. max1 = max /\ newVal' = newVal /\ prevMax' = [prevMax EXCEPT ![t] = max]
    BY <1>6 DEF MaxLoad, MaxRetry, recVars
  <2>3. pc'[t] = "cas" /\ prevMax'[t] = max /\ cur1 = cur
    BY <1>t, <2>1, <2>2 DEF HeapMove, TypeInv, TypeOK
  <2>4. \A u \in Threads \ {t} : pc'[u] = pc[u] /\ prevMax'[u] = prevMax[u]
    BY <1>t, <2>1, <2>2 DEF HeapMove, TypeInv, TypeOK
  <2> QED
    BY <1>t, <2>1, <2>2, <2>3, <2>4 DEF MaxFlow, HeapMove
<1>7. CASE MaxDone(t)
  <2>1. /\ HeapMove(t, "cas", "heapCount", 0, 0, 0) /\ prevMax[t] >= newVal[t]
        /\ max1 = max /\ newVal' = newVal /\ prevMax' = prevMax
    BY <1>7, HeapSteps DEF MaxDone, recVars, localVars
  <2>2. newVal[t] <= max
    BY <1>t, <2>1 DEF MaxFlow, HeapMove
  <2> QED
    BY <1>t, <2>1, <2>2 DEF MaxFlow, HeapMove
<1>8. CASE MaxSwap(t)
  <2>1. /\ HeapMove(t, "cas", "heapCount", 0, 0, 0) /\ newVal' = newVal /\ prevMax' = prevMax
        /\ max < newVal[t]
    BY <1>8, HeapSteps DEF MaxSwap, localVars
  <2>2. max1 = newVal[t]
    BY <1>8 DEF MaxSwap, TypeInv, TypeOK, Counters
  <2> QED
    BY <1>t, <2>1, <2>2 DEF MaxFlow, HeapMove
<1> QED
  BY <1>2, <1>3, <1>4, <1>5, <1>6, <1>7, <1>8, QuietAlloc, QuietRest
  DEF RuntimeStep, AllocStep, FreeStep

-----------------------------------------------------------------------------
(* The theorems.                                                           *)

\* All counters start at 0.
LEMMA HeapInit == Init => HeapInv
<1> SUFFICES ASSUME Init PROVE HeapInv
  OBVIOUS
<1>1. At(AllocFlight) = {} /\ At(FreeFlight) = {}
  BY DEF Init, At, AllocFlight, FreeFlight
<1>2. HeapFlow
  BY <1>1, FS_EmptySet DEF Init, HeapFlow, Counters
<1>3. MaxFlow
  BY DEF Init, MaxFlow, Counters
<1> QED
  BY <1>2, <1>3, InitType DEF HeapInv

\* The invariant is inductive, and every step keeps or raises the maximum.
LEMMA HeapNext ==
  HeapInv /\ [Next]_vars => HeapInv' /\ cnt'["maxHeapAllocs"] >= cnt["maxHeapAllocs"]
<1> SUFFICES ASSUME HeapInv, [Next]_vars
             PROVE  HeapInv' /\ cnt'["maxHeapAllocs"] >= cnt["maxHeapAllocs"]
  OBVIOUS
<1>1. TypeInv'
  BY NextType DEF HeapInv
<1>2. CASE \E t \in Threads : CallStep(t) \/ RuntimeStep(t)
  BY <1>1, <1>2, FlowStep, MaxStep DEF HeapInv
<1>3. CASE UNCHANGED vars
  <2>1. HeapFlow'
    BY <1>3 DEF HeapInv, HeapFlow, At, vars
  <2>2. MaxFlow'
    BY <1>3 DEF HeapInv, MaxFlow, vars
  <2> QED
    BY <1>1, <1>3, <2>1, <2>2, HeapCountersType DEF HeapInv, vars
<1> QED
  BY <1>2, <1>3 DEF Next, Terminated

\* At every instant the recorder's heap counters differ from their balance by
\* the allocation and free callbacks that are under way, and the maximum is
\* below the current value only while a thread is about to raise it.
THEOREM HeapInvariant == Spec => []HeapInv
  BY HeapInit, HeapNext, PTL DEF Spec

\* When no callback is running curHeapAllocs is heapAllocs - heapAllocsFree, for
\* any number of threads inside incHeapAlloc, incHeapFree and decHeapAlloc
\* before that.
THEOREM HeapBalanced == Spec => []HeapBalance
<1>1. HeapInv => HeapBalance
  <2> SUFFICES ASSUME HeapInv, Quiescent
               PROVE  cnt["curHeapAllocs"] = cnt["heapAllocs"] - cnt["heapAllocsFree"]
    BY DEF HeapBalance
  <2>1. At(AllocFlight) = {} /\ At(FreeFlight) = {}
    BY DEF Quiescent, At, AllocFlight, FreeFlight
  <2> QED
    BY <2>1, FS_EmptySet, HeapCountersType DEF HeapInv, HeapFlow
<1> QED
  BY <1>1, HeapInvariant, PTL

\* When no callback is running the maximum covers the current value: of the
\* threads racing in updateMax, one installs a value that is large enough.
THEOREM MaxCovers == Spec => []MaxCoversCur
<1>1. HeapInv => MaxCoversCur
  BY HeapCountersType DEF HeapInv, MaxFlow, MaxCoversCur, Quiescent
<1> QED
  BY <1>1, HeapInvariant, PTL

\* The compare-exchange loop of updateMax never lowers the maximum.
THEOREM MaxMonotone == Spec => MaxNeverDecreases
<1>1. HeapInv /\ [Next]_vars => [cnt'["maxHeapAllocs"] >= cnt["maxHeapAllocs"]]_vars
  BY HeapNext
<1> QED
  BY <1>1, HeapInvariant, PTL DEF Spec, MaxNeverDecreases

-----------------------------------------------------------------------------
(* The stack counters of a thread.                                         *)

\* What thread t has counted as pushed, and as pushed and not yet removed.
CurStack(t)  == thr[t]["curStackAllocs"]
LiveStack(t) == thr[t]["stackAllocs"] - thr[t]["stackAllocsFree"]

\* Labels between a change of stackVars or of the map and its counting.
Unsettled == {"stackThread", "erase", "decStack"} \cup LockLabels

\* How far the counters of a thread are behind or ahead of its stack: a pushed
\* entry that is not counted yet, the entries remove_range has gone through, and
\* the entries that were erased and not yet subtracted.
StackFlowOK(l, cur, live, size, n, p) ==
  /\ l \notin {"stackThread", "decStack"} => cur = size
  /\ l = "stackThread" => cur + 1 = size /\ live + 1 >= size
  /\ l \notin Unsettled => live >= size
  /\ l \in LockLabels => n <= size /\ p <= size + 1 /\ p >= size - n + 1
  /\ l \in {"range", "rangeType"} => live >= size + (size - n) - (p - 1)
  /\ l = "rangeThread" => live >= size + (size - n) - (p - 1) + 1
  /\ l = "erase" => n <= size /\ live >= size - n
  /\ l = "decStack" => cur = size + n /\ live >= size

StackFlow ==
  \A t \in Threads :
    StackFlowOK(pc[t], CurStack(t), LiveStack(t), Len(stackVars[t]), arg[t].n, pos[t])

StackInv == TypeInv /\ StackFlow

\* Nothing that the stack counters of a thread are compared with changes.
SameStack(u) ==
  /\ \A k \in {"curStackAllocs", "stackAllocs", "stackAllocsFree"} : thr'[u][k] = thr[u][k]
  /\ stackVars'[u] = stackVars[u]

\* The other threads do not notice a step of t.
Apart(t) ==
  \A u \in Threads \ {t} : SameStack(u) /\ pc'[u] = pc[u] /\ arg'[u] = arg[u] /\ pos'[u] = pos[u]

\* t moves between settled labels.
Settled(t) ==
  /\ \E from, to \in Labels \ Unsettled : Step(t, from, to)
  /\ SameStack(t)

\* The quantities compared are integers.
LEMMA StackTypes ==
  ASSUME TypeInv, NEW t \in Threads
  PROVE  /\ thr[t] \in [ThreadCounters -> Int] /\ CurStack(t) \in Int /\ LiveStack(t) \in Int
         /\ thr[t]["stackAllocs"] \in Int /\ thr[t]["stackAllocsFree"] \in Int
         /\ stackVars[t] \in Seq(Addrs \cup {Null}) /\ Len(stackVars[t]) \in Nat /\ pos[t] \in Nat
<1>1. thr[t] \in [ThreadCounters -> Int] /\ stackVars[t] \in Seq(Addrs \cup {Null}) /\ pos[t] \in Nat
  BY DEF TypeInv, TypeOK
<1>2. \A k \in ThreadCounters : thr[t][k] \in Int
  BY <1>1
<1>3. {"curStackAllocs", "stackAllocs", "stackAllocsFree"} \subseteq ThreadCounters
  BY DEF ThreadCounters
<1>4. Len(stackVars[t]) \in Nat
  BY <1>1
<1> QED
  BY <1>1, <1>2, <1>3, <1>4 DEF CurStack, LiveStack

\* A step of t keeps the flow if it keeps that of t.
LEMMA FlowOfOne ==
  ASSUME StackInv, NEW t \in Threads, Apart(t),
         StackFlowOK(pc'[t], CurStack(t)', LiveStack(t)', Len(stackVars'[t]), arg'[t].n, pos'[t])
  PROVE  StackFlow'
<1>1. ASSUME NEW u \in Threads \ {t}
      PROVE  StackFlowOK(pc'[u], CurStack(u)', LiveStack(u)', Len(stackVars'[u]), arg'[u].n, pos'[u])
  <2>1. StackFlowOK(pc[u], CurStack(u), LiveStack(u), Len(stackVars[u]), arg[u].n, pos[u])
    BY DEF StackInv, StackFlow
  <2>2. CurStack(u)' = CurStack(u) /\ LiveStack(u)' = LiveStack(u)
    BY DEF Apart, SameStack, CurStack, LiveStack
  <2> QED
    BY <2>1, <2>2 DEF Apart, SameStack
<1> QED
  BY <1>1 DEF StackFlow

\* A settled step keeps it.
LEMMA SettledStep ==
  ASSUME StackInv, NEW t \in Threads, Apart(t), Settled(t)
  PROVE  StackFlow'
<1>1. PICK from \in Labels \ Unsettled, to \in Labels \ Unsettled : Step(t, from, to)
  BY DEF Settled
<1>2. pc[t] = from /\ pc'[t] = to
  BY <1>1 DEF Step, StackInv, TypeInv, TypeOK
<1>3. StackFlowOK(from, CurStack(t), LiveStack(t), Len(stackVars[t]), arg[t].n, pos[t])
  BY <1>2 DEF StackInv, StackFlow
<1>4. CurStack(t)' = CurStack(t) /\ LiveStack(t)' = LiveStack(t) /\ stackVars'[t] = stackVars[t]
  BY DEF Settled, SameStack, CurStack, LiveStack
<1>5. StackFlowOK(to, CurStack(t), LiveStack(t), Len(stackVars[t]), arg'[t].n, pos'[t])
  BY <1>3 DEF StackFlowOK, Unsettled, LockLabels
<1> QED
  BY <1>2, <1>4, <1>5, FlowOfOne

\* Every step of t leaves the stacks of the other threads alone.
LEMMA StepsApart ==
  ASSUME TypeInv, NEW t \in Threads, CallStep(t) \/ RuntimeStep(t)
  PROVE  Apart(t)
<1>t. /\ pc \in [Threads -> Labels] /\ arg \in [Threads -> AllCalls \cup {NoCall}]
      /\ pos \in [Threads -> Nat] /\ thr \in [Threads -> [ThreadCounters -> Int]]
      /\ stackVars \in [Threads -> Seq(Addrs \cup {Null})]
  BY DEF TypeInv, TypeOK
\* It is enough that each of the five is unchanged or changed at t alone.
<1>e. ASSUME \E x : pc' = [pc EXCEPT ![t] = x],
             arg' = arg \/ \E x : arg' = [arg EXCEPT ![t] = x],
             pos' = pos \/ \E x : pos' = [pos EXCEPT ![t] = x],
             thr' = thr \/ \E x : thr' = [thr EXCEPT ![t] = x],
             stackVars' = stackVars \/ \E x : stackVars' = [stackVars EXCEPT ![t] = x]
      PROVE  Apart(t)
  <2>1. \A u \in Threads \ {t} : pc'[u] = pc[u]
    BY <1>t, <1>e
  <2>2. \A u \in Threads \ {t} : arg'[u] = arg[u]
    BY <1>t, <1>e
  <2>3. \A u \in Threads \ {t} : pos'[u] = pos[u]
    BY <1>t, <1>e
  <2>4. \A u \in Threads \ {t} : thr'[u] = thr[u]
    BY <1>t, <1>e
  <2>5. \A u \in Threads \ {t} : stackVars'[u] = stackVars[u]
    BY <1>t, <1>e
  <2> QED
    BY <2>1, <2>2, <2>3, <2>4, <2>5 DEF Apart, SameStack
<1>c. ASSUME NEW from, NEW to,
             \/ \E S : CountStep(t, from, to, S)
             \/ \E S : ThreadStep(t, from, to, S)
             \/ \E m, id : TypeStep(t, from, to, m, id)
      PROVE  Apart(t)
  BY <1>c, <1>e, Zenon DEF CountStep, ThreadStep, TypeStep, Step, localVars
<1> USE DEF Step, recVars, localVars
<1>1. CASE CallStep(t)
  BY <1>1, <1>e, Zenon DEF CallStep, CallAlloc, CallFree, CallLeaveScope, CallQuery, Enter
<1>2. CASE AllocStep(t)
  <2>1. CASE DoAlloc(t) \/ AddrReuse(t) \/ HeapCur(t) \/ HeapCount(t) \/ GlobalCount(t)
    BY <2>1, <1>c, Zenon DEF DoAlloc, AddrReuse, HeapCur, HeapCount, GlobalCount
  <2>2. CASE HeapThread(t) \/ StackThread(t) \/ HeapType(t) \/ StackType(t) \/ GlobalType(t)
    BY <2>2, <1>c, Zenon DEF HeapThread, StackThread, HeapType, StackType, GlobalType
  <2>3. CASE HeapLoad(t) \/ MaxLoad(t) \/ MaxDone(t) \/ MaxSwap(t) \/ MaxRetry(t)
    BY <2>3, <1>e, Zenon DEF HeapLoad, MaxLoad, MaxDone, MaxSwap, MaxRetry
  <2>4. CASE WrapperPut(t) \/ PushStack(t)
    BY <2>4, <1>e, Zenon DEF WrapperPut, PushStack
  <2> QED
    BY <1>2, <2>1, <2>2, <2>3, <2>4 DEF AllocStep
<1>3. CASE FreeStep(t)
  <2>1. CASE FreeCount(t) \/ FreeThread(t) \/ FreeType(t)
    BY <2>1, <1>c, Zenon DEF FreeCount, FreeThread, FreeType
  <2>2. CASE FreeNull(t) \/ WrapperRemove(t) \/ DecHeap(t)
    BY <2>2, <1>e, Zenon DEF FreeNull, WrapperRemove, DecHeap
  <2> QED
    BY <1>3, <2>1, <2>2 DEF FreeStep
<1>4. CASE LeaveStep(t)
  <2>1. CASE RangeThread(t) \/ RangeType(t)
    BY <2>1, <1>c, Zenon DEF RangeThread, RangeType
  <2>2. CASE LeaveLock(t) \/ RangeRemove(t) \/ RangeSkip(t) \/ RangeUnlock(t)
    BY <2>2, <1>e, Zenon DEF LeaveLock, RangeRemove, RangeSkip, RangeUnlock
  <2>3. CASE EraseStack(t) \/ DecStack(t)
    BY <2>3, <1>e, Zenon DEF EraseStack, DecStack
  <2> QED
    BY <1>4, <2>1, <2>2, <2>3 DEF LeaveStep
<1>5. CASE QueryStep(t) \/ Return(t)
  BY <1>5, <1>e, Zenon DEF QueryStep, WrapperFind, UsedInRequest, Return
<1>6. CASE OmpCount(t)
  BY <1>6, <1>c, Zenon DEF OmpCount
<1> QED
  BY <1>1, <1>2, <1>3, <1>4, <1>5, <1>6 DEF RuntimeStep

\* All steps but the push, its counting and those of onLeaveScope leave the stack
\* and its counters alone.
LEMMA SettledSteps ==
  ASSUME TypeInv, NEW t \in Threads,
         \/ CallStep(t) \/ FreeStep(t) \/ QueryStep(t) \/ OmpCount(t) \/ Return(t)
         \/ AllocStep(t) /\ ~PushStack(t) /\ ~StackThread(t)
  PROVE  Settled(t)
<1> DEFINE Set == Labels \ Unsettled
<1> USE DEF Unsettled, Labels, AllocLabels, FreeLabels, LeaveLabels, QueryLabels, LockLabels,
            HeapLabels, StackLabels
<1>f. Fits(pc[t], arg[t], ret[t], pos[t])
  BY DEF TypeInv, ControlOK
<1>a. After(arg[t]) \in Set
  BY AfterLabel
<1>b. ASSUME NEW o \in BOOLEAN, arg[t] \in AllocCalls
      PROVE  AfterDoAlloc(arg[t], o) \in Set
  BY <1>a, <1>b, AfterDoAllocLabel
<1>s. ASSUME NEW from \in Set, NEW to \in Set, Step(t, from, to), thr' = thr, stackVars' = stackVars
      PROVE  Settled(t)
  BY <1>s DEF Settled, SameStack
<1>c. ASSUME NEW from \in Set, NEW to \in Set, \E S : CountStep(t, from, to, S)
      PROVE  Settled(t)
  BY <1>c, <1>s DEF CountStep
<1>h. ASSUME NEW from \in Set, NEW to \in Set, NEW S, ThreadStep(t, from, to, S),
             S \cap {"curStackAllocs", "stackAllocs", "stackAllocsFree"} = {}
      PROVE  Settled(t)
  <2>1. /\ thr' = [thr EXCEPT ![t] = [k \in ThreadCounters |-> IF k \in S THEN thr[t][k] + 1 ELSE thr[t][k]]]
        /\ Step(t, from, to) /\ stackVars' = stackVars
    BY <1>h DEF ThreadStep
  <2>2. thr'[t] = [k \in ThreadCounters |-> IF k \in S THEN thr[t][k] + 1 ELSE thr[t][k]]
    BY <2>1 DEF TypeInv, TypeOK
  <2>3. \A k \in {"curStackAllocs", "stackAllocs", "stackAllocsFree"} : thr'[t][k] = thr[t][k]
    BY <1>h, <2>2 DEF ThreadCounters
  <2> QED
    BY <2>1, <2>3 DEF Settled, SameStack
<1>y. ASSUME NEW from \in Set, NEW to \in Set, \E m, id : TypeStep(t, from, to, m, id)
      PROVE  Settled(t)
  BY <1>y, <1>s DEF TypeStep
<1>0. /\ {"idle", "doAlloc", "put", "reuse", "heapCur", "heapLoad", "maxLoad", "cas", "heapCount",
          "heapThread", "heapType", "push", "stackType", "global", "globalType", "doFree", "freeCount",
          "freeThread", "freeType", "decHeap", "leave", "find", "used", "omp", "return"} \subseteq Set
  OBVIOUS
<1> HIDE DEF Set
<1>1. CASE CallStep(t)
  <2>1. PICK label \in {"doAlloc", "doFree", "leave", "find"} : \E call : Enter(t, call, label)
    BY <1>1 DEF CallStep, CallAlloc, CallFree, CallLeaveScope, CallQuery
  <2> QED
    BY <1>0, <1>s, <2>1 DEF Enter, recVars
<1>2. CASE DoAlloc(t)
  <2> DEFINE to == IF arg[t].addr = Null THEN AfterDoAlloc(arg[t], FALSE) ELSE "put"
  <2>1. arg[t] \in AllocCalls
    BY <1>f, <1>2 DEF DoAlloc, CountStep, Step, Fits
  <2>2. to \in Set
    BY <1>0, <1>b, <2>1
  <2>3. \E S : CountStep(t, "doAlloc", to, S)
    BY <1>2 DEF DoAlloc
  <2> HIDE DEF to
  <2> QED
    BY <1>0, <1>c, <2>2, <2>3
<1>3. CASE WrapperPut(t)
  <2> DEFINE to == IF MapOverrides(wrapper, arg[t].addr) THEN "reuse" ELSE AfterDoAlloc(arg[t], FALSE)
  <2>1. arg[t] \in AllocCalls
    BY <1>f, <1>3 DEF WrapperPut, Step, Fits
  <2>2. to \in Set
    BY <1>0, <1>b, <2>1
  <2>3. Step(t, "put", to) /\ thr' = thr /\ stackVars' = stackVars
    BY <1>3 DEF WrapperPut, recVars
  <2> HIDE DEF to
  <2> QED
    BY <1>0, <1>s, <2>2, <2>3
<1>4. CASE AddrReuse(t)
  <2>1. arg[t] \in AllocCalls
    BY <1>f, <1>4 DEF AddrReuse, CountStep, Step, Fits
  <2>2. AfterDoAlloc(arg[t], TRUE) \in Set
    BY <1>b, <2>1
  <2> QED
    BY <1>0, <1>4, <1>c, <2>2 DEF AddrReuse
<1>5. CASE HeapCur(t) \/ HeapCount(t) \/ GlobalCount(t) \/ FreeCount(t) \/ OmpCount(t)
  BY <1>0, <1>5, <1>c DEF HeapCur, HeapCount, GlobalCount, FreeCount, OmpCount
<1>6. CASE HeapLoad(t) \/ MaxLoad(t) \/ MaxDone(t) \/ MaxSwap(t) \/ MaxRetry(t)
  BY <1>0, <1>6, <1>s DEF HeapLoad, MaxLoad, MaxDone, MaxSwap, MaxRetry, recVars
<1>7. CASE HeapThread(t) \/ FreeThread(t)
  BY <1>0, <1>7, <1>h DEF HeapThread, FreeThread, WithArray
<1>8. CASE HeapType(t) \/ StackType(t) \/ GlobalType(t) \/ FreeType(t)
  BY <1>0, <1>8, <1>a, <1>y DEF HeapType, StackType, GlobalType, FreeType
<1>9. CASE FreeNull(t) \/ DecHeap(t)
  BY <1>0, <1>9, <1>a, <1>s DEF FreeNull, DecHeap, recVars
<1>10. CASE WrapperRemove(t)
  <2>1. PICK to \in Set : Step(t, "doFree", to)
    BY <1>0, <1>10, <1>a DEF WrapperRemove
  <2> QED
    BY <1>0, <1>10, <1>s, <2>1 DEF WrapperRemove, recVars
<1>11. CASE QueryStep(t) \/ Return(t)
  BY <1>0, <1>11, <1>s DEF QueryStep, WrapperFind, UsedInRequest, Return, recVars
<1> QED
  BY <1>1, <1>2, <1>3, <1>4, <1>5, <1>6, <1>7, <1>8, <1>9, <1>10, <1>11 DEF AllocStep, FreeStep

\* An allocation on the stack is pushed and then counted.
LEMMA PushFlow ==
  ASSUME StackInv, NEW t \in Threads, Apart(t), PushStack(t) \/ StackThread(t)
  PROVE  StackFlow'
<1> USE DEF Unsettled, LockLabels
<1>t. /\ CurStack(t) \in Int /\ LiveStack(t) \in Int /\ Len(stackVars[t]) \in Nat
      /\ thr[t]["stackAllocs"] \in Int /\ thr[t]["stackAllocsFree"] \in Int
  BY StackTypes DEF StackInv
<1>0. StackFlowOK(pc[t], CurStack(t), LiveStack(t), Len(stackVars[t]), arg[t].n, pos[t])
  BY DEF StackInv, StackFlow
<1>1. CASE PushStack(t)
  <2>1. pc[t] = "push" /\ pc'[t] = "stackThread" /\ thr' = thr
        /\ stackVars'[t] = Append(stackVars[t], arg[t].addr)
    BY <1>1 DEF PushStack, Step, StackInv, TypeInv, TypeOK, recVars
  <2>2. Len(stackVars'[t]) = Len(stackVars[t]) + 1
    BY <2>1, StackTypes DEF StackInv
  <2>3. CurStack(t)' = CurStack(t) /\ LiveStack(t)' = LiveStack(t)
    BY <2>1 DEF CurStack, LiveStack
  <2>4. StackFlowOK("stackThread", CurStack(t), LiveStack(t), Len(stackVars[t]) + 1, arg'[t].n, pos'[t])
    BY <1>t, <1>0, <2>1 DEF StackFlowOK
  <2> QED
    BY <2>1, <2>2, <2>3, <2>4, FlowOfOne
<1>2. CASE StackThread(t)
  <2> DEFINE S == WithArray(arg[t].info, {"curStackAllocs", "stackAllocs"}, {"stackArray"})
  <2>1. /\ pc[t] = "stackThread" /\ pc'[t] = "stackType" /\ stackVars' = stackVars
        /\ thr'[t] = [k \in ThreadCounters |-> IF k \in S THEN thr[t][k] + 1 ELSE thr[t][k]]
    BY <1>2 DEF StackThread, ThreadStep, Step, StackInv, TypeInv, TypeOK
  <2>2. "curStackAllocs" \in S /\ "stackAllocs" \in S /\ "stackAllocsFree" \notin S
    BY DEF WithArray
  <2> HIDE DEF S
  <2>3. /\ thr'[t]["curStackAllocs"] = thr[t]["curStackAllocs"] + 1
        /\ thr'[t]["stackAllocs"] = thr[t]["stackAllocs"] + 1
        /\ thr'[t]["stackAllocsFree"] = thr[t]["stackAllocsFree"]
    BY <2>1, <2>2 DEF ThreadCounters
  <2>4. CurStack(t)' = CurStack(t) + 1 /\ LiveStack(t)' = LiveStack(t) + 1
    BY <1>t, <2>3 DEF CurStack, LiveStack
  <2>5. StackFlowOK("stackType", CurStack(t) + 1, LiveStack(t) + 1, Len(stackVars[t]), arg'[t].n, pos'[t])
    BY <1>t, <1>0, <2>1 DEF StackFlowOK
  <2> QED
    BY <2>1, <2>4, <2>5, FlowOfOne
<1> QED
  BY <1>1, <1>2

\* Leaving a scope: what remove_range counts as freed is at most what it goes
\* through, which is what is erased and subtracted afterwards.
LEMMA LeaveFlow ==
  ASSUME StackInv, NEW t \in Threads, Apart(t), LeaveStep(t)
  PROVE  StackFlow'
<1> USE DEF Unsettled, LockLabels
<1> DEFINE cur == CurStack(t)
           live == LiveStack(t)
           size == Len(stackVars[t])
           n == arg[t].n
           p == pos[t]
<1>t. /\ cur \in Int /\ live \in Int /\ size \in Nat /\ p \in Nat
      /\ thr[t]["stackAllocs"] \in Int /\ thr[t]["stackAllocsFree"] \in Int
      /\ thr[t] \in [ThreadCounters -> Int]
  BY StackTypes DEF StackInv
<1>0. StackFlowOK(pc[t], cur, live, size, n, p)
  BY DEF StackInv, StackFlow
<1>n. arg[t] \in LeaveCalls /\ n \in Nat
  <2>1. pc[t] \in LeaveLabels
    BY DEF LeaveStep, LeaveLock, RangeRemove, RangeSkip, RangeThread, RangeType, RangeUnlock, EraseStack,
           DecStack, ThreadStep, TypeStep, Step, LeaveLabels
  <2>2. arg[t] \in LeaveCalls
    BY <2>1 DEF StackInv, TypeInv, ControlOK, Fits
  <2> QED
    BY <2>2, BoundsAssumption DEF LeaveCalls
<1>k. thr' = thr => CurStack(t)' = cur /\ LiveStack(t)' = live
  BY DEF CurStack, LiveStack
<1>1. CASE LeaveLock(t)
  <2> DEFINE m == IF n > size THEN size ELSE n
  <2>1. /\ pc[t] = "leave" /\ pc'[t] = "range" /\ thr' = thr /\ stackVars' = stackVars
        /\ arg' = [arg EXCEPT ![t] = [arg[t] EXCEPT !.n = m]] /\ pos'[t] = size - m + 1
    BY <1>1 DEF LeaveLock, Step, StackInv, TypeInv, TypeOK, recVars
  <2>2. m \in Nat /\ m <= size
    BY <1>t, <1>n
  <2> HIDE DEF m
  <2>3. arg'[t].n = m
    BY <1>n, <2>1 DEF LeaveCalls, StackInv, TypeInv, TypeOK
  <2>4. cur = size /\ live >= size
    BY <1>0, <2>1 DEF StackFlowOK
  <2>5. StackFlowOK("range", cur, live, size, m, size - m + 1)
    <3> HIDE DEF cur, live, size
    <3> QED
      BY <1>t, <2>2, <2>4 DEF StackFlowOK
  <2> QED
    BY <1>k, <2>1, <2>3, <2>5, FlowOfOne
<1>2. CASE RangeRemove(t)
  <2>1. /\ pc[t] = "range" /\ pc'[t] = "rangeThread" /\ thr' = thr /\ stackVars' = stackVars
        /\ arg' = arg /\ pos'[t] = p + 1 /\ p <= size
    BY <1>2 DEF RangeRemove, Step, StackInv, TypeInv, TypeOK, recVars
  <2>2. StackFlowOK("rangeThread", cur, live, size, n, p + 1)
    <3>1. cur = size /\ n <= size /\ p <= size + 1 /\ p >= size - n + 1 /\ live >= size + (size - n) - (p - 1)
      BY <1>0, <2>1 DEF StackFlowOK
    <3> HIDE DEF cur, live, size, n, p
    <3> QED
      BY <1>t, <1>n, <2>1, <3>1 DEF StackFlowOK
  <2> QED
    BY <1>k, <2>1, <2>2, FlowOfOne
<1>3. CASE RangeSkip(t)
  <2>1. /\ pc[t] = "range" /\ pc'[t] = "range" /\ thr' = thr /\ stackVars' = stackVars
        /\ arg' = arg /\ pos'[t] = p + 1 /\ p <= size
    BY <1>3 DEF RangeSkip, Step, StackInv, TypeInv, TypeOK, recVars
  <2>2. StackFlowOK("range", cur, live, size, n, p + 1)
    <3>1. cur = size /\ n <= size /\ p <= size + 1 /\ p >= size - n + 1 /\ live >= size + (size - n) - (p - 1)
      BY <1>0, <2>1 DEF StackFlowOK
    <3> HIDE DEF cur, live, size, n, p
    <3> QED
      BY <1>t, <1>n, <2>1, <3>1 DEF StackFlowOK
  <2> QED
    BY <1>k, <2>1, <2>2, FlowOfOne
<1>4. CASE RangeThread(t)
  <2> DEFINE S == WithArray(ret[t].entry, {"stackAllocsFree"}, {"stackArrayFree"})
  <2>1. /\ pc[t] = "rangeThread" /\ pc'[t] = "rangeType" /\ stackVars' = stackVars
        /\ arg' = arg /\ pos' = pos
        /\ thr'[t] = [k \in ThreadCounters |-> IF k \in S THEN thr[t][k] + 1 ELSE thr[t][k]]
    BY <1>4 DEF RangeThread, ThreadStep, Step, StackInv, TypeInv, TypeOK, localVars
  <2>2. "curStackAllocs" \notin S /\ "stackAllocs" \notin S /\ "stackAllocsFree" \in S
    BY DEF WithArray
  <2> HIDE DEF S
  <2>3. /\ thr'[t]["curStackAllocs"] = thr[t]["curStackAllocs"]
        /\ thr'[t]["stackAllocs"] = thr[t]["stackAllocs"]
        /\ thr'[t]["stackAllocsFree"] = thr[t]["stackAllocsFree"] + 1
    BY <2>1, <2>2 DEF ThreadCounters
  <2>4. CurStack(t)' = cur /\ LiveStack(t)' = live - 1
    BY <1>t, <2>3 DEF CurStack, LiveStack
  <2>5. StackFlowOK("rangeType", cur, live - 1, size, n, p)
    <3>1. cur = size /\ n <= size /\ p <= size + 1 /\ p >= size - n + 1 /\ live >= size + (size - n) - (p - 1) + 1
      BY <1>0, <2>1 DEF StackFlowOK
    <3> HIDE DEF cur, live, size, n, p
    <3> QED
      BY <1>t, <1>n, <2>1, <3>1 DEF StackFlowOK
  <2> QED
    BY <2>1, <2>4, <2>5, FlowOfOne
<1>5. CASE RangeType(t)
  <2>1. /\ pc[t] = "rangeType" /\ pc'[t] = "range" /\ thr' = thr /\ stackVars' = stackVars
        /\ arg' = arg /\ pos' = pos
    BY <1>5 DEF RangeType, TypeStep, Step, StackInv, TypeInv, TypeOK, localVars
  <2>2. StackFlowOK("range", cur, live, size, n, p)
    BY <1>0, <2>1 DEF StackFlowOK
  <2> QED
    BY <1>k, <2>1, <2>2, FlowOfOne
<1>6. CASE RangeUnlock(t)
  <2>1. /\ pc[t] = "range" /\ pc'[t] = "erase" /\ thr' = thr /\ stackVars' = stackVars
        /\ arg' = arg /\ pos' = pos /\ p > size
    BY <1>6 DEF RangeUnlock, Step, StackInv, TypeInv, TypeOK, recVars, localVars
  <2>2. StackFlowOK("erase", cur, live, size, n, p)
    BY <1>t, <1>n, <1>0, <2>1 DEF StackFlowOK
  <2> QED
    BY <1>k, <2>1, <2>2, FlowOfOne
<1>7. CASE EraseStack(t)
  <2>1. /\ pc[t] = "erase" /\ pc'[t] = "decStack" /\ thr' = thr
        /\ stackVars'[t] = SubSeq(stackVars[t], 1, size - n) /\ arg' = arg /\ pos' = pos
    BY <1>7 DEF EraseStack, Step, StackInv, TypeInv, TypeOK, recVars, localVars
  <2>2. n <= size
    BY <1>0, <2>1 DEF StackFlowOK
  <2>3. Len(stackVars'[t]) = size - n
    <3>1. stackVars[t] \in Seq(Addrs \cup {Null})
      BY StackTypes DEF StackInv
    <3>2. size - n \in Nat /\ size - n <= size
      BY <1>t, <1>n, <2>2
    <3> QED
      BY <2>1, <3>1, <3>2
  <2>4. StackFlowOK("decStack", cur, live, size - n, n, p)
    BY <1>t, <1>n, <1>0, <2>1 DEF StackFlowOK
  <2> QED
    BY <1>k, <2>1, <2>3, <2>4, FlowOfOne
<1>8. CASE DecStack(t)
  <2> DEFINE max == thr[t]["maxStackAllocs"]
             top == IF max < cur THEN cur ELSE max
  <2>1. /\ pc[t] = "decStack" /\ pc'[t] = "return" /\ stackVars' = stackVars
        /\ thr'[t] = [thr[t] EXCEPT !["maxStackAllocs"] = top, !["curStackAllocs"] = cur - n]
    BY <1>8 DEF DecStack, Step, StackInv, TypeInv, TypeOK, CurStack
  <2> HIDE DEF top
  <2>2. /\ thr'[t]["curStackAllocs"] = cur - n
        /\ thr'[t]["stackAllocs"] = thr[t]["stackAllocs"]
        /\ thr'[t]["stackAllocsFree"] = thr[t]["stackAllocsFree"]
    BY <1>t, <2>1 DEF ThreadCounters
  <2>3. CurStack(t)' = cur - n /\ LiveStack(t)' = live
    BY <2>2 DEF CurStack, LiveStack
  <2>4. StackFlowOK("return", cur - n, live, size, arg'[t].n, pos'[t])
    BY <1>t, <1>n, <1>0, <2>1 DEF StackFlowOK
  <2> QED
    BY <2>1, <2>3, <2>4, FlowOfOne
<1> QED
  BY <1>1, <1>2, <1>3, <1>4, <1>5, <1>6, <1>7, <1>8 DEF LeaveStep

\* The invariant of the stack counters is inductive.
LEMMA StackInit == Init => StackInv
<1> SUFFICES ASSUME Init PROVE StackInv
  OBVIOUS
<1>1. ASSUME NEW t \in Threads
      PROVE  pc[t] = "idle" /\ CurStack(t) = 0 /\ LiveStack(t) = 0 /\ Len(stackVars[t]) = 0
  BY DEF Init, CurStack, LiveStack, ThreadCounters
<1>2. StackFlow
  BY <1>1 DEF StackFlow, StackFlowOK, Unsettled, LockLabels
<1> QED
  BY <1>2, InitType DEF StackInv

LEMMA StackNext == StackInv /\ [Next]_vars => StackInv'
<1> SUFFICES ASSUME StackInv, [Next]_vars PROVE StackInv'
  OBVIOUS
<1>1. TypeInv'
  BY NextType DEF StackInv
<1>2. ASSUME NEW t \in Threads, CallStep(t) \/ RuntimeStep(t) PROVE StackFlow'
  <2>1. Apart(t)
    BY <1>2, StepsApart DEF StackInv
  <2>2. CASE PushStack(t) \/ StackThread(t)
    BY <2>1, <2>2, PushFlow
  <2>3. CASE LeaveStep(t)
    BY <2>1, <2>3, LeaveFlow
  <2>4. CASE ~(PushStack(t) \/ StackThread(t) \/ LeaveStep(t))
    BY <1>2, <2>1, <2>4, SettledSteps, SettledStep DEF RuntimeStep, StackInv
  <2> QED
    BY <2>2, <2>3, <2>4
<1>3. CASE UNCHANGED vars
  BY <1>1, <1>3 DEF vars, StackInv, StackFlow, CurStack, LiveStack
<1> QED
  BY <1>1, <1>2, <1>3 DEF Next, Terminated, StackInv

\* At every instant a thread's stack counters differ from the size of its
\* stackVars by what the step it is in has still to count.
THEOREM StackInvariant == Spec => []StackInv
  BY StackInit, StackNext, PTL DEF Spec

\* Outside of its callbacks a thread's curStackAllocs is the size of its stack,
\* and at most as many stack entries are counted as freed as were removed from
\* it, for scopes of any size, requests that are too large included.
THEOREM StackBalanced == Spec => []StackBalance
<1>1. StackInv => StackBalance
  BY DEF StackInv, StackFlow, StackFlowOK, StackBalance, CurStack, LiveStack, Unsettled, LockLabels
<1> QED
  BY <1>1, StackInvariant, PTL

-----------------------------------------------------------------------------
(* The recorder as a ledger.                                               *)

\* The counters whose sums are at stake.
CountLedger  == {"heapAllocs", "heapAllocsFree", "globalAllocs", "nullAlloc", "nullAndZeroAlloc", "addrReuses"}
ThreadLedger == {"heapAllocs", "heapAllocsFree", "stackAllocs", "stackAllocsFree"}

\* The labels between the map operation of an allocation or of a free and its
\* first entry in the ledger, and the labels before an entry that repeats it.
AllocDue   == {"reuse", "heapCur", "heapLoad", "maxLoad", "cas", "heapCount", "push", "stackThread", "global"}
FreeDue    == {"freeCount", "rangeThread"}
ViewLabels == {"heapThread", "heapType", "freeThread", "freeType", "stackType", "rangeType", "globalType"}

\* How far an entry is ahead of its repetition, which is due at label l.
Ahead(l) ==
  CASE l = "heapThread" -> cnt["heapAllocs"] - SumThreads("heapAllocs")
    [] l = "heapType"   -> SumThreads("heapAllocs") - SumTypes("heapAlloc")
    [] l = "freeThread" -> cnt["heapAllocsFree"] - SumThreads("heapAllocsFree")
    [] l = "freeType"   -> SumThreads("heapAllocsFree") - SumTypes("heapFree")
    [] l = "stackType"  -> SumThreads("stackAllocs") - SumTypes("stackAlloc")
    [] l = "rangeType"  -> SumThreads("stackAllocsFree") - SumTypes("stackFree")
    [] l = "globalType" -> cnt["globalAllocs"] - SumTypes("globalAlloc")

\* An entry is ahead by the number of threads that have still to repeat it.
ViewFlow == \A l \in ViewLabels : Ahead(l) = Cardinality(At({l}))

\* Every entry of the map is accounted for, once the callbacks whose map
\* operation has taken effect and is not yet recorded are counted.
TableFlow ==
  Cardinality(Keys(wrapper)) =
      cnt["heapAllocs"] + SumThreads("stackAllocs") + cnt["globalAllocs"] + Cardinality(At(AllocDue))
    - cnt["nullAlloc"] - cnt["nullAndZeroAlloc"] - cnt["addrReuses"] - Cardinality(At({"reuse"}))
    - cnt["heapAllocsFree"] - SumThreads("stackAllocsFree") - Cardinality(At(FreeDue))

LedgerInv == TypeInv /\ ViewFlow /\ TableFlow

\* t moves from one label to another, the counters in S, the thread counters in
\* T and the type maps in M count one more, and the map grows by d entries.
Booked(t, from, to, S, T, M, d) ==
  /\ pc[t] = from /\ pc' = [pc EXCEPT ![t] = to]
  /\ \A k \in CountLedger : cnt'[k] = cnt[k] + Flag(k, S)
  /\ \A k \in ThreadLedger : SumThreads(k)' = SumThreads(k) + Flag(k, T)
  /\ \A m \in TypeMaps : SumTypes(m)' = SumTypes(m) + Flag(m, M)
  /\ Cardinality(Keys(wrapper))' = Cardinality(Keys(wrapper)) + d

\* How the number of threads in L changes by a move.
Moved(from, to, L) == Flag(to, L) - Flag(from, L)

\* What an entry is ahead of its repetition grows with the threads that owe it.
Repeats(from, to, S, T, M) ==
  /\ Flag("heapAllocs", S) - Flag("heapAllocs", T) = Moved(from, to, {"heapThread"})
  /\ Flag("heapAllocs", T) - Flag("heapAlloc", M) = Moved(from, to, {"heapType"})
  /\ Flag("heapAllocsFree", S) - Flag("heapAllocsFree", T) = Moved(from, to, {"freeThread"})
  /\ Flag("heapAllocsFree", T) - Flag("heapFree", M) = Moved(from, to, {"freeType"})
  /\ Flag("stackAllocs", T) - Flag("stackAlloc", M) = Moved(from, to, {"stackType"})
  /\ Flag("stackAllocsFree", T) - Flag("stackFree", M) = Moved(from, to, {"rangeType"})
  /\ Flag("globalAllocs", S) - Flag("globalAlloc", M) = Moved(from, to, {"globalType"})

\* The map grows by what is recorded of it and what is due.
Accounts(from, to, S, T, d) ==
  d =   Flag("heapAllocs", S) + Flag("stackAllocs", T) + Flag("globalAllocs", S) + Moved(from, to, AllocDue)
      - Flag("nullAlloc", S) - Flag("nullAndZeroAlloc", S) - Flag("addrReuses", S) - Moved(from, to, {"reuse"})
      - Flag("heapAllocsFree", S) - Flag("stackAllocsFree", T) - Moved(from, to, FreeDue)

\* A step that is booked as it should be.
Proper(t) ==
  \E from, to \in Labels, d \in Int : \E S, T, M :
    /\ Booked(t, from, to, S, T, M, d)
    /\ Repeats(from, to, S, T, M) /\ Accounts(from, to, S, T, d)

-----------------------------------------------------------------------------
(* The sums.                                                               *)

LEMMA LedgerTypes ==
  ASSUME TypeInv
  PROVE  /\ \A k \in Counters : cnt[k] \in Int
         /\ \A k \in ThreadCounters : SumThreads(k) \in Int
         /\ \A m \in TypeMaps : SumTypes(m) \in Int
         /\ IsFiniteSet(Keys(wrapper)) /\ Cardinality(Keys(wrapper)) \in Nat
<1>1. \A k \in Counters : cnt[k] \in Int
  BY DEF TypeInv, TypeOK
<1>2. ASSUME NEW k \in ThreadCounters PROVE SumThreads(k) \in Int
  <2> DEFINE f == [t \in Threads |-> thr[t][k]]
  <2>1. \A t \in Threads : f[t] \in Int
    BY DEF TypeInv, TypeOK
  <2> HIDE DEF f
  <2>2. SumFunctionOnSet(f, Threads) \in Int
    BY <2>1, ThreadsAssumption, SumType
  <2> QED
    BY <2>2 DEF f, SumThreads
<1>3. ASSUME NEW m \in TypeMaps PROVE SumTypes(m) \in Int
  <2>1. \A id \in TypeIds : byType[m][id] \in Int
    BY DEF TypeInv, TypeOK
  <2> QED
    BY <2>1, TypeIdsAssumption, SumType DEF SumTypes
<1>4. IsFiniteSet(Keys(wrapper)) /\ Cardinality(Keys(wrapper)) \in Nat
  <2>1. IsFiniteSet(1..MaxAddr)
    BY AddrsAssumption, FS_Interval
  <2>2. Keys(wrapper) \subseteq 1..MaxAddr
    BY AddrsAssumption DEF Keys
  <2> QED
    BY <2>1, <2>2, FS_Subset, FS_CardinalityType
<1> QED
  BY <1>1, <1>2, <1>3, <1>4

\* One thread's counter changes, and with it the sum.
LEMMA ThreadSum ==
  ASSUME TypeInv, NEW t \in Threads, NEW k \in ThreadCounters, NEW d \in Int,
         thr'[t][k] = thr[t][k] + d, \A u \in Threads \ {t} : thr'[u][k] = thr[u][k]
  PROVE  SumThreads(k)' = SumThreads(k) + d
<1> DEFINE f == [u \in Threads |-> thr[u][k]]
           g == [u \in Threads |-> thr'[u][k]]
<1>1. \A u \in Threads : f[u] \in Int
  BY DEF TypeInv, TypeOK
<1>2. \A u \in Threads : g[u] = IF u = t THEN f[u] + d ELSE f[u]
  OBVIOUS
<1>3. SumThreads(k) = SumFunctionOnSet(f, Threads) /\ SumThreads(k)' = SumFunctionOnSet(g, Threads)
  BY DEF SumThreads
<1> HIDE DEF f, g
<1> QED
  BY <1>1, <1>2, <1>3, ThreadsAssumption, SumChanged

\* One type's counter changes, and with it the sum of its map only.
LEMMA TypeSum ==
  ASSUME TypeInv, NEW m \in TypeMaps, NEW id \in TypeIds,
         byType' = [byType EXCEPT ![m] = [byType[m] EXCEPT ![id] = byType[m][id] + 1]]
  PROVE  \A n \in TypeMaps : SumTypes(n)' = SumTypes(n) + Flag(n, {m})
<1> SUFFICES ASSUME NEW n \in TypeMaps PROVE SumTypes(n)' = SumTypes(n) + Flag(n, {m})
  OBVIOUS
<1>0. byType \in [TypeMaps -> [TypeIds -> Nat]]
  BY DEF TypeInv, TypeOK
<1>1. CASE n = m
  <2> DEFINE f == byType[m]
             g == byType'[m]
  <2>1. \A i \in TypeIds : f[i] \in Int
    BY <1>0
  <2>2. \A i \in TypeIds : g[i] = IF i = id THEN f[i] + 1 ELSE f[i]
    BY <1>0
  <2>3. SumTypes(m) = SumFunctionOnSet(f, TypeIds) /\ SumTypes(m)' = SumFunctionOnSet(g, TypeIds)
    BY DEF SumTypes
  <2> HIDE DEF f, g
  <2>4. SumFunctionOnSet(g, TypeIds) = SumFunctionOnSet(f, TypeIds) + 1
    BY <2>1, <2>2, TypeIdsAssumption, SumChanged
  <2> QED
    BY <1>1, <2>3, <2>4 DEF Flag
<1>2. CASE n # m
  <2>1. byType'[n] = byType[n]
    BY <1>0, <1>2
  <2> QED
    BY <1>2, <2>1, LedgerTypes DEF SumTypes, Flag
<1> QED
  BY <1>1, <1>2

-----------------------------------------------------------------------------
(* Steps by what they book.                                                *)

\* A step that books nothing.
LEMMA BookNothing ==
  ASSUME TypeInv, NEW t \in Threads, NEW from, NEW to, Step(t, from, to),
         \A k \in CountLedger : cnt'[k] = cnt[k],
         \A u \in Threads : \A k \in ThreadLedger : thr'[u][k] = thr[u][k],
         UNCHANGED <<byType, wrapper>>
  PROVE  Booked(t, from, to, {}, {}, {}, 0)
<1>1. ASSUME NEW k \in ThreadLedger PROVE SumThreads(k)' = SumThreads(k)
  <2>1. k \in ThreadCounters
    BY DEF ThreadLedger, ThreadCounters
  <2>2. thr[t][k] \in Int
    BY <2>1 DEF TypeInv, TypeOK
  <2>3. thr'[t][k] = thr[t][k] + 0 /\ \A u \in Threads \ {t} : thr'[u][k] = thr[u][k]
    BY <2>2
  <2> QED
    BY <2>1, <2>3, ThreadSum, LedgerTypes
<1>2. \A m \in TypeMaps : SumTypes(m)' = SumTypes(m)
  BY DEF SumTypes
<1>3. CountLedger \subseteq Counters /\ ThreadLedger \subseteq ThreadCounters
  BY DEF CountLedger, Counters, ThreadLedger, ThreadCounters
<1> QED
  BY <1>1, <1>2, <1>3, LedgerTypes DEF Booked, Flag, Step

\* ... that counts the counters R,
LEMMA BookCount ==
  ASSUME TypeInv, NEW t \in Threads, NEW from, NEW to, NEW S, CountStep(t, from, to, S),
         NEW R, \A k \in CountLedger : k \in S <=> k \in R
  PROVE  Booked(t, from, to, R, {}, {}, 0)
<1>1. CountLedger \subseteq Counters /\ ThreadLedger \subseteq ThreadCounters
  BY DEF CountLedger, Counters, ThreadLedger, ThreadCounters
<1>2. \A k \in CountLedger : cnt'[k] = cnt[k] + Flag(k, R)
  BY <1>1, LedgerTypes DEF CountStep, Flag
<1>3. thr' = thr /\ byType' = byType /\ wrapper' = wrapper
  BY DEF CountStep, mapVars
<1>4. /\ \A k \in ThreadLedger : SumThreads(k)' = SumThreads(k)
      /\ \A m \in TypeMaps : SumTypes(m)' = SumTypes(m)
  BY <1>3 DEF SumThreads, SumTypes
<1> QED
  BY <1>1, <1>2, <1>3, <1>4, LedgerTypes DEF Booked, Flag, CountStep, Step

\* ... the thread counters R,
LEMMA BookThread ==
  ASSUME TypeInv, NEW t \in Threads, NEW from, NEW to, NEW S, ThreadStep(t, from, to, S),
         NEW R, \A k \in ThreadLedger : k \in S <=> k \in R
  PROVE  Booked(t, from, to, {}, R, {}, 0)
<1>1. CountLedger \subseteq Counters /\ ThreadLedger \subseteq ThreadCounters
  BY DEF CountLedger, Counters, ThreadLedger, ThreadCounters
<1>2. ASSUME NEW k \in ThreadLedger PROVE SumThreads(k)' = SumThreads(k) + Flag(k, R)
  <2>1. thr \in [Threads -> [ThreadCounters -> Int]] /\ k \in ThreadCounters
    BY <1>1 DEF TypeInv, TypeOK
  <2>2. thr'[t][k] = thr[t][k] + Flag(k, R) /\ \A u \in Threads \ {t} : thr'[u][k] = thr[u][k]
    BY <2>1 DEF ThreadStep, Flag
  <2>3. Flag(k, R) \in Int
    BY DEF Flag
  <2> QED
    BY <2>1, <2>2, <2>3, ThreadSum
<1>3. cnt' = cnt /\ byType' = byType /\ wrapper' = wrapper
  BY DEF ThreadStep, mapVars
<1>4. \A m \in TypeMaps : SumTypes(m)' = SumTypes(m)
  BY <1>3 DEF SumTypes
<1> QED
  BY <1>1, <1>2, <1>3, <1>4, LedgerTypes DEF Booked, Flag, ThreadStep, Step

\* ... the type map m,
LEMMA BookType ==
  ASSUME TypeInv, NEW t \in Threads, NEW from, NEW to, NEW m \in TypeMaps, NEW id \in TypeIds,
         TypeStep(t, from, to, m, id)
  PROVE  Booked(t, from, to, {}, {}, {m}, 0)
<1>1. CountLedger \subseteq Counters /\ ThreadLedger \subseteq ThreadCounters
  BY DEF CountLedger, Counters, ThreadLedger, ThreadCounters
<1>2. \A n \in TypeMaps : SumTypes(n)' = SumTypes(n) + Flag(n, {m})
  BY TypeSum DEF TypeStep
<1>3. cnt' = cnt /\ thr' = thr /\ wrapper' = wrapper
  BY DEF TypeStep, mapVars
<1>4. \A k \in ThreadLedger : SumThreads(k)' = SumThreads(k)
  BY <1>3 DEF SumThreads
<1> QED
  BY <1>1, <1>2, <1>3, <1>4, LedgerTypes DEF Booked, Flag, TypeStep, Step

\* ... or an entry put into the map or removed from it.
LEMMA BookMap ==
  ASSUME TypeInv, NEW t \in Threads, NEW from, NEW to, Step(t, from, to),
         UNCHANGED <<cnt, thr, byType>>, NEW d, Cardinality(Keys(wrapper))' = Cardinality(Keys(wrapper)) + d
  PROVE  Booked(t, from, to, {}, {}, {}, d)
<1>1. CountLedger \subseteq Counters /\ ThreadLedger \subseteq ThreadCounters
  BY DEF CountLedger, Counters, ThreadLedger, ThreadCounters
<1>2. /\ \A k \in ThreadLedger : SumThreads(k)' = SumThreads(k)
      /\ \A m \in TypeMaps : SumTypes(m)' = SumTypes(m)
  BY DEF SumThreads, SumTypes
<1> QED
  BY <1>1, <1>2, LedgerTypes DEF Booked, Flag, Step

\* The size of the map after put and remove.
LEMMA KeysPut ==
  ASSUME TypeInv, NEW a \in Addrs, NEW info \in PointerInfo, wrapper' = MapPut(wrapper, a, info)
  PROVE  /\ Keys(wrapper)' = Keys(wrapper) \cup {a}
         /\ MapOverrides(wrapper, a) <=> a \in Keys(wrapper)
         /\ Cardinality(Keys(wrapper))' =
              Cardinality(Keys(wrapper)) + IF MapOverrides(wrapper, a) THEN 0 ELSE 1
<1>0. wrapper \in [Addrs -> PointerInfo \cup {NoEntry}] /\ NoEntry \notin PointerInfo
  BY NoEntryAssumption DEF TypeInv, TypeOK, Maps
<1>1. Keys(wrapper)' = Keys(wrapper) \cup {a}
  BY <1>0 DEF MapPut, Keys
<1>2. MapOverrides(wrapper, a) <=> a \in Keys(wrapper)
  <2>1. wrapper[a] # NoEntry => wrapper[a].typeId \in Nat
    BY <1>0, TypeIdsAssumption DEF PointerInfo
  <2> QED
    BY <2>1 DEF MapOverrides, Keys
<1>3. a \in Keys(wrapper) => Keys(wrapper) \cup {a} = Keys(wrapper)
  OBVIOUS
<1>4. a \notin Keys(wrapper) => Cardinality(Keys(wrapper) \cup {a}) = Cardinality(Keys(wrapper)) + 1
  BY LedgerTypes, FS_AddElement
<1> QED
  BY <1>1, <1>2, <1>3, <1>4, LedgerTypes

LEMMA KeysRemove ==
  ASSUME TypeInv, NEW a \in Addrs, wrapper' = MapRemove(wrapper, a)
  PROVE  /\ Keys(wrapper)' = Keys(wrapper) \ {a}
         /\ Cardinality(Keys(wrapper))' =
              Cardinality(Keys(wrapper)) - IF wrapper[a] = NoEntry THEN 0 ELSE 1
<1>0. wrapper \in [Addrs -> PointerInfo \cup {NoEntry}]
  BY DEF TypeInv, TypeOK, Maps
<1>1. Keys(wrapper)' = Keys(wrapper) \ {a}
  BY <1>0 DEF MapRemove, Keys
<1>2. a \notin Keys(wrapper) => Keys(wrapper) \ {a} = Keys(wrapper)
  OBVIOUS
<1>3. a \in Keys(wrapper) => Cardinality(Keys(wrapper) \ {a}) = Cardinality(Keys(wrapper)) - 1
  BY LedgerTypes, FS_RemoveElement
<1>4. a \in Keys(wrapper) <=> wrapper[a] # NoEntry
  BY DEF Keys
<1> QED
  BY <1>1, <1>2, <1>3, <1>4, LedgerTypes

\* The test of the whole flag word never finds ADDR_SKIPPED alone: every callback
\* of an allocation records it, whatever doAlloc did.
LEMMA AlwaysRecorded ==
  ASSUME NEW call \in AllocCalls, NEW o \in BOOLEAN
  PROVE  AfterDoAlloc(call, o) \in {"heapCur", "push", "global"}
<1>1. "NO_INIT" \in DoAllocStatus(call, o)
  BY DEF DoAllocStatus
<1>2. DoAllocStatus(call, o) # {"ADDR_SKIPPED"}
  BY <1>1
<1>3. call.op \in {"heap", "stack", "global"}
  BY DEF AllocCalls, AllocOps
<1> QED
  BY <1>2, <1>3 DEF AfterDoAlloc

-----------------------------------------------------------------------------
(* Every step books what it should.                                        *)

\* The labels between which nothing need be booked.
Clear == Labels \ (AllocDue \cup FreeDue \cup ViewLabels)

LEMMA ClearMove ==
  ASSUME NEW t, NEW from, NEW to, Booked(t, from, to, {}, {}, {}, 0),
         \/ from \in Clear /\ to \in Clear
         \/ {from, to} \subseteq {"heapCur", "heapLoad", "maxLoad", "cas", "heapCount"}
         \/ from = "push" /\ to = "stackThread"
  PROVE  Proper(t)
<1>1. from \in Labels /\ to \in Labels
  BY DEF Clear, Labels, AllocLabels, HeapLabels, StackLabels
<1>2. Repeats(from, to, {}, {}, {})
  BY DEF Repeats, Moved, Flag, Clear, ViewLabels
<1>3. Accounts(from, to, {}, {}, 0)
  BY DEF Accounts, Moved, Flag, Clear, AllocDue, FreeDue
<1> QED
  BY <1>1, <1>2, <1>3 DEF Proper

\* A step whose labels and postings are given.
LEMMA GivenMove ==
  ASSUME NEW t, NEW from \in Labels, NEW to \in Labels, NEW S, NEW T, NEW M, NEW d \in Int,
         Booked(t, from, to, S, T, M, d), Repeats(from, to, S, T, M), Accounts(from, to, S, T, d)
  PROVE  Proper(t)
  BY Zenon DEF Proper

LEMMA ProperAlloc ==
  ASSUME TypeInv, NEW t \in Threads, AllocStep(t)
  PROVE  Proper(t)
<1> USE DEF CountLedger, ThreadLedger
<1>f. Fits(pc[t], arg[t], ret[t], pos[t])
  BY DEF TypeInv, ControlOK
<1>l. /\ After(arg[t]) \in {"omp", "return"}
      /\ {"omp", "return"} \subseteq Labels
      /\ AllocLabels \subseteq Labels
  BY AfterLabel DEF Labels
<1>a. ASSUME pc[t] \in AllocLabels
      PROVE  /\ arg[t] \in AllocCalls /\ arg[t].info \in PointerInfo /\ arg[t].info.typeId \in TypeIds
             /\ arg[t].addr # Null => arg[t].addr \in Addrs
             /\ \A o \in BOOLEAN : AfterDoAlloc(arg[t], o) \in {"heapCur", "push", "global"}
  <2>1. arg[t] \in AllocCalls
    BY <1>f, <1>a DEF Fits
  <2>2. arg[t].info \in PointerInfo /\ (arg[t].addr # Null => arg[t].addr \in Addrs)
    BY <2>1 DEF AllocCalls
  <2> QED
    BY <2>1, <2>2, AlwaysRecorded DEF PointerInfo
<1>b. AllocLabels = {"doAlloc", "put", "reuse", "global", "globalType", "heapCur", "heapLoad", "maxLoad",
                     "cas", "heapCount", "heapThread", "heapType", "push", "stackThread", "stackType"}
  BY DEF AllocLabels, HeapLabels, StackLabels
<1>c. {"doAlloc", "put", "omp", "return"} \subseteq Clear
  BY <1>b, <1>l DEF Clear, AllocDue, FreeDue, ViewLabels
<1>n. ASSUME NEW from, NEW to, Step(t, from, to), UNCHANGED <<cnt, thr, byType, wrapper>>
      PROVE  Booked(t, from, to, {}, {}, {}, 0)
  BY <1>n, BookNothing
<1>1. CASE DoAlloc(t)
  <2> DEFINE call == arg[t]
             to == AfterDoAlloc(call, FALSE)
             S == IF call.info.count = 0
                  THEN {"zeroAlloc"} \cup (IF call.addr = Null THEN {"nullAndZeroAlloc"} ELSE {})
                  ELSE IF call.addr = Null THEN {"nullAlloc"} ELSE {}
  <2>1. CountStep(t, "doAlloc", IF call.addr = Null THEN to ELSE "put", S)
    BY <1>1 DEF DoAlloc
  <2>2. to \in {"heapCur", "push", "global"}
    BY <1>a, <1>b, <2>1 DEF CountStep, Step
  <2>3. CASE call.addr = Null
    <3> DEFINE k == IF call.info.count = 0 THEN "nullAndZeroAlloc" ELSE "nullAlloc"
    <3>1. \A c \in CountLedger : c \in S <=> c \in {k}
      BY <2>3
    <3>2. CountStep(t, "doAlloc", to, S)
      BY <2>1, <2>3
    <3>k. k \in {"nullAndZeroAlloc", "nullAlloc"}
      OBVIOUS
    <3> HIDE DEF S, to, k
    <3>3. Booked(t, "doAlloc", to, {k}, {}, {}, 0)
      BY <3>1, <3>2, BookCount
    <3>4. Repeats("doAlloc", to, {k}, {}, {}) /\ Accounts("doAlloc", to, {k}, {}, 0)
      BY <2>2, <3>k DEF Repeats, Accounts, Moved, Flag, AllocDue, FreeDue
    <3> QED
      BY <1>b, <1>l, <2>2, <3>3, <3>4, GivenMove
  <2>4. CASE call.addr # Null
    <3>1. \A c \in CountLedger : c \in S <=> c \in {}
      BY <2>4
    <3>2. CountStep(t, "doAlloc", "put", S)
      BY <2>1, <2>4
    <3> HIDE DEF S
    <3>3. Booked(t, "doAlloc", "put", {}, {}, {}, 0)
      BY <3>1, <3>2, BookCount
    <3> QED
      BY <1>c, <3>3, ClearMove
  <2> QED
    BY <2>3, <2>4
<1>2. CASE WrapperPut(t)
  <2> DEFINE a == arg[t].addr
             to == IF MapOverrides(wrapper, a) THEN "reuse" ELSE AfterDoAlloc(arg[t], FALSE)
             d == IF MapOverrides(wrapper, a) THEN 0 ELSE 1
  <2>1. /\ Step(t, "put", to) /\ wrapper' = MapPut(wrapper, a, arg[t].info)
        /\ UNCHANGED <<cnt, thr, byType>>
    BY <1>2 DEF WrapperPut, recVars
  <2>2. a \in Addrs /\ arg[t].info \in PointerInfo
    BY <1>a, <1>b, <1>f, <2>1 DEF Step, Fits
  <2>3. Cardinality(Keys(wrapper))' = Cardinality(Keys(wrapper)) + d
    BY <2>1, <2>2, KeysPut
  <2>r. AfterDoAlloc(arg[t], FALSE) \in {"heapCur", "push", "global"}
    BY <1>a, <1>b, <2>1 DEF Step
  <2>4. \/ d = 0 /\ to = "reuse"
        \/ d = 1 /\ to \in {"heapCur", "push", "global"}
    BY <2>r
  <2> HIDE DEF to, d
  <2>5. Booked(t, "put", to, {}, {}, {}, d)
    BY <2>1, <2>3, BookMap
  <2>6. Repeats("put", to, {}, {}, {}) /\ Accounts("put", to, {}, {}, d)
    BY <2>4 DEF Repeats, Accounts, Moved, Flag, AllocDue, FreeDue
  <2> QED
    BY <1>b, <1>l, <2>4, <2>5, <2>6, GivenMove
<1>3. CASE AddrReuse(t)
  <2> DEFINE to == AfterDoAlloc(arg[t], TRUE)
  <2>1. CountStep(t, "reuse", to, {"addrReuses"})
    BY <1>3 DEF AddrReuse
  <2>2. to \in {"heapCur", "push", "global"}
    BY <1>a, <1>b, <2>1 DEF CountStep, Step
  <2> HIDE DEF to
  <2>3. Booked(t, "reuse", to, {"addrReuses"}, {}, {}, 0)
    BY <2>1, BookCount
  <2>4. Repeats("reuse", to, {"addrReuses"}, {}, {}) /\ Accounts("reuse", to, {"addrReuses"}, {}, 0)
    BY <2>2 DEF Repeats, Accounts, Moved, Flag, AllocDue, FreeDue
  <2> QED
    BY <1>b, <1>l, <2>2, <2>3, <2>4, GivenMove
<1>4. CASE HeapCur(t)
  <2>1. CountStep(t, "heapCur", "heapLoad", {"curHeapAllocs"})
    BY <1>4 DEF HeapCur
  <2>2. Booked(t, "heapCur", "heapLoad", {}, {}, {}, 0)
    BY <2>1, BookCount
  <2> QED
    BY <2>2, ClearMove
<1>5. CASE HeapLoad(t) \/ MaxLoad(t) \/ MaxDone(t) \/ MaxRetry(t)
  <2>1. PICK from, to \in {"heapCur", "heapLoad", "maxLoad", "cas", "heapCount"} :
          Step(t, from, to) /\ UNCHANGED <<cnt, thr, byType, wrapper>>
    BY <1>5 DEF HeapLoad, MaxLoad, MaxDone, MaxRetry, recVars, mapVars
  <2> QED
    BY <1>n, <2>1, ClearMove
<1>6. CASE MaxSwap(t)
  <2>1. Step(t, "cas", "heapCount") /\ UNCHANGED <<thr, byType, wrapper>>
        /\ cnt' = [cnt EXCEPT !["maxHeapAllocs"] = newVal[t]]
    BY <1>6 DEF MaxSwap, mapVars
  <2>2. \A k \in CountLedger : cnt'[k] = cnt[k]
    BY <2>1 DEF TypeInv, TypeOK, Counters
  <2>3. Booked(t, "cas", "heapCount", {}, {}, {}, 0)
    BY <2>1, <2>2, BookNothing
  <2> QED
    BY <2>3, ClearMove
<1>7. CASE HeapCount(t)
  <2>1. CountStep(t, "heapCount", "heapThread", WithArray(arg[t].info, {"heapAllocs"}, {"heapArray"}))
    BY <1>7 DEF HeapCount
  <2>2. Booked(t, "heapCount", "heapThread", {"heapAllocs"}, {}, {}, 0)
    BY <2>1, BookCount DEF WithArray
  <2>3. /\ Repeats("heapCount", "heapThread", {"heapAllocs"}, {}, {})
        /\ Accounts("heapCount", "heapThread", {"heapAllocs"}, {}, 0)
    BY DEF Repeats, Accounts, Moved, Flag, AllocDue, FreeDue
  <2> QED
    BY <1>b, <1>l, <2>2, <2>3, GivenMove
<1>8. CASE HeapThread(t)
  <2>1. ThreadStep(t, "heapThread", "heapType", WithArray(arg[t].info, {"heapAllocs"}, {"heapArray"}))
    BY <1>8 DEF HeapThread
  <2>2. Booked(t, "heapThread", "heapType", {}, {"heapAllocs"}, {}, 0)
    BY <2>1, BookThread DEF WithArray
  <2>3. /\ Repeats("heapThread", "heapType", {}, {"heapAllocs"}, {})
        /\ Accounts("heapThread", "heapType", {}, {"heapAllocs"}, 0)
    BY DEF Repeats, Accounts, Moved, Flag, AllocDue, FreeDue
  <2> QED
    BY <1>b, <1>l, <2>2, <2>3, GivenMove
<1>9. CASE StackThread(t)
  <2>1. ThreadStep(t, "stackThread", "stackType",
                   WithArray(arg[t].info, {"curStackAllocs", "stackAllocs"}, {"stackArray"}))
    BY <1>9 DEF StackThread
  <2>2. Booked(t, "stackThread", "stackType", {}, {"stackAllocs"}, {}, 0)
    BY <2>1, BookThread DEF WithArray
  <2>3. /\ Repeats("stackThread", "stackType", {}, {"stackAllocs"}, {})
        /\ Accounts("stackThread", "stackType", {}, {"stackAllocs"}, 0)
    BY DEF Repeats, Accounts, Moved, Flag, AllocDue, FreeDue
  <2> QED
    BY <1>b, <1>l, <2>2, <2>3, GivenMove
<1>10. CASE GlobalCount(t)
  <2>1. CountStep(t, "global", "globalType", WithArray(arg[t].info, {"globalAllocs"}, {"globalArray"}))
    BY <1>10 DEF GlobalCount
  <2>2. Booked(t, "global", "globalType", {"globalAllocs"}, {}, {}, 0)
    BY <2>1, BookCount DEF WithArray
  <2>3. /\ Repeats("global", "globalType", {"globalAllocs"}, {}, {})
        /\ Accounts("global", "globalType", {"globalAllocs"}, {}, 0)
    BY DEF Repeats, Accounts, Moved, Flag, AllocDue, FreeDue
  <2> QED
    BY <1>b, <1>l, <2>2, <2>3, GivenMove
<1>11. CASE HeapType(t) \/ StackType(t) \/ GlobalType(t)
  <2>1. PICK from, to, m : /\ TypeStep(t, from, to, m, arg[t].info.typeId) /\ to \in {"omp", "return"}
                           /\ <<from, m>> \in {<<"heapType", "heapAlloc">>, <<"stackType", "stackAlloc">>,
                                               <<"globalType", "globalAlloc">>}
    BY <1>l, <1>11 DEF HeapType, StackType, GlobalType
  <2>2. m \in TypeMaps /\ from \in AllocLabels
    BY <1>b, <2>1 DEF TypeMaps
  <2>3. arg[t].info.typeId \in TypeIds
    BY <1>a, <2>1, <2>2 DEF TypeStep, Step
  <2>4. Booked(t, from, to, {}, {}, {m}, 0)
    BY <2>1, <2>2, <2>3, BookType
  <2>5. Repeats(from, to, {}, {}, {m}) /\ Accounts(from, to, {}, {}, 0)
    BY <2>1 DEF Repeats, Accounts, Moved, Flag, AllocDue, FreeDue
  <2> QED
    BY <1>l, <2>1, <2>2, <2>4, <2>5, GivenMove
<1>12. CASE PushStack(t)
  <2>1. Step(t, "push", "stackThread") /\ UNCHANGED <<cnt, thr, byType, wrapper>>
    BY <1>12 DEF PushStack, recVars, mapVars
  <2> QED
    BY <1>n, <2>1, ClearMove
<1> QED
  BY <1>1, <1>2, <1>3, <1>4, <1>5, <1>6, <1>7, <1>8, <1>9, <1>10, <1>11, <1>12 DEF AllocStep

LEMMA ProperFree ==
  ASSUME TypeInv, NEW t \in Threads, FreeStep(t)
  PROVE  Proper(t)
<1> USE DEF CountLedger, ThreadLedger
<1>f. Fits(pc[t], arg[t], ret[t], pos[t])
  BY DEF TypeInv, ControlOK
<1>l. /\ After(arg[t]) \in {"omp", "return"}
      /\ {"omp", "return", "doFree", "freeCount", "freeThread", "freeType", "decHeap"} \subseteq Labels
  BY AfterLabel DEF Labels, FreeLabels
<1>c. {"doFree", "decHeap", "omp", "return"} \subseteq Clear
  BY <1>l DEF Clear, AllocDue, FreeDue, ViewLabels
<1>1. CASE FreeNull(t)
  <2>1. Step(t, "doFree", After(arg[t])) /\ UNCHANGED <<cnt, thr, byType, wrapper>>
    BY <1>1 DEF FreeNull, recVars, mapVars
  <2>2. Booked(t, "doFree", After(arg[t]), {}, {}, {}, 0)
    BY <2>1, BookNothing
  <2> QED
    BY <1>c, <1>l, <2>2, ClearMove
<1>2. CASE WrapperRemove(t)
  <2> DEFINE a == arg[t].addr
             to == IF wrapper[a] = NoEntry THEN After(arg[t]) ELSE "freeCount"
             d == IF wrapper[a] = NoEntry THEN 0 ELSE -1
  <2>1. /\ Step(t, "doFree", to) /\ wrapper' = MapRemove(wrapper, a) /\ a # Null
        /\ UNCHANGED <<cnt, thr, byType>>
    BY <1>2 DEF WrapperRemove, recVars
  <2>2. a \in Addrs
    BY <1>f, <2>1 DEF Step, Fits, FreeLabels, FreeCalls
  <2>3. Cardinality(Keys(wrapper))' = Cardinality(Keys(wrapper)) + d
    BY <2>1, <2>2, KeysRemove, LedgerTypes
  <2>4. \/ d = 0 /\ to \in {"omp", "return"}
        \/ d = -1 /\ to = "freeCount"
    BY <1>l
  <2> HIDE DEF to, d
  <2>5. Booked(t, "doFree", to, {}, {}, {}, d)
    BY <2>1, <2>3, BookMap
  <2>6. Repeats("doFree", to, {}, {}, {}) /\ Accounts("doFree", to, {}, {}, d)
    BY <2>4 DEF Repeats, Accounts, Moved, Flag, AllocDue, FreeDue
  <2> QED
    BY <1>l, <2>4, <2>5, <2>6, GivenMove
<1>3. CASE FreeCount(t)
  <2>1. CountStep(t, "freeCount", "freeThread", WithArray(ret[t].entry, {"heapAllocsFree"}, {"heapArrayFree"}))
    BY <1>3 DEF FreeCount
  <2>2. Booked(t, "freeCount", "freeThread", {"heapAllocsFree"}, {}, {}, 0)
    BY <2>1, BookCount DEF WithArray
  <2>3. /\ Repeats("freeCount", "freeThread", {"heapAllocsFree"}, {}, {})
        /\ Accounts("freeCount", "freeThread", {"heapAllocsFree"}, {}, 0)
    BY DEF Repeats, Accounts, Moved, Flag, AllocDue, FreeDue
  <2> QED
    BY <1>l, <2>2, <2>3, GivenMove
<1>4. CASE FreeThread(t)
  <2>1. ThreadStep(t, "freeThread", "freeType", WithArray(ret[t].entry, {"heapAllocsFree"}, {"heapArrayFree"}))
    BY <1>4 DEF FreeThread
  <2>2. Booked(t, "freeThread", "freeType", {}, {"heapAllocsFree"}, {}, 0)
    BY <2>1, BookThread DEF WithArray
  <2>3. /\ Repeats("freeThread", "freeType", {}, {"heapAllocsFree"}, {})
        /\ Accounts("freeThread", "freeType", {}, {"heapAllocsFree"}, 0)
    BY DEF Repeats, Accounts, Moved, Flag, AllocDue, FreeDue
  <2> QED
    BY <1>l, <2>2, <2>3, GivenMove
<1>5. CASE FreeType(t)
  <2>1. TypeStep(t, "freeType", "decHeap", "heapFree", ret[t].entry.typeId)
    BY <1>5 DEF FreeType
  <2>2. ret[t].entry.typeId \in TypeIds
    BY <1>f, <2>1 DEF TypeStep, Step, Fits, PointerInfo
  <2>3. Booked(t, "freeType", "decHeap", {}, {}, {"heapFree"}, 0)
    BY <2>1, <2>2, BookType DEF TypeMaps
  <2>4. /\ Repeats("freeType", "decHeap", {}, {}, {"heapFree"})
        /\ Accounts("freeType", "decHeap", {}, {}, 0)
    BY DEF Repeats, Accounts, Moved, Flag, AllocDue, FreeDue
  <2> QED
    BY <1>l, <2>3, <2>4, GivenMove
<1>6. CASE DecHeap(t)
  <2>1. /\ Step(t, "decHeap", After(arg[t])) /\ UNCHANGED <<thr, byType, wrapper>>
        /\ cnt' = [cnt EXCEPT !["curHeapAllocs"] = cnt["curHeapAllocs"] - 1]
    BY <1>6 DEF DecHeap, mapVars
  <2>2. \A k \in CountLedger : cnt'[k] = cnt[k]
    BY <2>1 DEF TypeInv, TypeOK, Counters
  <2>3. Booked(t, "decHeap", After(arg[t]), {}, {}, {}, 0)
    BY <2>1, <2>2, BookNothing
  <2> QED
    BY <1>c, <1>l, <2>3, ClearMove
<1> QED
  BY <1>1, <1>2, <1>3, <1>4, <1>5, <1>6 DEF FreeStep

LEMMA ProperLeave ==
  ASSUME TypeInv, NEW t \in Threads, LeaveStep(t)
  PROVE  Proper(t)
<1> USE DEF CountLedger, ThreadLedger
<1>f. Fits(pc[t], arg[t], ret[t], pos[t])
  BY DEF TypeInv, ControlOK
<1>l. {"leave", "range", "rangeThread", "rangeType", "erase", "decStack", "return"} \subseteq Labels
  BY DEF Labels, LeaveLabels, LockLabels
<1>c. {"leave", "range", "erase", "decStack", "return"} \subseteq Clear
  BY <1>l DEF Clear, AllocDue, FreeDue, ViewLabels
<1>1. CASE LeaveLock(t) \/ RangeSkip(t) \/ RangeUnlock(t) \/ EraseStack(t)
  <2>1. PICK from, to \in {"leave", "range", "erase", "decStack", "return"} :
          Step(t, from, to) /\ UNCHANGED <<cnt, thr, byType, wrapper>>
    BY <1>1 DEF LeaveLock, RangeSkip, RangeUnlock, EraseStack, recVars, mapVars
  <2>2. Booked(t, from, to, {}, {}, {}, 0)
    BY <2>1, BookNothing
  <2> QED
    BY <1>c, <2>2, ClearMove
<1>2. CASE RangeRemove(t)
  <2> DEFINE a == stackVars[t][pos[t]]
  <2>1. /\ Step(t, "range", "rangeThread") /\ wrapper' = MapRemove(wrapper, a) /\ a # Null
        /\ wrapper[a] # NoEntry /\ pos[t] <= Len(stackVars[t]) /\ UNCHANGED <<cnt, thr, byType>>
    BY <1>2 DEF RangeRemove, recVars
  <2>2. a \in Addrs
    <3>1. pos[t] \in Nat /\ pos[t] >= 1 /\ stackVars[t] \in Seq(Addrs \cup {Null})
      BY <1>f, <2>1 DEF Step, Fits, LockLabels, TypeInv, TypeOK
    <3>2. pos[t] \in 1..Len(stackVars[t])
      BY <2>1, <3>1
    <3> QED
      BY <2>1, <3>1, <3>2
  <2>3. Cardinality(Keys(wrapper))' = Cardinality(Keys(wrapper)) + (-1)
    BY <2>1, <2>2, KeysRemove, LedgerTypes
  <2>4. Booked(t, "range", "rangeThread", {}, {}, {}, -1)
    BY <2>1, <2>3, BookMap
  <2>5. Repeats("range", "rangeThread", {}, {}, {}) /\ Accounts("range", "rangeThread", {}, {}, -1)
    BY DEF Repeats, Accounts, Moved, Flag, AllocDue, FreeDue
  <2> QED
    BY <1>l, <2>4, <2>5, GivenMove
<1>3. CASE RangeThread(t)
  <2>1. ThreadStep(t, "rangeThread", "rangeType", WithArray(ret[t].entry, {"stackAllocsFree"}, {"stackArrayFree"}))
    BY <1>3 DEF RangeThread
  <2>2. Booked(t, "rangeThread", "rangeType", {}, {"stackAllocsFree"}, {}, 0)
    BY <2>1, BookThread DEF WithArray
  <2>3. /\ Repeats("rangeThread", "rangeType", {}, {"stackAllocsFree"}, {})
        /\ Accounts("rangeThread", "rangeType", {}, {"stackAllocsFree"}, 0)
    BY DEF Repeats, Accounts, Moved, Flag, AllocDue, FreeDue
  <2> QED
    BY <1>l, <2>2, <2>3, GivenMove
<1>4. CASE RangeType(t)
  <2>1. TypeStep(t, "rangeType", "range", "stackFree", ret[t].entry.typeId)
    BY <1>4 DEF RangeType
  <2>2. ret[t].entry.typeId \in TypeIds
    BY <1>f, <2>1 DEF TypeStep, Step, Fits, PointerInfo
  <2>3. Booked(t, "rangeType", "range", {}, {}, {"stackFree"}, 0)
    BY <2>1, <2>2, BookType DEF TypeMaps
  <2>4. /\ Repeats("rangeType", "range", {}, {}, {"stackFree"})
        /\ Accounts("rangeType", "range", {}, {}, 0)
    BY DEF Repeats, Accounts, Moved, Flag, AllocDue, FreeDue
  <2> QED
    BY <1>l, <2>3, <2>4, GivenMove
<1>5. CASE DecStack(t)
  <2> DEFINE cur == thr[t]["curStackAllocs"]
             max == thr[t]["maxStackAllocs"]
             top == IF max < cur THEN cur ELSE max
             now == cur - arg[t].n
  <2>1. /\ Step(t, "decStack", "return") /\ UNCHANGED <<cnt, byType, wrapper>>
        /\ thr' = [thr EXCEPT ![t] = [thr[t] EXCEPT !["maxStackAllocs"] = top, !["curStackAllocs"] = now]]
    BY <1>5 DEF DecStack, mapVars
  <2> HIDE DEF top, now
  <2>2. thr \in [Threads -> [ThreadCounters -> Int]]
    BY DEF TypeInv, TypeOK
  <2>3. \A u \in Threads : \A k \in ThreadLedger : thr'[u][k] = thr[u][k]
    BY <2>1, <2>2 DEF ThreadCounters
  <2>4. Booked(t, "decStack", "return", {}, {}, {}, 0)
    BY <2>1, <2>3, BookNothing
  <2> QED
    BY <1>c, <2>4, ClearMove
<1> QED
  BY <1>1, <1>2, <1>3, <1>4, <1>5 DEF LeaveStep

LEMMA ProperRest ==
  ASSUME TypeInv, NEW t \in Threads, CallStep(t) \/ QueryStep(t) \/ OmpCount(t) \/ Return(t)
  PROVE  Proper(t)
<1> USE DEF CountLedger, ThreadLedger
<1>c. {"idle", "doAlloc", "doFree", "leave", "find", "used", "omp", "return"} \subseteq Clear
  BY DEF Clear, AllocDue, FreeDue, ViewLabels, Labels, AllocLabels, FreeLabels, LeaveLabels, QueryLabels
<1>1. CASE CallStep(t) \/ WrapperFind(t) \/ Return(t)
  <2>1. PICK from, to \in {"idle", "doAlloc", "doFree", "leave", "find", "used", "omp", "return"} :
          Step(t, from, to) /\ UNCHANGED <<cnt, thr, byType, wrapper>>
    BY <1>1 DEF CallStep, CallAlloc, CallFree, CallLeaveScope, CallQuery, Enter, WrapperFind, Return,
                recVars, mapVars
  <2>2. Booked(t, from, to, {}, {}, {}, 0)
    BY <2>1, BookNothing
  <2> QED
    BY <1>c, <2>2, ClearMove
<1>2. CASE UsedInRequest(t)
  <2>1. /\ Step(t, "used", "return") /\ UNCHANGED <<thr, byType, wrapper>>
        /\ cnt' = [cnt EXCEPT !["addrChecked"] = cnt["addrChecked"] + 1]
    BY <1>2 DEF UsedInRequest, mapVars
  <2>2. \A k \in CountLedger : cnt'[k] = cnt[k]
    BY <2>1 DEF TypeInv, TypeOK, Counters
  <2>3. Booked(t, "used", "return", {}, {}, {}, 0)
    BY <2>1, <2>2, BookNothing
  <2> QED
    BY <1>c, <2>3, ClearMove
<1>3. CASE OmpCount(t)
  <2> DEFINE k == OmpCounter[arg[t].op]
  <2>1. CountStep(t, "omp", "return", {k})
    BY <1>3 DEF OmpCount
  <2>2. arg[t].op \in {"heap", "stack", "free"}
    BY <2>1 DEF TypeInv, ControlOK, CountStep, Step, Fits
  <2>3. k \in {"omp_heap", "omp_stack", "omp_heap_free"}
    BY <2>2 DEF OmpCounter
  <2> HIDE DEF k
  <2>4. Booked(t, "omp", "return", {}, {}, {}, 0)
    BY <2>1, <2>3, BookCount
  <2> QED
    BY <1>c, <2>4, ClearMove
<1> QED
  BY <1>1, <1>2, <1>3 DEF QueryStep

-----------------------------------------------------------------------------
(* The invariant.                                                          *)

\* A properly booked step keeps the sums.
LEMMA ProperFlow ==
  ASSUME LedgerInv, NEW t \in Threads, Proper(t)
  PROVE  ViewFlow' /\ TableFlow'
<1>1. PICK from, to \in Labels, d \in Int : \E S, T, M :
        /\ Booked(t, from, to, S, T, M, d)
        /\ Repeats(from, to, S, T, M) /\ Accounts(from, to, S, T, d)
  BY DEF Proper
<1>2. PICK S, T, M : /\ Booked(t, from, to, S, T, M, d)
                     /\ Repeats(from, to, S, T, M) /\ Accounts(from, to, S, T, d)
  BY <1>1
<1>t. /\ \A k \in CountLedger : cnt[k] \in Int /\ cnt'[k] = cnt[k] + Flag(k, S)
      /\ \A k \in ThreadLedger : SumThreads(k) \in Int /\ SumThreads(k)' = SumThreads(k) + Flag(k, T)
      /\ \A m \in TypeMaps : SumTypes(m) \in Int /\ SumTypes(m)' = SumTypes(m) + Flag(m, M)
      /\ \A k, L : Flag(k, L) \in Int
  BY <1>2, LedgerTypes DEF Booked, CountLedger, Counters, ThreadLedger, ThreadCounters, Flag, LedgerInv
<1>m. \A L : /\ Cardinality(At(L)) \in Nat
             /\ Cardinality(At(L))' = Cardinality(At(L)) + Flag(to, L) - Flag(from, L)
  BY <1>2, MoveCount DEF Booked, LedgerInv
<1>3. ASSUME NEW l \in ViewLabels PROVE Ahead(l)' = Cardinality(At({l}))'
  <2> USE <1>t DEF CountLedger, ThreadLedger, TypeMaps
  <2>0. Ahead(l) = Cardinality(At({l})) /\ Cardinality(At({l})) \in Nat
        /\ Cardinality(At({l}))' = Cardinality(At({l})) + Flag(to, {l}) - Flag(from, {l})
    BY <1>m DEF LedgerInv, ViewFlow
  <2>1. CASE l = "heapThread"
    BY <1>2, <2>0, <2>1 DEF Repeats, Moved, Ahead
  <2>2. CASE l = "heapType"
    BY <1>2, <2>0, <2>2 DEF Repeats, Moved, Ahead
  <2>3. CASE l = "freeThread"
    BY <1>2, <2>0, <2>3 DEF Repeats, Moved, Ahead
  <2>4. CASE l = "freeType"
    BY <1>2, <2>0, <2>4 DEF Repeats, Moved, Ahead
  <2>5. CASE l = "stackType"
    BY <1>2, <2>0, <2>5 DEF Repeats, Moved, Ahead
  <2>6. CASE l = "rangeType"
    BY <1>2, <2>0, <2>6 DEF Repeats, Moved, Ahead
  <2>7. CASE l = "globalType"
    BY <1>2, <2>0, <2>7 DEF Repeats, Moved, Ahead
  <2> QED
    BY <2>1, <2>2, <2>3, <2>4, <2>5, <2>6, <2>7 DEF ViewLabels
<1>4. ViewFlow'
  BY <1>3 DEF ViewFlow
<1>5. TableFlow'
  <2>1. Cardinality(Keys(wrapper))' = Cardinality(Keys(wrapper)) + d /\ Cardinality(Keys(wrapper)) \in Nat
    BY <1>2, LedgerTypes DEF Booked, LedgerInv
  <2> QED
    BY <1>2, <1>t, <1>m, <2>1 DEF LedgerInv, TableFlow, Accounts, Moved, CountLedger, ThreadLedger
<1> QED
  BY <1>4, <1>5

LEMMA LedgerInit == Init => LedgerInv
<1> SUFFICES ASSUME Init PROVE LedgerInv
  OBVIOUS
<1>1. \A L : "idle" \notin L => Cardinality(At(L)) = 0
  <2>1. \A L : "idle" \notin L => At(L) = {}
    BY DEF Init, At
  <2> QED
    BY <2>1, FS_EmptySet
<1>2. /\ Cardinality(At(AllocDue)) = 0 /\ Cardinality(At(FreeDue)) = 0 /\ Cardinality(At({"reuse"})) = 0
      /\ \A l \in ViewLabels : Cardinality(At({l})) = 0
  BY <1>1 DEF AllocDue, FreeDue, ViewLabels
<1>3. \A k \in CountLedger : cnt[k] = 0
  BY DEF Init, CountLedger, Counters
<1>4. ASSUME NEW k \in ThreadLedger PROVE SumThreads(k) = 0
  <2> DEFINE f == [t \in Threads |-> thr[t][k]]
  <2>1. \A t \in Threads : f[t] = 0
    BY DEF Init, ThreadLedger, ThreadCounters
  <2> HIDE DEF f
  <2>2. SumFunctionOnSet(f, Threads) = 0
    BY <2>1, ThreadsAssumption, SumZero
  <2> QED
    BY <2>2 DEF f, SumThreads
<1>5. ASSUME NEW m \in TypeMaps PROVE SumTypes(m) = 0
  <2>1. \A id \in TypeIds : byType[m][id] = 0
    BY DEF Init
  <2> QED
    BY <2>1, TypeIdsAssumption, SumZero DEF SumTypes
<1>6. Cardinality(Keys(wrapper)) = 0
  <2>1. Keys(wrapper) = {}
    BY DEF Init, Keys
  <2> QED
    BY <2>1, FS_EmptySet
<1>7. TableFlow
  BY <1>2, <1>3, <1>4, <1>6 DEF TableFlow, CountLedger, ThreadLedger
<1>8. ASSUME NEW l \in ViewLabels PROVE Ahead(l) = 0
  BY <1>3, <1>4, <1>5 DEF Ahead, ViewLabels, CountLedger, ThreadLedger, TypeMaps
<1> QED
  BY <1>2, <1>7, <1>8, InitType DEF LedgerInv, ViewFlow

LEMMA LedgerNext == LedgerInv /\ [Next]_vars => LedgerInv'
<1> SUFFICES ASSUME LedgerInv, [Next]_vars PROVE LedgerInv'
  OBVIOUS
<1>1. TypeInv'
  BY NextType DEF LedgerInv
<1>2. ASSUME NEW t \in Threads, CallStep(t) \/ RuntimeStep(t) PROVE ViewFlow' /\ TableFlow'
  BY <1>2, ProperAlloc, ProperFree, ProperLeave, ProperRest, ProperFlow DEF LedgerInv, RuntimeStep
<1>3. CASE UNCHANGED vars
  <2>1. /\ At(AllocDue)' = At(AllocDue) /\ At({"reuse"})' = At({"reuse"}) /\ At(FreeDue)' = At(FreeDue)
        /\ \A k \in ThreadLedger : SumThreads(k)' = SumThreads(k)
        /\ \A k \in TypeMaps : SumTypes(k)' = SumTypes(k)
        /\ cnt' = cnt /\ Keys(wrapper)' = Keys(wrapper)
    BY <1>3 DEF vars, At, SumThreads, SumTypes
  <2>2. \A l \in ViewLabels : Ahead(l)' = Ahead(l)
    BY <2>1 DEF Ahead, ViewLabels, ThreadLedger, TypeMaps
  <2>3. ASSUME NEW l \in ViewLabels PROVE Ahead(l)' = Cardinality(At({l}))'
    <3>1. At({l})' = At({l})
      BY <1>3 DEF At, vars
    <3> QED
      BY <2>2, <3>1 DEF LedgerInv, ViewFlow
  <2>4. TableFlow'
    BY <2>1 DEF LedgerInv, TableFlow, ThreadLedger
  <2> QED
    BY <1>1, <2>3, <2>4 DEF ViewFlow, LedgerInv
<1> QED
  BY <1>1, <1>2, <1>3 DEF Next, Terminated, LedgerInv

\* At every instant the figures differ by the callbacks that are under way.
THEOREM LedgerInvariant == Spec => []LedgerInv
  BY LedgerInit, LedgerNext, PTL DEF Spec

\* The recorder accounts for every entry of the map when no callback is running.
THEOREM TableBalanced == Spec => []TableBalance
<1>1. LedgerInv => TableBalance
  <2> SUFFICES ASSUME LedgerInv, Quiescent
               PROVE  Cardinality(Keys(wrapper)) =
                          cnt["heapAllocs"] + SumThreads("stackAllocs") + cnt["globalAllocs"]
                        - cnt["nullAlloc"] - cnt["nullAndZeroAlloc"] - cnt["addrReuses"]
                        - cnt["heapAllocsFree"] - SumThreads("stackAllocsFree")
    BY DEF TableBalance
  <2>0. At(AllocDue) = {} /\ At({"reuse"}) = {} /\ At(FreeDue) = {}
    BY DEF Quiescent, At, AllocDue, FreeDue
  <2>1. /\ Cardinality(At(AllocDue)) = 0 /\ Cardinality(At({"reuse"})) = 0
        /\ Cardinality(At(FreeDue)) = 0
    BY <2>0, FS_EmptySet
  <2>2. /\ \A k \in CountLedger : cnt[k] \in Int
        /\ \A k \in ThreadLedger : SumThreads(k) \in Int
    BY LedgerTypes DEF LedgerInv, CountLedger, Counters, ThreadLedger, ThreadCounters
  <2> QED
    BY <2>1, <2>2 DEF LedgerInv, TableFlow, CountLedger, ThreadLedger
<1> QED
  BY <1>1, LedgerInvariant, PTL

\* The three views of the recorder agree when no callback is running.
THEOREM AllViewsAgree == Spec => []ViewsAgree
<1>1. LedgerInv => ViewsAgree
  <2> SUFFICES ASSUME LedgerInv, Quiescent
               PROVE  /\ cnt["heapAllocs"] = SumThreads("heapAllocs") /\ cnt["heapAllocs"] = SumTypes("heapAlloc")
                      /\ cnt["heapAllocsFree"] = SumThreads("heapAllocsFree")
                      /\ cnt["heapAllocsFree"] = SumTypes("heapFree")
                      /\ SumThreads("stackAllocs") = SumTypes("stackAlloc")
                      /\ SumThreads("stackAllocsFree") = SumTypes("stackFree")
                      /\ cnt["globalAllocs"] = SumTypes("globalAlloc")
    BY DEF ViewsAgree
  <2>1. \A l \in ViewLabels : At({l}) = {}
    BY DEF Quiescent, At, ViewLabels
  <2>2. \A l \in ViewLabels : Ahead(l) = 0
    BY <2>1, FS_EmptySet DEF LedgerInv, ViewFlow
  <2>3. /\ \A k \in CountLedger : cnt[k] \in Int
        /\ \A k \in ThreadLedger : SumThreads(k) \in Int
        /\ \A m \in TypeMaps : SumTypes(m) \in Int
    BY LedgerTypes DEF LedgerInv, CountLedger, Counters, ThreadLedger, ThreadCounters
  <2> QED
    BY <2>2, <2>3 DEF Ahead, ViewLabels, CountLedger, ThreadLedger, TypeMaps
<1> QED
  BY <1>1, LedgerInvariant, PTL

-----------------------------------------------------------------------------
(* The types.                                                              *)

\* The labels between the map operation and the entry of the type.
AllocAhead == AllocDue \cup {"heapThread", "heapType", "stackType", "globalType"}
FreeAhead  == FreeDue \cup {"freeThread", "freeType", "rangeType"}

\* Per type: entries of the map, allocations and frees whose map operation has
\* taken effect and is not recorded for the type, and what is recorded.
KeysOf(id)   == {a \in Keys(wrapper) : wrapper[a].typeId = id}
AllocsOf(id) == {u \in Threads : pc[u] \in AllocAhead /\ arg[u].info.typeId = id}
FreesOf(id)  == {u \in Threads : pc[u] \in FreeAhead /\ ret[u].entry.typeId = id}
Recorded(id) ==
    byType["heapAlloc"][id] + byType["stackAlloc"][id] + byType["globalAlloc"][id]
  - byType["heapFree"][id] - byType["stackFree"][id]

\* The map holds no more entries of a type than the recorded allocations and
\* frees of the type, and those under way, leave.
TypeFlow ==
  \A id \in TypeIds :
    Cardinality(KeysOf(id)) + Cardinality(FreesOf(id)) <= Recorded(id) + Cardinality(AllocsOf(id))

TypedInv == TypeInv /\ TypeFlow

\* Two finite sets that agree but for x.
LEMMA SizeMoved ==
  ASSUME NEW X, NEW Y, NEW x, IsFiniteSet(X), X \ {x} = Y \ {x}
  PROVE  /\ Cardinality(X) \in Nat /\ Cardinality(Y) \in Nat
         /\ Cardinality(Y) = Cardinality(X) + Flag(x, Y) - Flag(x, X)
<1>1. IsFiniteSet(X \ {x}) /\ Cardinality(X \ {x}) \in Nat
  BY FS_Subset, FS_CardinalityType
<1>2. ASSUME NEW Z, Z \ {x} = X \ {x}
      PROVE  Cardinality(Z) = Cardinality(X \ {x}) + Flag(x, Z)
  <2>1. CASE x \in Z
    <3>1. Z = (X \ {x}) \cup {x} /\ x \notin X \ {x}
      BY <1>2, <2>1
    <3>2. Cardinality((X \ {x}) \cup {x}) = Cardinality(X \ {x}) + 1
      BY <1>1, <3>1, FS_AddElement
    <3> QED
      BY <2>1, <3>1, <3>2 DEF Flag
  <2>2. CASE x \notin Z
    <3>1. Z = X \ {x}
      BY <1>2, <2>2
    <3> QED
      BY <1>1, <2>2, <3>1 DEF Flag
  <2> QED
    BY <2>1, <2>2
<1>3. /\ Cardinality(X) = Cardinality(X \ {x}) + Flag(x, X)
      /\ Cardinality(Y) = Cardinality(X \ {x}) + Flag(x, Y)
  BY <1>2
<1>4. \A Z : Flag(x, Z) \in {0, 1}
  BY DEF Flag
<1> QED
  BY <1>1, <1>3, <1>4

LEMMA TypedTypes ==
  ASSUME TypeInv, NEW id \in TypeIds
  PROVE  /\ IsFiniteSet(KeysOf(id)) /\ IsFiniteSet(AllocsOf(id)) /\ IsFiniteSet(FreesOf(id))
         /\ Cardinality(KeysOf(id)) \in Nat /\ Cardinality(AllocsOf(id)) \in Nat
         /\ Cardinality(FreesOf(id)) \in Nat
         /\ Recorded(id) \in Int /\ \A m \in TypeMaps : byType[m][id] \in Nat
<1>1. KeysOf(id) \subseteq Keys(wrapper) /\ AllocsOf(id) \subseteq Threads /\ FreesOf(id) \subseteq Threads
  BY DEF KeysOf, AllocsOf, FreesOf
<1>2. IsFiniteSet(KeysOf(id)) /\ IsFiniteSet(AllocsOf(id)) /\ IsFiniteSet(FreesOf(id))
  BY <1>1, LedgerTypes, ThreadsAssumption, FS_Subset
<1>3. \A m \in TypeMaps : byType[m][id] \in Nat
  BY DEF TypeInv, TypeOK
<1> QED
  BY <1>2, <1>3, FS_CardinalityType DEF Recorded, TypeMaps

\* t moves, its call or its answer may be replaced, and the others stay.
Alone(t, from, to) ==
  /\ Step(t, from, to)
  /\ \A u \in Threads \ {t} : arg'[u] = arg[u] /\ ret'[u] = ret[u]

LEMMA AloneMoves ==
  ASSUME TypeInv, NEW t \in Threads, NEW from, NEW to, Alone(t, from, to), NEW id \in TypeIds
  PROVE  /\ Cardinality(AllocsOf(id))' =
              Cardinality(AllocsOf(id)) + (IF to \in AllocAhead /\ arg'[t].info.typeId = id THEN 1 ELSE 0)
                                        - (IF from \in AllocAhead /\ arg[t].info.typeId = id THEN 1 ELSE 0)
         /\ Cardinality(FreesOf(id))' =
              Cardinality(FreesOf(id)) + (IF to \in FreeAhead /\ ret'[t].entry.typeId = id THEN 1 ELSE 0)
                                       - (IF from \in FreeAhead /\ ret[t].entry.typeId = id THEN 1 ELSE 0)
<1>1. pc[t] = from /\ pc'[t] = to /\ \A u \in Threads \ {t} : pc'[u] = pc[u]
  BY DEF Alone, Step, TypeInv, TypeOK
<1>2. AllocsOf(id) \ {t} = AllocsOf(id)' \ {t} /\ FreesOf(id) \ {t} = FreesOf(id)' \ {t}
  BY <1>1 DEF Alone, AllocsOf, FreesOf
<1>3. /\ Flag(t, AllocsOf(id)) = IF from \in AllocAhead /\ arg[t].info.typeId = id THEN 1 ELSE 0
      /\ Flag(t, AllocsOf(id)') = IF to \in AllocAhead /\ arg'[t].info.typeId = id THEN 1 ELSE 0
      /\ Flag(t, FreesOf(id)) = IF from \in FreeAhead /\ ret[t].entry.typeId = id THEN 1 ELSE 0
      /\ Flag(t, FreesOf(id)') = IF to \in FreeAhead /\ ret'[t].entry.typeId = id THEN 1 ELSE 0
  BY <1>1 DEF Flag, AllocsOf, FreesOf
<1>4. /\ Cardinality(AllocsOf(id)') = Cardinality(AllocsOf(id)) + Flag(t, AllocsOf(id)') - Flag(t, AllocsOf(id))
      /\ Cardinality(FreesOf(id)') = Cardinality(FreesOf(id)) + Flag(t, FreesOf(id)') - Flag(t, FreesOf(id))
  BY <1>2, TypedTypes, SizeMoved
<1>5. Cardinality(AllocsOf(id))' = Cardinality(AllocsOf(id)') /\ Cardinality(FreesOf(id))' = Cardinality(FreesOf(id)')
  OBVIOUS
<1> QED
  BY <1>3, <1>4, <1>5

\* A step that leaves map and records alone, and no callback's entry out.
LEMMA TypedKept ==
  ASSUME TypedInv, NEW t \in Threads, NEW from, NEW to, Alone(t, from, to), UNCHANGED <<wrapper, byType>>,
         from \in AllocAhead => to \in AllocAhead /\ arg'[t].info = arg[t].info,
         to \in FreeAhead => from \in FreeAhead /\ ret'[t].entry = ret[t].entry
  PROVE  TypeFlow'
<1> SUFFICES ASSUME NEW id \in TypeIds
             PROVE  Cardinality(KeysOf(id))' + Cardinality(FreesOf(id))'
                      <= Recorded(id)' + Cardinality(AllocsOf(id))'
  BY DEF TypeFlow
<1>0. TypeInv
  BY DEF TypedInv
<1>1. Cardinality(KeysOf(id))' = Cardinality(KeysOf(id)) /\ Recorded(id)' = Recorded(id)
  BY DEF KeysOf, Keys, Recorded
<1>2. Cardinality(KeysOf(id)) + Cardinality(FreesOf(id)) <= Recorded(id) + Cardinality(AllocsOf(id))
  BY DEF TypedInv, TypeFlow
<1>3. /\ Cardinality(AllocsOf(id))' =
           Cardinality(AllocsOf(id)) + (IF to \in AllocAhead /\ arg'[t].info.typeId = id THEN 1 ELSE 0)
                                     - (IF from \in AllocAhead /\ arg[t].info.typeId = id THEN 1 ELSE 0)
      /\ Cardinality(FreesOf(id))' =
           Cardinality(FreesOf(id)) + (IF to \in FreeAhead /\ ret'[t].entry.typeId = id THEN 1 ELSE 0)
                                    - (IF from \in FreeAhead /\ ret[t].entry.typeId = id THEN 1 ELSE 0)
  BY <1>0, AloneMoves
<1> QED
  BY <1>0, <1>1, <1>2, <1>3, TypedTypes

\* The type of an allocation is recorded, at last.
LEMMA AllocTyped ==
  ASSUME TypedInv, NEW t \in Threads, NEW from, NEW to, NEW m \in {"heapAlloc", "stackAlloc", "globalAlloc"},
         arg[t].info.typeId \in TypeIds, TypeStep(t, from, to, m, arg[t].info.typeId),
         to \notin FreeAhead
  PROVE  TypeFlow'
<1> SUFFICES ASSUME NEW id \in TypeIds
             PROVE  Cardinality(KeysOf(id))' + Cardinality(FreesOf(id))'
                      <= Recorded(id)' + Cardinality(AllocsOf(id))'
  BY DEF TypeFlow
<1>0. TypeInv
  BY DEF TypedInv
<1>1. Cardinality(KeysOf(id))' = Cardinality(KeysOf(id))
  BY DEF KeysOf, Keys, TypeStep, mapVars
<1>2. Cardinality(KeysOf(id)) + Cardinality(FreesOf(id)) <= Recorded(id) + Cardinality(AllocsOf(id))
  BY DEF TypedInv, TypeFlow
<1>3. Alone(t, from, to) /\ arg'[t] = arg[t]
  BY DEF TypeStep, Alone
<1>4. /\ Cardinality(AllocsOf(id))' =
           Cardinality(AllocsOf(id)) + (IF to \in AllocAhead /\ arg'[t].info.typeId = id THEN 1 ELSE 0)
                                     - (IF from \in AllocAhead /\ arg[t].info.typeId = id THEN 1 ELSE 0)
      /\ Cardinality(FreesOf(id))' =
           Cardinality(FreesOf(id)) + (IF to \in FreeAhead /\ ret'[t].entry.typeId = id THEN 1 ELSE 0)
                                    - (IF from \in FreeAhead /\ ret[t].entry.typeId = id THEN 1 ELSE 0)
  BY <1>0, <1>3, AloneMoves
<1>5. Recorded(id)' = Recorded(id) + (IF id = arg[t].info.typeId THEN 1 ELSE 0)
  <2>1. byType \in [TypeMaps -> [TypeIds -> Nat]]
    BY <1>0 DEF TypeInv, TypeOK
  <2>2. /\ byType'[m][id] = byType[m][id] + (IF id = arg[t].info.typeId THEN 1 ELSE 0)
        /\ \A n \in TypeMaps : n # m => byType'[n][id] = byType[n][id]
    BY <2>1 DEF TypeStep, TypeMaps
  <2> QED
    BY <1>0, <2>2, TypedTypes DEF Recorded, TypeMaps
<1> QED
  BY <1>0, <1>2, <1>1, <1>3, <1>4, <1>5, TypedTypes

\* ... and the type of a free.
LEMMA FreeTyped ==
  ASSUME TypedInv, NEW t \in Threads, NEW from \in FreeAhead, NEW to, NEW m \in {"heapFree", "stackFree"},
         ret[t].entry.typeId \in TypeIds, TypeStep(t, from, to, m, ret[t].entry.typeId),
         from \notin AllocAhead, to \notin FreeAhead
  PROVE  TypeFlow'
<1> SUFFICES ASSUME NEW id \in TypeIds
             PROVE  Cardinality(KeysOf(id))' + Cardinality(FreesOf(id))'
                      <= Recorded(id)' + Cardinality(AllocsOf(id))'
  BY DEF TypeFlow
<1>0. TypeInv
  BY DEF TypedInv
<1>1. Cardinality(KeysOf(id))' = Cardinality(KeysOf(id))
  BY DEF KeysOf, Keys, TypeStep, mapVars
<1>2. Cardinality(KeysOf(id)) + Cardinality(FreesOf(id)) <= Recorded(id) + Cardinality(AllocsOf(id))
  BY DEF TypedInv, TypeFlow
<1>3. Alone(t, from, to)
  BY DEF TypeStep, Alone
<1>4. /\ Cardinality(AllocsOf(id))' =
           Cardinality(AllocsOf(id)) + (IF to \in AllocAhead /\ arg'[t].info.typeId = id THEN 1 ELSE 0)
                                     - (IF from \in AllocAhead /\ arg[t].info.typeId = id THEN 1 ELSE 0)
      /\ Cardinality(FreesOf(id))' =
           Cardinality(FreesOf(id)) + (IF to \in FreeAhead /\ ret'[t].entry.typeId = id THEN 1 ELSE 0)
                                    - (IF from \in FreeAhead /\ ret[t].entry.typeId = id THEN 1 ELSE 0)
  BY <1>0, <1>3, AloneMoves
<1>5. Recorded(id)' = Recorded(id) - (IF id = ret[t].entry.typeId THEN 1 ELSE 0)
  <2>1. byType \in [TypeMaps -> [TypeIds -> Nat]]
    BY <1>0 DEF TypeInv, TypeOK
  <2>2. /\ byType'[m][id] = byType[m][id] + (IF id = ret[t].entry.typeId THEN 1 ELSE 0)
        /\ \A n \in TypeMaps : n # m => byType'[n][id] = byType[n][id]
    BY <2>1 DEF TypeStep, TypeMaps
  <2> QED
    BY <1>0, <2>2, TypedTypes DEF Recorded, TypeMaps
<1> QED
  BY <1>0, <1>2, <1>1, <1>3, <1>4, <1>5, TypedTypes

\* An entry is put into the map; it may replace one of any type.
LEMMA PutTyped ==
  ASSUME TypedInv, NEW t \in Threads, WrapperPut(t), arg[t].addr \in Addrs, arg[t].info \in PointerInfo,
         NEW to \in AllocAhead, Step(t, "put", to)
  PROVE  TypeFlow'
<1> SUFFICES ASSUME NEW id \in TypeIds
             PROVE  Cardinality(KeysOf(id))' + Cardinality(FreesOf(id))'
                      <= Recorded(id)' + Cardinality(AllocsOf(id))'
  BY DEF TypeFlow
<1> DEFINE a == arg[t].addr
<1>0. TypeInv
  BY DEF TypedInv
<1>2. Cardinality(KeysOf(id)) + Cardinality(FreesOf(id)) <= Recorded(id) + Cardinality(AllocsOf(id))
  BY DEF TypedInv, TypeFlow
<1>3. /\ Alone(t, "put", to) /\ arg'[t] = arg[t] /\ byType' = byType
      /\ wrapper' = MapPut(wrapper, a, arg[t].info)
  BY <1>0 DEF WrapperPut, Alone, recVars, TypeInv, TypeOK
<1>4. /\ Cardinality(AllocsOf(id))' =
           Cardinality(AllocsOf(id)) + (IF to \in AllocAhead /\ arg'[t].info.typeId = id THEN 1 ELSE 0)
                                     - (IF "put" \in AllocAhead /\ arg[t].info.typeId = id THEN 1 ELSE 0)
      /\ Cardinality(FreesOf(id))' =
           Cardinality(FreesOf(id)) + (IF to \in FreeAhead /\ ret'[t].entry.typeId = id THEN 1 ELSE 0)
                                    - (IF "put" \in FreeAhead /\ ret[t].entry.typeId = id THEN 1 ELSE 0)
  BY <1>0, <1>3, AloneMoves
<1>5. "put" \notin AllocAhead /\ "put" \notin FreeAhead /\ to \notin FreeAhead
  BY DEF AllocAhead, FreeAhead, AllocDue, FreeDue
<1>6. Recorded(id)' = Recorded(id)
  BY <1>3 DEF Recorded
<1>7. wrapper \in [Addrs -> PointerInfo \cup {NoEntry}] /\ NoEntry \notin PointerInfo
  BY <1>0, NoEntryAssumption DEF TypeInv, TypeOK, Maps
<1>8. KeysOf(id) \ {a} = KeysOf(id)' \ {a} /\ (a \in KeysOf(id)' <=> arg[t].info.typeId = id)
  BY <1>3, <1>7 DEF MapPut, KeysOf, Keys
<1>9. Cardinality(KeysOf(id)') = Cardinality(KeysOf(id)) + Flag(a, KeysOf(id)') - Flag(a, KeysOf(id))
  BY <1>0, <1>8, TypedTypes, SizeMoved
<1>10. Cardinality(KeysOf(id))' = Cardinality(KeysOf(id)')
  OBVIOUS
<1> QED
  BY <1>0, <1>2, <1>3, <1>4, <1>5, <1>6, <1>8, <1>9, <1>10, TypedTypes DEF Flag

\* An entry is removed from the map.
LEMMA RemoveTyped ==
  ASSUME TypedInv, NEW t \in Threads, NEW a \in Addrs, wrapper[a] # NoEntry,
         NEW from, NEW to, Step(t, from, to), from \notin FreeAhead, from \notin AllocAhead,
         wrapper' = MapRemove(wrapper, a), UNCHANGED byType,
         ret' = [ret EXCEPT ![t] = [op |-> "remove", entry |-> wrapper[a]]],
         \A u \in Threads \ {t} : arg'[u] = arg[u]
  PROVE  TypeFlow'
<1> SUFFICES ASSUME NEW id \in TypeIds
             PROVE  Cardinality(KeysOf(id))' + Cardinality(FreesOf(id))'
                      <= Recorded(id)' + Cardinality(AllocsOf(id))'
  BY DEF TypeFlow
<1>0. TypeInv
  BY DEF TypedInv
<1>2. Cardinality(KeysOf(id)) + Cardinality(FreesOf(id)) <= Recorded(id) + Cardinality(AllocsOf(id))
  BY DEF TypedInv, TypeFlow
<1>3. Alone(t, from, to) /\ ret'[t].entry = wrapper[a]
  BY <1>0 DEF Alone, TypeInv, TypeOK
<1>4. /\ Cardinality(AllocsOf(id))' =
           Cardinality(AllocsOf(id)) + (IF to \in AllocAhead /\ arg'[t].info.typeId = id THEN 1 ELSE 0)
                                     - (IF from \in AllocAhead /\ arg[t].info.typeId = id THEN 1 ELSE 0)
      /\ Cardinality(FreesOf(id))' =
           Cardinality(FreesOf(id)) + (IF to \in FreeAhead /\ ret'[t].entry.typeId = id THEN 1 ELSE 0)
                                    - (IF from \in FreeAhead /\ ret[t].entry.typeId = id THEN 1 ELSE 0)
  BY <1>0, <1>3, AloneMoves
<1>6. Recorded(id)' = Recorded(id)
  BY DEF Recorded
<1>7. wrapper \in [Addrs -> PointerInfo \cup {NoEntry}]
  BY <1>0 DEF TypeInv, TypeOK, Maps
<1>8. /\ KeysOf(id) \ {a} = KeysOf(id)' \ {a} /\ a \notin KeysOf(id)'
      /\ a \in KeysOf(id) <=> wrapper[a].typeId = id
  BY <1>7 DEF MapRemove, KeysOf, Keys
<1>9. Cardinality(KeysOf(id)') = Cardinality(KeysOf(id)) + Flag(a, KeysOf(id)') - Flag(a, KeysOf(id))
  BY <1>0, <1>8, TypedTypes, SizeMoved
<1>10. Cardinality(KeysOf(id))' = Cardinality(KeysOf(id)')
  OBVIOUS
<1> QED
  BY <1>0, <1>2, <1>3, <1>4, <1>6, <1>8, <1>9, <1>10, TypedTypes DEF Flag

LEMMA TypedAllocs ==
  ASSUME TypedInv, NEW t \in Threads, AllocStep(t)
  PROVE  TypeFlow'
<1> USE DEF AllocAhead, FreeAhead, AllocDue, FreeDue
<1>i. TypeInv
  BY DEF TypedInv
<1>f. Fits(pc[t], arg[t], ret[t], pos[t])
  BY <1>i DEF TypeInv, ControlOK
<1>b. AllocLabels = {"doAlloc", "put", "reuse", "global", "globalType", "heapCur", "heapLoad", "maxLoad",
                     "cas", "heapCount", "heapThread", "heapType", "push", "stackThread", "stackType"}
  BY DEF AllocLabels, HeapLabels, StackLabels
<1>a. ASSUME pc[t] \in AllocLabels
      PROVE  /\ arg[t].info \in PointerInfo /\ arg[t].info.typeId \in TypeIds
             /\ \A o \in BOOLEAN : AfterDoAlloc(arg[t], o) \in {"heapCur", "push", "global"}
  <2>1. arg[t] \in AllocCalls
    BY <1>f, <1>a DEF Fits
  <2>2. arg[t].info \in PointerInfo
    BY <2>1 DEF AllocCalls
  <2> QED
    BY <2>1, <2>2, AlwaysRecorded DEF PointerInfo
<1>k. ASSUME NEW from, NEW to, Step(t, from, to), UNCHANGED <<wrapper, byType, arg, ret>>,
             to \in AllocAhead, from \notin FreeAhead
      PROVE  TypeFlow'
  <2>1. Alone(t, from, to)
    BY <1>k DEF Alone
  <2> QED
    BY <1>k, <2>1, TypedKept
<1>1. CASE DoAlloc(t)
  <2> DEFINE to == IF arg[t].addr = Null THEN AfterDoAlloc(arg[t], FALSE) ELSE "put"
  <2>1. Step(t, "doAlloc", to) /\ UNCHANGED <<wrapper, byType, arg, ret>>
    BY <1>1 DEF DoAlloc, CountStep, mapVars
  <2>2. AfterDoAlloc(arg[t], FALSE) \in {"heapCur", "push", "global"}
    BY <1>a, <1>b, <2>1 DEF Step
  <2>3. to \in {"put", "heapCur", "push", "global"}
    BY <2>2
  <2> HIDE DEF to
  <2>4. Alone(t, "doAlloc", to)
    BY <2>1 DEF Alone
  <2> QED
    BY <2>1, <2>3, <2>4, TypedKept
<1>2. CASE WrapperPut(t)
  <2> DEFINE to == IF MapOverrides(wrapper, arg[t].addr) THEN "reuse" ELSE AfterDoAlloc(arg[t], FALSE)
  <2>1. Step(t, "put", to)
    BY <1>2 DEF WrapperPut
  <2>2. AfterDoAlloc(arg[t], FALSE) \in {"heapCur", "push", "global"}
    BY <1>a, <1>b, <2>1 DEF Step
  <2>3. to \in AllocAhead
    BY <2>2
  <2>4. arg[t].addr \in Addrs /\ arg[t].info \in PointerInfo
    BY <1>a, <1>b, <1>f, <2>1 DEF Step, Fits
  <2> HIDE DEF to
  <2> QED
    BY <1>2, <2>1, <2>3, <2>4, PutTyped
<1>3. CASE AddrReuse(t)
  <2>1. Step(t, "reuse", AfterDoAlloc(arg[t], TRUE)) /\ UNCHANGED <<wrapper, byType, arg, ret>>
    BY <1>3 DEF AddrReuse, CountStep, mapVars
  <2>2. AfterDoAlloc(arg[t], TRUE) \in {"heapCur", "push", "global"}
    BY <1>a, <1>b, <2>1 DEF Step
  <2> QED
    BY <1>k, <2>1, <2>2
<1>4. CASE HeapCur(t) \/ HeapCount(t) \/ GlobalCount(t)
  BY <1>4, <1>k DEF HeapCur, HeapCount, GlobalCount, CountStep, mapVars
<1>5. CASE HeapLoad(t) \/ MaxLoad(t) \/ MaxDone(t) \/ MaxSwap(t) \/ MaxRetry(t)
  BY <1>5, <1>k DEF HeapLoad, MaxLoad, MaxDone, MaxSwap, MaxRetry, mapVars, recVars
<1>6. CASE HeapThread(t) \/ StackThread(t)
  BY <1>6, <1>k DEF HeapThread, StackThread, ThreadStep, mapVars
<1>7. CASE PushStack(t)
  BY <1>7, <1>k DEF PushStack, mapVars, recVars
<1>8. CASE HeapType(t) \/ StackType(t) \/ GlobalType(t)
  <2>1. PICK from \in AllocLabels, to \in {"omp", "return"}, m \in {"heapAlloc", "stackAlloc", "globalAlloc"} :
          TypeStep(t, from, to, m, arg[t].info.typeId)
    BY <1>8, <1>b, AfterLabel DEF HeapType, StackType, GlobalType
  <2>2. arg[t].info.typeId \in TypeIds
    BY <1>a, <2>1 DEF TypeStep, Step
  <2> QED
    BY <2>1, <2>2, AllocTyped
<1> QED
  BY <1>1, <1>2, <1>3, <1>4, <1>5, <1>6, <1>7, <1>8 DEF AllocStep

LEMMA TypedRest ==
  ASSUME TypedInv, NEW t \in Threads,
         CallStep(t) \/ FreeStep(t) \/ LeaveStep(t) \/ QueryStep(t) \/ OmpCount(t) \/ Return(t)
  PROVE  TypeFlow'
<1> USE DEF AllocAhead, FreeAhead, AllocDue, FreeDue
<1>i. TypeInv
  BY DEF TypedInv
<1>f. Fits(pc[t], arg[t], ret[t], pos[t])
  BY <1>i DEF TypeInv, ControlOK
<1>m. UNCHANGED mapVars => UNCHANGED wrapper
  BY DEF mapVars
<1>e. After(arg[t]) \in {"omp", "return"}
  BY AfterLabel
<1>k. ASSUME NEW from, NEW to, Step(t, from, to), UNCHANGED <<wrapper, byType>>,
             \A u \in Threads \ {t} : arg'[u] = arg[u] /\ ret'[u] = ret[u],
             from \notin AllocAhead, to \notin FreeAhead
      PROVE  TypeFlow'
  <2>1. Alone(t, from, to)
    BY <1>k DEF Alone
  <2> QED
    BY <1>k, <2>1, TypedKept
<1>1. CASE CallStep(t)
  <2>1. PICK label \in {"doAlloc", "doFree", "leave", "find"} : \E call : Enter(t, call, label)
    BY <1>1 DEF CallStep, CallAlloc, CallFree, CallLeaveScope, CallQuery
  <2>2. /\ Step(t, "idle", label) /\ UNCHANGED <<wrapper, byType, ret>>
        /\ \A u \in Threads \ {t} : arg'[u] = arg[u]
    BY <2>1, <1>i DEF Enter, mapVars, recVars, TypeInv, TypeOK
  <2> QED
    BY <1>k, <2>2
<1>2. CASE FreeNull(t)
  <2>1. Step(t, "doFree", After(arg[t])) /\ UNCHANGED <<wrapper, byType, arg, ret>>
    BY <1>2 DEF FreeNull, mapVars, recVars
  <2> QED
    BY <1>e, <1>k, <2>1
<1>3. CASE WrapperRemove(t)
  <2> DEFINE a == arg[t].addr
             to == IF wrapper[a] = NoEntry THEN After(arg[t]) ELSE "freeCount"
  <2>1. /\ Step(t, "doFree", to) /\ a # Null /\ wrapper' = MapRemove(wrapper, a)
        /\ UNCHANGED <<byType, arg>> /\ ret' = [ret EXCEPT ![t] = [op |-> "remove", entry |-> wrapper[a]]]
    BY <1>3 DEF WrapperRemove, recVars
  <2>2. a \in Addrs
    BY <1>f, <2>1 DEF Step, Fits, FreeLabels, FreeCalls
  <2>3. CASE wrapper[a] = NoEntry
    <3>1. Step(t, "doFree", After(arg[t]))
      BY <2>1, <2>3
    <3>2. wrapper' = wrapper
      BY <1>i, <2>1, <2>2, <2>3 DEF MapRemove, TypeInv, TypeOK, Maps
    <3>3. \A u \in Threads \ {t} : ret'[u] = ret[u]
      BY <1>i, <2>1 DEF TypeInv, TypeOK
    <3> QED
      BY <1>e, <1>k, <2>1, <3>1, <3>2, <3>3
  <2>4. CASE wrapper[a] # NoEntry
    <3>1. Step(t, "doFree", "freeCount")
      BY <2>1, <2>4
    <3> QED
      BY <2>1, <2>2, <2>4, <3>1, RemoveTyped
  <2> QED
    BY <2>3, <2>4
<1>4. CASE FreeCount(t) \/ FreeThread(t) \/ RangeThread(t)
  <2>1. PICK from, to \in FreeAhead :
          Step(t, from, to) /\ UNCHANGED <<wrapper, byType, arg, ret>>
    BY <1>4 DEF FreeCount, FreeThread, RangeThread, CountStep, ThreadStep, mapVars
  <2>2. Alone(t, from, to)
    BY <2>1 DEF Alone
  <2> QED
    BY <2>1, <2>2, TypedKept
<1>5. CASE FreeType(t) \/ RangeType(t)
  <2>1. PICK from \in {"freeType", "rangeType"}, to \in {"decHeap", "range"}, m \in {"heapFree", "stackFree"} :
          TypeStep(t, from, to, m, ret[t].entry.typeId)
    BY <1>5 DEF FreeType, RangeType
  <2>2. ret[t].entry.typeId \in TypeIds
    BY <1>f, <2>1 DEF TypeStep, Step, Fits, PointerInfo
  <2> QED
    BY <2>1, <2>2, FreeTyped
<1>6. CASE DecHeap(t)
  <2>1. Step(t, "decHeap", After(arg[t])) /\ UNCHANGED <<wrapper, byType, arg, ret>>
    BY <1>6 DEF DecHeap, mapVars
  <2> QED
    BY <1>e, <1>k, <2>1
<1>7. CASE LeaveLock(t) \/ RangeSkip(t) \/ RangeUnlock(t) \/ EraseStack(t) \/ DecStack(t)
  <2>1. PICK from, to \in {"leave", "range", "erase", "decStack", "return"} :
          Step(t, from, to) /\ UNCHANGED <<wrapper, byType, ret>>
    BY <1>7 DEF LeaveLock, RangeSkip, RangeUnlock, EraseStack, DecStack, mapVars, recVars
  <2>2. \A u \in Threads \ {t} : arg'[u] = arg[u]
    BY <1>7, <1>i DEF LeaveLock, RangeSkip, RangeUnlock, EraseStack, DecStack, TypeInv, TypeOK
  <2> QED
    BY <1>k, <2>1, <2>2
<1>8. CASE RangeRemove(t)
  <2> DEFINE a == stackVars[t][pos[t]]
  <2>1. /\ Step(t, "range", "rangeThread") /\ a # Null /\ wrapper[a] # NoEntry
        /\ wrapper' = MapRemove(wrapper, a) /\ pos[t] <= Len(stackVars[t])
        /\ UNCHANGED <<byType, arg>> /\ ret' = [ret EXCEPT ![t] = [op |-> "remove", entry |-> wrapper[a]]]
    BY <1>8 DEF RangeRemove, recVars
  <2>2. a \in Addrs
    <3>1. pos[t] \in Nat /\ pos[t] >= 1 /\ stackVars[t] \in Seq(Addrs \cup {Null})
      BY <1>f, <1>i, <2>1 DEF Step, Fits, LockLabels, TypeInv, TypeOK
    <3>2. pos[t] \in 1..Len(stackVars[t])
      BY <2>1, <3>1
    <3> QED
      BY <2>1, <3>1, <3>2
  <2> HIDE DEF a
  <2> QED
    BY <2>1, <2>2, RemoveTyped
<1>9. CASE QueryStep(t) \/ Return(t)
  <2>1. PICK from, to \in {"find", "used", "return", "idle"} :
          Step(t, from, to) /\ UNCHANGED <<wrapper, byType>>
    BY <1>9 DEF QueryStep, WrapperFind, UsedInRequest, Return, mapVars, recVars
  <2>2. \A u \in Threads \ {t} : arg'[u] = arg[u] /\ ret'[u] = ret[u]
    BY <1>9, <1>i DEF QueryStep, WrapperFind, UsedInRequest, Return, TypeInv, TypeOK
  <2> QED
    BY <1>k, <2>1, <2>2
<1>10. CASE OmpCount(t)
  <2>1. Step(t, "omp", "return") /\ UNCHANGED <<wrapper, byType, arg, ret>>
    BY <1>10 DEF OmpCount, CountStep, mapVars
  <2> QED
    BY <1>k, <2>1
<1> QED
  BY <1>1, <1>2, <1>3, <1>4, <1>5, <1>6, <1>7, <1>8, <1>9, <1>10 DEF FreeStep, LeaveStep

LEMMA TypedInit == Init => TypedInv
<1> SUFFICES ASSUME Init PROVE TypedInv
  OBVIOUS
<1>1. ASSUME NEW id \in TypeIds
      PROVE  Cardinality(KeysOf(id)) + Cardinality(FreesOf(id)) <= Recorded(id) + Cardinality(AllocsOf(id))
  <2>1. KeysOf(id) = {} /\ FreesOf(id) = {} /\ AllocsOf(id) = {}
    BY DEF Init, KeysOf, Keys, FreesOf, AllocsOf, FreeAhead, AllocAhead, FreeDue, AllocDue
  <2>2. Recorded(id) = 0
    BY DEF Init, Recorded, TypeMaps
  <2> QED
    BY <2>1, <2>2, FS_EmptySet
<1> QED
  BY <1>1, InitType DEF TypedInv, TypeFlow

LEMMA TypedNext == TypedInv /\ [Next]_vars => TypedInv'
<1> SUFFICES ASSUME TypedInv, [Next]_vars PROVE TypedInv'
  OBVIOUS
<1>1. TypeInv'
  BY NextType DEF TypedInv
<1>2. ASSUME NEW t \in Threads, CallStep(t) \/ RuntimeStep(t) PROVE TypeFlow'
  BY <1>2, TypedAllocs, TypedRest DEF RuntimeStep
<1>3. CASE UNCHANGED vars
  <2>1. ASSUME NEW id \in TypeIds
        PROVE  /\ KeysOf(id)' = KeysOf(id) /\ FreesOf(id)' = FreesOf(id)
               /\ AllocsOf(id)' = AllocsOf(id) /\ Recorded(id)' = Recorded(id)
    BY <1>3 DEF vars, KeysOf, Keys, FreesOf, AllocsOf, Recorded
  <2>2. TypeFlow'
    BY <2>1 DEF TypedInv, TypeFlow
  <2> QED
    BY <1>1, <2>2 DEF TypedInv
<1> QED
  BY <1>1, <1>2, <1>3 DEF Next, Terminated, TypedInv

\* At every instant the entries of a type in the map are covered by the records
\* and the callbacks under way.
THEOREM TypedInvariant == Spec => []TypedInv
  BY TypedInit, TypedNext, PTL DEF Spec

\* When no callback is running the records of a type cover its entries.
THEOREM TypesBalanced == Spec => []TypeBalance
<1>1. TypedInv => TypeBalance
  <2> SUFFICES ASSUME TypedInv, Quiescent, NEW id \in TypeIds
               PROVE  Cardinality(KeysOf(id)) <= Recorded(id)
    BY DEF TypeBalance, KeysOf, Recorded
  <2>1. FreesOf(id) = {} /\ AllocsOf(id) = {}
    BY DEF Quiescent, FreesOf, AllocsOf, FreeAhead, AllocAhead, FreeDue, AllocDue
  <2>2. Cardinality(KeysOf(id)) + Cardinality(FreesOf(id)) <= Recorded(id) + Cardinality(AllocsOf(id))
    BY DEF TypedInv, TypeFlow
  <2> QED
    BY <2>1, <2>2, FS_EmptySet, TypedTypes DEF TypedInv
<1> QED
  BY <1>1, TypedInvariant, PTL
=============================================================================
