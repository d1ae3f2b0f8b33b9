----------------------------- MODULE HeapProgram -----------------------------
(***************************************************************************)
(* A multi-threaded program whose heap operations carry the callbacks that *)
(* MemOpInstrumentation.cpp inserts, running against the atomic table of   *)
(* AllocTable.tla (which the runtime's locked map implements).  The        *)
(* program is correct: it frees or reallocates only live blocks, a block   *)
(* at most once, and passes a pointer on only after the inserted callback  *)
(* that follows the allocation.  The C library may hand out a block again  *)
(* as soon as it has been freed.                                           *)
(***************************************************************************)
EXTENDS AllocTable, FiniteSets

CONSTANTS
  MaxOps,         \* bound: heap operations of a thread
  ReallocMayFail  \* whether realloc may return nullptr

ASSUME MaxOpsAssumption == MaxOps \in Nat /\ ReallocMayFail \in BOOLEAN

VARIABLES
  heap,   \* heap[a]: what the block at a was allocated for, NoEntry if it is free
  todo,   \* todo[t]: the rest of the instrumented operation t is executing
  ops,    \* ops[t]: heap operations t has started
  lost    \* history: blocks whose entry a late free callback or a failed realloc removed

vars == <<table, answer, heap, todo, ops, lost>>

Todo(op, addr, info) == [op |-> op, addr |-> addr, info |-> info]
Idle  == Todo("idle", Null, NoEntry)
Todos == [op   : {"idle", "onAlloc", "onFree", "realloc", "return"},
          addr : Addrs \cup {Null},
          info : PointerInfo \cup {NoEntry}]

Init ==
  /\ TableInit
  /\ heap = [a \in Addrs |-> NoEntry]
  /\ todo = [t \in Threads |-> Idle]
  /\ ops = [t \in Threads |-> 0]
  /\ lost = {}

Allocated == {a \in Addrs : heap[a] # NoEntry}

\* Blocks a thread is still allocating or is reallocating.
InFlight == {todo[t].addr : t \in {u \in Threads : todo[u].op \in {"onAlloc", "realloc"}}}

\* Blocks the program may use, free or reallocate.  A free callback that is
\* still due does not count: the address may be a new block's by then.
Usable == Allocated \ InFlight

Start(t, next) ==
  /\ todo[t] = Idle /\ ops[t] < MaxOps
  /\ todo' = [todo EXCEPT ![t] = next]
  /\ ops' = [ops EXCEPT ![t] = ops[t] + 1]

Then(t, op, next) ==
  /\ todo[t].op = op
  /\ todo' = [todo EXCEPT ![t] = next]
  /\ UNCHANGED ops

Returning == Todo("return", Null, NoEntry)

\* malloc, calloc, new: the allocation comes first, its callback after it.  A
\* failing malloc calls back with nullptr, which the tracker leaves out.
Malloc(t) ==
  \E a \in Addrs \ Allocated, info \in PointerInfo :
    /\ Start(t, Todo("onAlloc", a, info))
    /\ heap' = [heap EXCEPT ![a] = info]
    /\ UNCHANGED <<tableVars, lost>>

OnAlloc(t) ==
  /\ Then(t, "onAlloc", Returning)
  /\ Put(t, todo[t].addr, todo[t].info)
  /\ lost' = lost \ {todo[t].addr}
  /\ UNCHANGED heap

\* Mutant: a deallocation function that is not instrumented.
FreeUninstrumented(t) ==
  \E a \in Usable :
    /\ Start(t, Returning)
    /\ heap' = [heap EXCEPT ![a] = NoEntry]
    /\ UNCHANGED <<tableVars, lost>>

\* free, delete: the callback is inserted after the call (getNextNode).
Free(t) ==
  \E a \in Usable :
    /\ Start(t, Todo("onFree", a, NoEntry))
    /\ heap' = [heap EXCEPT ![a] = NoEntry]
    /\ UNCHANGED <<tableVars, lost>>

OnFree(t) ==
  /\ Then(t, "onFree", Returning)
  /\ Remove(t, todo[t].addr)
  /\ lost' = lost \cup ({todo[t].addr} \cap Allocated)
  /\ UNCHANGED heap

\* realloc: the free callback for the old block is inserted before the call,
\* the allocation callback for the new block after it.
ReallocOnFree(t) ==
  \E a \in Usable, info \in PointerInfo :
    /\ Start(t, Todo("realloc", a, info))
    /\ Remove(t, a)
    /\ UNCHANGED <<heap, lost>>

\* Mutant: the allocation callback is passed the old pointer.
ReallocOldPointer(t) ==
  LET old == todo[t].addr
      info == todo[t].info IN
  \E new \in (Addrs \ Allocated) \cup {old} :
    /\ Then(t, "realloc", Todo("onAlloc", old, info))
    /\ heap' = [heap EXCEPT ![old] = NoEntry, ![new] = info]
    /\ UNCHANGED <<tableVars, lost>>

Realloc(t) ==
  LET old == todo[t].addr
      info == todo[t].info IN
  \E new \in (Addrs \ Allocated) \cup {old} :
    /\ Then(t, "realloc", Todo("onAlloc", new, info))
    /\ heap' = [heap EXCEPT ![old] = NoEntry, ![new] = info]
    /\ UNCHANGED <<tableVars, lost>>

\* The old block stays as it was, and the callback after the call gets nullptr.
ReallocFails(t) ==
  /\ ReallocMayFail
  /\ Then(t, "realloc", Returning)
  /\ lost' = lost \cup {todo[t].addr}
  /\ UNCHANGED <<heap, tableVars>>

Return(t) ==
  /\ Then(t, "return", Idle)
  /\ Forget(t)
  /\ UNCHANGED <<heap, lost>>

\* Every thread has done all its operations: the one way for the model to stop.
Terminated ==
  /\ \A t \in Threads : todo[t] = Idle /\ ops[t] = MaxOps
  /\ UNCHANGED vars

Next ==
  \/ \E t \in Threads :
       \/ Malloc(t) \/ OnAlloc(t) \/ Free(t) \/ OnFree(t)
       \/ ReallocOnFree(t) \/ Realloc(t) \/ ReallocFails(t) \/ Return(t)
  \/ Terminated

Spec == Init /\ [][Next]_vars

-----------------------------------------------------------------------------
(* Properties.                                                             *)

\* Type correctness; the table holds complete records only.
TypeOK ==
  /\ table \in Maps
  /\ answer \in [Threads -> Answers \cup {NoAnswer}]
  /\ heap \in Maps
  /\ todo \in [Threads -> Todos]
  /\ ops \in [Threads -> 0..MaxOps]
  /\ lost \subseteq Addrs

\* A block the program can use is in the table with the type and count it was
\* allocated with (what a client of the runtime relies on when it asks about a
\* buffer).  There are two ways to lose one, the free callback that runs after
\* the block was handed out again and the realloc that fails; every other usable
\* block is in the table as it was allocated, whatever the threads do.
OnlyKnownLosses == \A a \in Usable \ lost : table[a] = heap[a]

\* Whatever the table says of a usable block is right: an entry is never left
\* over from an earlier block at the same address, although free callbacks run
\* after the block may have been handed out again.
NoForeignEntry == \A a \in Usable : table[a] \in {heap[a], NoEntry}

\* No entry outlives its block: once the free callbacks that are under way have
\* run, an address that is not allocated is not in the table.
NoStaleEntry ==
  \A a \in Addrs \ Allocated :
    (\A t \in Threads : todo[t].addr # a) => table[a] = NoEntry
=============================================================================
