------------------------------ MODULE AllocMap ------------------------------
(***************************************************************************)
(* The pointer map of the runtime as a value, and the operations of        *)
(* MapOp (lib/runtime/AllocMapWrapper.h) as operators on it.  Locking is   *)
(* the business of AllocationTracker.tla.                                  *)
(***************************************************************************)
EXTENDS Integers, FiniteSets

CONSTANTS
  MaxAddr,    \* the highest address of the address space
  Addrs,      \* addresses an allocation may have (nullptr excluded)
  TypeIds,    \* type ids the pass emits
  Counts,     \* element counts of allocations
  NoEntry     \* "the address is not in the map"

\* nullptr.  The map never holds it: doAlloc and doFreeHeap return early.
Null == 0

\* PointerInfo without its debug address, which no map operation reads.
PointerInfo == [typeId : TypeIds, count : Counts]

ASSUME AddrsAssumption   == MaxAddr \in Nat /\ Addrs \subseteq 1..MaxAddr
ASSUME NoEntryAssumption == NoEntry \notin PointerInfo
\* The pass emits builtin ids, 255 (unknown) or struct ids from 256 on: the
\* id -1 of a default-constructed PointerInfo is never the id of an allocation.
\* An id is an int, so there are only so many.
ASSUME TypeIdsAssumption == TypeIds \subseteq Nat /\ IsFiniteSet(TypeIds)
ASSUME CountsAssumption  == Counts \subseteq Nat

\* A map is total on Addrs; the addresses it does not hold map to NoEntry.
Maps == [Addrs -> PointerInfo \cup {NoEntry}]

Keys(m) == {a \in Addrs : m[a] # NoEntry}

Least(S)    == CHOOSE x \in S : \A y \in S : x <= y
Greatest(S) == CHOOSE x \in S : \A y \in S : y <= x

\* MapOp::put.  operator[] creates a PointerInfo with typeId -1 when the
\* address is new; the answer is whether the record found there had another id.
MapPut(m, a, info) == [m EXCEPT ![a] = info]
MapOverrides(m, a) ==
  LET def == IF m[a] = NoEntry THEN -1 ELSE m[a].typeId IN def # -1

\* MapOp::remove, on an address the map need not hold.
MapRemove(m, a) == [m EXCEPT ![a] = NoEntry]

\* MapOp::find: None (Null here) when the map is empty or addr lies below its
\* first key, otherwise lower_bound and, unless it matches, its predecessor.
MapFind(m, addr) ==
  LET atOrAbove == {k \in Keys(m) : k >= addr} IN
  IF Keys(m) = {} \/ addr < Least(Keys(m)) THEN Null
  ELSE IF atOrAbove = {} THEN Greatest(Keys(m))
  ELSE IF Least(atOrAbove) = addr THEN addr
  ELSE Greatest({k \in Keys(m) : k < Least(atOrAbove)})

\* What the operations of the map return to their caller.
PutAnswers    == [op : {"put"}, overridden : BOOLEAN]
RemoveAnswers == [op : {"remove"}, entry : PointerInfo \cup {NoEntry}]
FindAnswers   == [op : {"find"}, base : Addrs \cup {Null}]
Answers       == PutAnswers \cup RemoveAnswers \cup FindAnswers

\* What find is for: the base address of addr, the greatest key not above it.
Floor(m, addr) ==
  LET below == {k \in Keys(m) : k <= addr}
  IN  IF below = {} THEN Null ELSE Greatest(below)
=============================================================================
