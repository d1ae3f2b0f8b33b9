-------------------------- MODULE HeapProgramProofs --------------------------
(***************************************************************************)
(* What an instrumented program may rely on when it asks the runtime about *)
(* a heap block, for any number of threads, addresses and operations.      *)
(***************************************************************************)
EXTENDS HeapProgram, TLAPS

\* The operations whose block nobody else may use.
Exclusive == {"onAlloc", "realloc"}

\* What is true of a block while a callback for it is due: the block of an
\* allocation callback is still the one that was allocated, and a block that is
\* being reallocated is not in the table.
PendingOK(w) ==
  /\ w.op \in {"idle", "return"} => w.addr = Null
  /\ w.op \in {"onAlloc", "onFree", "realloc"} => w.addr \in Addrs
  /\ w.op \in Exclusive => w.info \in PointerInfo
  /\ w.op = "onAlloc" => heap[w.addr] = w.info
  /\ w.op = "realloc" => heap[w.addr] # NoEntry /\ table[w.addr] = NoEntry

Pending == \A t \in Threads : PendingOK(todo[t])

\* A block is allocated or reallocated by one thread at a time.
OneOwner ==
  \A t, u \in Threads :
    todo[t].op \in Exclusive /\ todo[u].op \in Exclusive /\ todo[t].addr = todo[u].addr => t = u

\* The inductive invariant: what the table says of a block is right only
\* together with what the callbacks that are due will still do to it.
HeapInv ==
  TypeOK /\ Pending /\ OneOwner /\ NoForeignEntry /\ NoStaleEntry /\ OnlyKnownLosses

-----------------------------------------------------------------------------
(* The records the actions build.                                          *)

\* The fields of a pending operation.
LEMMA TodoFields ==
  ASSUME NEW op, NEW addr, NEW info
  PROVE  /\ Todo(op, addr, info).op = op
         /\ Todo(op, addr, info).addr = addr
         /\ Todo(op, addr, info).info = info
  BY DEF Todo

\* It is well typed when its fields are.
LEMMA TodoType ==
  ASSUME NEW op \in {"idle", "onAlloc", "onFree", "realloc", "return"},
         NEW addr \in Addrs \cup {Null}, NEW info \in PointerInfo \cup {NoEntry}
  PROVE  Todo(op, addr, info) \in Todos
  BY DEF Todo, Todos

\* A thread outside of the operations owes nothing.
LEMMA IdleFields ==
  /\ Idle.op = "idle" /\ Idle.addr = Null /\ Idle \in Todos
  /\ Returning.op = "return" /\ Returning.addr = Null /\ Returning \in Todos
  BY TodoFields, TodoType DEF Idle, Returning

\* nullptr is not the address of a block.
LEMMA NullNotAddr == Null \notin Addrs
  BY AddrsAssumption DEF Null

\* The answers of the table's operations are well typed.
LEMMA PutType ==
  ASSUME TypeOK, NEW t \in Threads, NEW a \in Addrs, NEW info \in PointerInfo, Put(t, a, info)
  PROVE  /\ table' \in Maps /\ answer' \in [Threads -> Answers \cup {NoAnswer}]
         /\ table'[a] = info /\ \A b \in Addrs \ {a} : table'[b] = table[b]
<1>1. [op |-> "put", overridden |-> a \in Keys(table)] \in Answers
  BY DEF Answers, PutAnswers
<1> QED
  BY <1>1 DEF TypeOK, Put, Respond, Maps

LEMMA RemoveType ==
  ASSUME TypeOK, NEW t \in Threads, NEW a \in Addrs, Remove(t, a)
  PROVE  /\ table' \in Maps /\ answer' \in [Threads -> Answers \cup {NoAnswer}]
         /\ table'[a] = NoEntry /\ \A b \in Addrs \ {a} : table'[b] = table[b]
<1>1. [op |-> "remove", entry |-> table[a]] \in Answers
  BY DEF Answers, RemoveAnswers, TypeOK, Maps
<1> QED
  BY <1>1 DEF TypeOK, Remove, Respond, Maps

-----------------------------------------------------------------------------
(* One lemma per kind of step.                                             *)

\* A thread that is not inside an operation starts one.
LEMMA StartFacts ==
  ASSUME TypeOK, NEW t \in Threads, NEW next \in Todos, Start(t, next)
  PROVE  /\ todo[t].op = "idle" /\ todo' \in [Threads -> Todos] /\ ops' \in [Threads -> 0..MaxOps]
         /\ todo'[t] = next /\ \A u \in Threads \ {t} : todo'[u] = todo[u]
  BY IdleFields, MaxOpsAssumption DEF TypeOK, Start

\* A thread goes on with its operation.
LEMMA ThenFacts ==
  ASSUME TypeOK, NEW t \in Threads, NEW op, NEW next \in Todos, Then(t, op, next)
  PROVE  /\ todo[t].op = op /\ todo' \in [Threads -> Todos] /\ ops' \in [Threads -> 0..MaxOps]
         /\ todo'[t] = next /\ \A u \in Threads \ {t} : todo'[u] = todo[u]
  BY DEF TypeOK, Then

\* The blocks of the other threads' callbacks are as they were.
LEMMA PendingMove ==
  ASSUME HeapInv, NEW t \in Threads, PendingOK(todo[t])',
         \A u \in Threads \ {t} : todo'[u] = todo[u],
         \A u \in Threads \ {t} : todo[u].op \in Exclusive =>
           LET a == todo[u].addr IN heap'[a] = heap[a] /\ table'[a] \in {table[a], NoEntry}
  PROVE  Pending'
<1>1. ASSUME NEW u \in Threads \ {t} PROVE PendingOK(todo[u])'
  <2>1. PendingOK(todo[u])
    BY DEF HeapInv, Pending
  <2> QED
    BY <2>1 DEF PendingOK, Exclusive
<1> QED
  BY <1>1 DEF Pending

\* A block that is in flight belongs to one thread only.
LEMMA OwnerAlone ==
  ASSUME HeapInv, NEW t \in Threads, todo[t].op \in Exclusive,
         NEW u \in Threads \ {t}, todo[u].op \in Exclusive
  PROVE  todo[u].addr \in Addrs \ {todo[t].addr}
  BY DEF HeapInv, OneOwner, Pending, PendingOK, Exclusive

\* malloc: the block was nobody's, and its callback is due.
LEMMA MallocStep ==
  ASSUME HeapInv, NEW t \in Threads, Malloc(t)
  PROVE  HeapInv'
<1>1. PICK a \in Addrs \ Allocated, info \in PointerInfo :
        /\ Start(t, Todo("onAlloc", a, info))
        /\ heap' = [heap EXCEPT ![a] = info]
        /\ UNCHANGED <<table, answer, lost>>
  BY DEF Malloc, tableVars
<1> DEFINE w == Todo("onAlloc", a, info)
<1>2. w \in Todos /\ w.op = "onAlloc" /\ w.addr = a /\ w.info = info
  BY TodoType, TodoFields
<1>3. /\ todo[t].op = "idle" /\ todo' \in [Threads -> Todos] /\ ops' \in [Threads -> 0..MaxOps]
      /\ todo'[t] = w /\ \A u \in Threads \ {t} : todo'[u] = todo[u]
  BY <1>1, <1>2, StartFacts DEF HeapInv
<1> HIDE DEF w
<1>4. heap[a] = NoEntry /\ heap'[a] = info /\ info # NoEntry
      /\ heap' \in Maps /\ \A b \in Addrs \ {a} : heap'[b] = heap[b]
  BY <1>1, NoEntryAssumption DEF Allocated, HeapInv, TypeOK, Maps
<1>5. TypeOK'
  BY <1>1, <1>3, <1>4 DEF HeapInv, TypeOK
<1>6. Pending'
  <2>1. PendingOK(todo[t])'
    BY <1>2, <1>3, <1>4 DEF PendingOK, Exclusive
  <2>2. \A u \in Threads \ {t} : todo[u].op \in Exclusive =>
          todo[u].addr \in Addrs \ {a}
    BY <1>4, NoEntryAssumption DEF HeapInv, Pending, PendingOK, Exclusive
  <2> QED
    BY <1>1, <1>3, <1>4, <2>1, <2>2, PendingMove
<1>7. OneOwner'
  <2>1. \A u \in Threads \ {t} : todo[u].op \in Exclusive => todo[u].addr # a
    BY <1>4, NoEntryAssumption DEF HeapInv, Pending, PendingOK, Exclusive
  <2> QED
    BY <1>2, <1>3, <2>1 DEF HeapInv, OneOwner
<1>8. Usable' \subseteq Usable \ {a}
  <2>1. Allocated' = Allocated \cup {a}
    BY <1>4 DEF Allocated
  <2>2. InFlight' = InFlight \cup {a}
    BY <1>2, <1>3 DEF InFlight
  <2> QED
    BY <2>1, <2>2 DEF Usable
<1>9. Usable \subseteq Addrs
  BY DEF Usable, Allocated
<1>10. NoForeignEntry' /\ OnlyKnownLosses'
  BY <1>1, <1>4, <1>8, <1>9 DEF HeapInv, NoForeignEntry, OnlyKnownLosses
<1>11. NoStaleEntry'
  BY <1>1, <1>2, <1>3, <1>4, NullNotAddr DEF HeapInv, NoStaleEntry, Allocated, Pending, PendingOK
<1> QED
  BY <1>5, <1>6, <1>7, <1>10, <1>11 DEF HeapInv

\* The allocation callback: the block becomes usable and is in the table.
LEMMA OnAllocStep ==
  ASSUME HeapInv, NEW t \in Threads, OnAlloc(t)
  PROVE  HeapInv'
<1> DEFINE a == todo[t].addr
           info == todo[t].info
<1>1. /\ todo[t].op = "onAlloc" /\ todo' \in [Threads -> Todos] /\ ops' \in [Threads -> 0..MaxOps]
      /\ todo'[t] = Returning /\ \A u \in Threads \ {t} : todo'[u] = todo[u]
  BY IdleFields, ThenFacts DEF HeapInv, OnAlloc
<1>2. a \in Addrs /\ info \in PointerInfo /\ heap[a] = info /\ info # NoEntry
  BY <1>1, NoEntryAssumption DEF HeapInv, Pending, PendingOK, Exclusive
<1>3. /\ table' \in Maps /\ answer' \in [Threads -> Answers \cup {NoAnswer}]
      /\ table'[a] = info /\ \A b \in Addrs \ {a} : table'[b] = table[b]
  BY <1>2, PutType DEF HeapInv, OnAlloc
<1>4. heap' = heap /\ lost' = lost \ {a}
  BY DEF OnAlloc
<1>5. \A u \in Threads \ {t} : todo[u].op \in Exclusive => todo[u].addr \in Addrs \ {a}
  BY <1>1, OwnerAlone DEF Exclusive
<1> HIDE DEF a, info
<1>6. TypeOK'
  BY <1>1, <1>3, <1>4 DEF HeapInv, TypeOK
<1>7. Pending'
  <2>1. PendingOK(todo[t])'
    BY <1>1, IdleFields DEF PendingOK, Exclusive
  <2> QED
    BY <1>1, <1>3, <1>4, <1>5, <2>1, PendingMove
<1>8. OneOwner'
  BY <1>1, IdleFields DEF HeapInv, OneOwner, Exclusive
<1>9. Usable' \subseteq Usable \cup {a} /\ Usable' \subseteq Addrs
  <2>1. Allocated' = Allocated /\ Allocated \subseteq Addrs
    BY <1>4 DEF Allocated
  <2>2. InFlight \subseteq InFlight' \cup {a}
    BY <1>1 DEF InFlight, a
  <2> QED
    BY <2>1, <2>2 DEF Usable
<1>10. NoForeignEntry' /\ OnlyKnownLosses'
  BY <1>2, <1>3, <1>4, <1>9 DEF HeapInv, NoForeignEntry, OnlyKnownLosses
<1>11. NoStaleEntry'
  BY <1>1, <1>2, <1>3, <1>4 DEF HeapInv, NoStaleEntry, Allocated, a
<1> QED
  BY <1>6, <1>7, <1>8, <1>10, <1>11 DEF HeapInv

\* free: the block is gone, its entry stays until the callback.
LEMMA FreeStep ==
  ASSUME HeapInv, NEW t \in Threads, Free(t)
  PROVE  HeapInv'
<1>1. PICK a \in Usable :
        /\ Start(t, Todo("onFree", a, NoEntry))
        /\ heap' = [heap EXCEPT ![a] = NoEntry]
        /\ UNCHANGED <<table, answer, lost>>
  BY DEF Free, tableVars
<1> DEFINE w == Todo("onFree", a, NoEntry)
<1>2. a \in Addrs /\ a \in Allocated /\ a \notin InFlight
  BY DEF Usable, Allocated
<1>3. w \in Todos /\ w.op = "onFree" /\ w.addr = a
  BY <1>2, TodoType, TodoFields
<1>4. /\ todo[t].op = "idle" /\ todo' \in [Threads -> Todos] /\ ops' \in [Threads -> 0..MaxOps]
      /\ todo'[t] = w /\ \A u \in Threads \ {t} : todo'[u] = todo[u]
  BY <1>1, <1>3, StartFacts DEF HeapInv
<1> HIDE DEF w
<1>5. heap' \in Maps /\ heap'[a] = NoEntry /\ \A b \in Addrs \ {a} : heap'[b] = heap[b]
  BY <1>1, <1>2 DEF HeapInv, TypeOK, Maps
<1>6. \A u \in Threads \ {t} : todo[u].op \in Exclusive => todo[u].addr \in Addrs \ {a}
  BY <1>2 DEF HeapInv, Pending, PendingOK, Exclusive, InFlight
<1>7. TypeOK'
  BY <1>1, <1>4, <1>5 DEF HeapInv, TypeOK
<1>8. Pending'
  <2>1. PendingOK(todo[t])'
    BY <1>2, <1>3, <1>4 DEF PendingOK, Exclusive
  <2> QED
    BY <1>1, <1>4, <1>5, <1>6, <2>1, PendingMove
<1>9. OneOwner'
  BY <1>3, <1>4 DEF HeapInv, OneOwner, Exclusive
<1>10. Usable' \subseteq Usable \ {a} /\ Usable \subseteq Addrs
  <2>1. Allocated' = Allocated \ {a} /\ Allocated \subseteq Addrs
    BY <1>5 DEF Allocated
  <2>2. InFlight' = InFlight
    BY <1>3, <1>4 DEF InFlight
  <2> QED
    BY <2>1, <2>2 DEF Usable
<1>11. NoForeignEntry' /\ OnlyKnownLosses'
  BY <1>1, <1>5, <1>10 DEF HeapInv, NoForeignEntry, OnlyKnownLosses
<1>12. NoStaleEntry'
  <2>1. todo[t].addr = Null
    BY <1>4 DEF HeapInv, Pending, PendingOK
  <2> QED
    BY <1>1, <1>3, <1>4, <1>5, <2>1, NullNotAddr DEF HeapInv, NoStaleEntry, Allocated
<1> QED
  BY <1>7, <1>8, <1>9, <1>11, <1>12 DEF HeapInv

\* The free callback: the entry goes, whichever block it describes by now.
LEMMA OnFreeStep ==
  ASSUME HeapInv, NEW t \in Threads, OnFree(t)
  PROVE  HeapInv'
<1> DEFINE a == todo[t].addr
<1>1. /\ todo[t].op = "onFree" /\ todo' \in [Threads -> Todos] /\ ops' \in [Threads -> 0..MaxOps]
      /\ todo'[t] = Returning /\ \A u \in Threads \ {t} : todo'[u] = todo[u]
  BY IdleFields, ThenFacts DEF HeapInv, OnFree
<1>2. a \in Addrs
  BY <1>1 DEF HeapInv, Pending, PendingOK
<1>3. /\ table' \in Maps /\ answer' \in [Threads -> Answers \cup {NoAnswer}]
      /\ table'[a] = NoEntry /\ \A b \in Addrs \ {a} : table'[b] = table[b]
  BY <1>2, RemoveType DEF HeapInv, OnFree
<1>4. heap' = heap /\ lost' = lost \cup ({a} \cap Allocated)
  BY DEF OnFree
<1> HIDE DEF a
<1>5. TypeOK'
  BY <1>1, <1>2, <1>3, <1>4 DEF HeapInv, TypeOK
<1>6. Pending'
  <2>1. PendingOK(todo[t])'
    BY <1>1, IdleFields DEF PendingOK, Exclusive
  <2>2. \A u \in Threads \ {t} : todo[u].op \in Exclusive => todo[u].addr \in Addrs
    BY DEF HeapInv, Pending, PendingOK, Exclusive
  <2>3. \A b \in Addrs : table'[b] \in {table[b], NoEntry}
    BY <1>3
  <2> QED
    BY <1>1, <1>4, <2>1, <2>2, <2>3, PendingMove
<1>7. OneOwner'
  BY <1>1, IdleFields DEF HeapInv, OneOwner, Exclusive
<1>8. Usable' = Usable /\ Usable \subseteq Allocated /\ Allocated \subseteq Addrs
  <2>1. Allocated' = Allocated
    BY <1>4 DEF Allocated
  <2>2. InFlight' = InFlight
    BY <1>1, IdleFields DEF InFlight
  <2> QED
    BY <2>1, <2>2 DEF Usable, Allocated
<1>9. NoForeignEntry' /\ OnlyKnownLosses'
  BY <1>3, <1>4, <1>8 DEF HeapInv, NoForeignEntry, OnlyKnownLosses
<1>10. NoStaleEntry'
  BY <1>1, <1>3, <1>4 DEF HeapInv, NoStaleEntry, Allocated, a
<1> QED
  BY <1>5, <1>6, <1>7, <1>9, <1>10 DEF HeapInv

\* The callback before realloc: the block is in flight and not in the table.
LEMMA ReallocOnFreeStep ==
  ASSUME HeapInv, NEW t \in Threads, ReallocOnFree(t)
  PROVE  HeapInv'
<1>1. PICK a \in Usable, info \in PointerInfo :
        /\ Start(t, Todo("realloc", a, info))
        /\ Remove(t, a)
        /\ UNCHANGED <<heap, lost>>
  BY DEF ReallocOnFree
<1> DEFINE w == Todo("realloc", a, info)
<1>2. a \in Addrs /\ heap[a] # NoEntry /\ a \notin InFlight
  BY DEF Usable, Allocated
<1>3. w \in Todos /\ w.op = "realloc" /\ w.addr = a /\ w.info = info
  BY <1>2, TodoType, TodoFields
<1>4. /\ todo[t].op = "idle" /\ todo' \in [Threads -> Todos] /\ ops' \in [Threads -> 0..MaxOps]
      /\ todo'[t] = w /\ \A u \in Threads \ {t} : todo'[u] = todo[u]
  BY <1>1, <1>3, StartFacts DEF HeapInv
<1> HIDE DEF w
<1>5. /\ table' \in Maps /\ answer' \in [Threads -> Answers \cup {NoAnswer}]
      /\ table'[a] = NoEntry /\ \A b \in Addrs \ {a} : table'[b] = table[b]
  BY <1>1, <1>2, RemoveType DEF HeapInv
<1>6. \A u \in Threads \ {t} : todo[u].op \in Exclusive => todo[u].addr \in Addrs \ {a}
  BY <1>2 DEF HeapInv, Pending, PendingOK, Exclusive, InFlight
<1>7. TypeOK'
  BY <1>1, <1>4, <1>5 DEF HeapInv, TypeOK
<1>8. Pending'
  <2>1. PendingOK(todo[t])'
    BY <1>1, <1>2, <1>3, <1>4, <1>5 DEF PendingOK, Exclusive
  <2> QED
    BY <1>1, <1>4, <1>5, <1>6, <2>1, PendingMove
<1>9. OneOwner'
  BY <1>3, <1>4, <1>6 DEF HeapInv, OneOwner
<1>10. Usable' \subseteq Usable \ {a} /\ Usable \subseteq Addrs
  <2>1. Allocated' = Allocated /\ Allocated \subseteq Addrs
    BY <1>1 DEF Allocated
  <2>2. InFlight' = InFlight \cup {a}
    BY <1>3, <1>4 DEF InFlight
  <2> QED
    BY <2>1, <2>2 DEF Usable
<1>11. NoForeignEntry' /\ OnlyKnownLosses'
  BY <1>1, <1>5, <1>10 DEF HeapInv, NoForeignEntry, OnlyKnownLosses
<1>12. NoStaleEntry'
  <2>1. todo[t].addr = Null
    BY <1>4 DEF HeapInv, Pending, PendingOK
  <2> QED
    BY <1>1, <1>4, <1>5, <2>1, NullNotAddr DEF HeapInv, NoStaleEntry, Allocated
<1> QED
  BY <1>7, <1>8, <1>9, <1>11, <1>12 DEF HeapInv

\* realloc: the old block is gone without leaving an entry, the new one is in
\* flight, at the same address or at one that was nobody's.
LEMMA ReallocStep ==
  ASSUME HeapInv, NEW t \in Threads, Realloc(t)
  PROVE  HeapInv'
<1> DEFINE old == todo[t].addr
           info == todo[t].info
<1>1. PICK new \in (Addrs \ Allocated) \cup {old} :
        /\ Then(t, "realloc", Todo("onAlloc", new, info))
        /\ heap' = [heap EXCEPT ![old] = NoEntry, ![new] = info]
        /\ UNCHANGED <<table, answer, lost>>
  BY DEF Realloc, tableVars
<1> DEFINE w == Todo("onAlloc", new, info)
<1>2. /\ todo[t].op = "realloc" /\ old \in Addrs /\ new \in Addrs /\ info \in PointerInfo
      /\ info # NoEntry /\ heap[old] # NoEntry /\ table[old] = NoEntry
  BY <1>1, NoEntryAssumption DEF Then, HeapInv, Pending, PendingOK, Exclusive
<1>3. w \in Todos /\ w.op = "onAlloc" /\ w.addr = new /\ w.info = info
  BY <1>2, TodoType, TodoFields
<1>4. /\ todo' \in [Threads -> Todos] /\ ops' \in [Threads -> 0..MaxOps]
      /\ todo'[t] = w /\ \A u \in Threads \ {t} : todo'[u] = todo[u]
  BY <1>1, <1>3, ThenFacts DEF HeapInv
<1>5. /\ heap' \in Maps /\ heap'[new] = info
      /\ \A b \in Addrs \ {new} : heap'[b] = IF b = old THEN NoEntry ELSE heap[b]
  BY <1>1, <1>2 DEF HeapInv, TypeOK, Maps
<1>6. \A u \in Threads \ {t} : todo[u].op \in Exclusive => todo[u].addr \in Addrs \ {old, new}
  <2>1. \A u \in Threads \ {t} : todo[u].op \in Exclusive =>
          todo[u].addr \in Addrs \ {old} /\ heap[todo[u].addr] # NoEntry
    BY <1>2, OwnerAlone, NoEntryAssumption DEF HeapInv, Pending, PendingOK, Exclusive
  <2> QED
    BY <1>1, <2>1 DEF Allocated
<1>7. todo[t].addr = old
  OBVIOUS
<1> HIDE DEF w, old, info
<1>8. TypeOK'
  BY <1>1, <1>4, <1>5 DEF HeapInv, TypeOK
<1>9. Pending'
  <2>1. PendingOK(todo[t])'
    BY <1>2, <1>3, <1>4, <1>5 DEF PendingOK, Exclusive
  <2> QED
    BY <1>1, <1>4, <1>5, <1>6, <2>1, PendingMove
<1>10. OneOwner'
  BY <1>3, <1>4, <1>6 DEF HeapInv, OneOwner
<1>11. Usable' \subseteq Usable \ {old, new} /\ Usable \subseteq Addrs
  <2>1. Allocated' = (Allocated \ {old}) \cup {new} /\ Allocated \subseteq Addrs
    BY <1>2, <1>5 DEF Allocated
  <2>2. InFlight' = (InFlight \ {old}) \cup {new}
    BY <1>2, <1>3, <1>4, <1>6, <1>7 DEF InFlight, Exclusive
  <2> QED
    BY <2>1, <2>2 DEF Usable
<1>12. NoForeignEntry' /\ OnlyKnownLosses'
  BY <1>1, <1>5, <1>11 DEF HeapInv, NoForeignEntry, OnlyKnownLosses
<1>13. NoStaleEntry'
  BY <1>1, <1>2, <1>3, <1>4, <1>5, <1>7 DEF HeapInv, NoStaleEntry, Allocated
<1> QED
  BY <1>8, <1>9, <1>10, <1>12, <1>13 DEF HeapInv

\* A realloc that fails: the block is usable again and not in the table.
LEMMA ReallocFailsStep ==
  ASSUME HeapInv, NEW t \in Threads, ReallocFails(t)
  PROVE  HeapInv'
<1> DEFINE a == todo[t].addr
<1>1. /\ todo[t].op = "realloc" /\ todo' \in [Threads -> Todos] /\ ops' \in [Threads -> 0..MaxOps]
      /\ todo'[t] = Returning /\ \A u \in Threads \ {t} : todo'[u] = todo[u]
  BY IdleFields, ThenFacts DEF HeapInv, ReallocFails
<1>2. a \in Addrs /\ heap[a] # NoEntry /\ table[a] = NoEntry
  BY <1>1 DEF HeapInv, Pending, PendingOK
<1>3. UNCHANGED <<heap, table, answer>> /\ lost' = lost \cup {a}
  BY DEF ReallocFails, tableVars
<1>4. todo[t].addr = a
  OBVIOUS
<1> HIDE DEF a
<1>5. TypeOK'
  BY <1>1, <1>2, <1>3 DEF HeapInv, TypeOK
<1>6. Pending'
  <2>1. PendingOK(todo[t])'
    BY <1>1, IdleFields DEF PendingOK, Exclusive
  <2> QED
    BY <1>1, <1>3, <2>1, PendingMove
<1>7. OneOwner'
  BY <1>1, IdleFields DEF HeapInv, OneOwner, Exclusive
<1>8. Usable' \subseteq Usable \cup {a}
  <2>1. Allocated' = Allocated
    BY <1>3 DEF Allocated
  <2>2. InFlight \subseteq InFlight' \cup {a}
    BY <1>1, <1>4 DEF InFlight
  <2> QED
    BY <2>1, <2>2 DEF Usable
<1>9. NoForeignEntry' /\ OnlyKnownLosses'
  BY <1>2, <1>3, <1>8 DEF HeapInv, NoForeignEntry, OnlyKnownLosses
<1>10. NoStaleEntry'
  BY <1>1, <1>2, <1>3, <1>4 DEF HeapInv, NoStaleEntry, Allocated
<1> QED
  BY <1>5, <1>6, <1>7, <1>9, <1>10 DEF HeapInv

\* The operation is over.
LEMMA ReturnStep ==
  ASSUME HeapInv, NEW t \in Threads, Return(t)
  PROVE  HeapInv'
<1>1. /\ todo[t].op = "return" /\ todo' \in [Threads -> Todos] /\ ops' \in [Threads -> 0..MaxOps]
      /\ todo'[t] = Idle /\ \A u \in Threads \ {t} : todo'[u] = todo[u]
  BY IdleFields, ThenFacts DEF HeapInv, Return
<1>2. UNCHANGED <<heap, table, lost>> /\ answer' \in [Threads -> Answers \cup {NoAnswer}]
  BY DEF Return, Forget, Respond, HeapInv, TypeOK
<1>3. TypeOK'
  BY <1>1, <1>2 DEF HeapInv, TypeOK
<1>4. Pending'
  <2>1. PendingOK(todo[t])'
    BY <1>1, IdleFields DEF PendingOK, Exclusive
  <2> QED
    BY <1>1, <1>2, <2>1, PendingMove
<1>5. OneOwner'
  BY <1>1, IdleFields DEF HeapInv, OneOwner, Exclusive
<1>6. Usable' = Usable
  <2>1. Allocated' = Allocated
    BY <1>2 DEF Allocated
  <2>2. InFlight' = InFlight
    BY <1>1, IdleFields DEF InFlight
  <2> QED
    BY <2>1, <2>2 DEF Usable
<1>7. NoForeignEntry' /\ OnlyKnownLosses'
  BY <1>2, <1>6 DEF HeapInv, NoForeignEntry, OnlyKnownLosses
<1>8. NoStaleEntry'
  <2>1. todo[t].addr = Null /\ todo'[t].addr = Null
    BY <1>1, IdleFields DEF HeapInv, Pending, PendingOK
  <2> QED
    BY <1>1, <1>2, <2>1, NullNotAddr DEF HeapInv, NoStaleEntry, Allocated
<1> QED
  BY <1>3, <1>4, <1>5, <1>7, <1>8 DEF HeapInv

-----------------------------------------------------------------------------
(* The theorems.                                                           *)

\* Nothing is allocated and nothing is in the table.
LEMMA HeapInit == Init => HeapInv
<1> SUFFICES ASSUME Init PROVE HeapInv
  OBVIOUS
<1>1. /\ table = [a \in Addrs |-> NoEntry] /\ answer = [t \in Threads |-> NoAnswer]
      /\ heap = [a \in Addrs |-> NoEntry] /\ todo = [t \in Threads |-> Idle]
      /\ ops = [t \in Threads |-> 0] /\ lost = {}
  BY DEF Init, TableInit
<1>2. TypeOK
  BY <1>1, IdleFields, MaxOpsAssumption DEF TypeOK, Maps
<1>3. Pending /\ OneOwner
  BY <1>1, IdleFields DEF Pending, PendingOK, OneOwner, Exclusive
<1>4. NoForeignEntry /\ NoStaleEntry /\ OnlyKnownLosses
  BY <1>1 DEF NoForeignEntry, NoStaleEntry, OnlyKnownLosses, Usable, Allocated
<1> QED
  BY <1>2, <1>3, <1>4 DEF HeapInv

\* The invariant is inductive.
LEMMA HeapNext == HeapInv /\ [Next]_vars => HeapInv'
<1> SUFFICES ASSUME HeapInv, [Next]_vars PROVE HeapInv'
  OBVIOUS
<1>1. ASSUME NEW t \in Threads,
             \/ Malloc(t) \/ OnAlloc(t) \/ Free(t) \/ OnFree(t)
             \/ ReallocOnFree(t) \/ Realloc(t) \/ ReallocFails(t) \/ Return(t)
      PROVE  HeapInv'
  BY <1>1, MallocStep, OnAllocStep, FreeStep, OnFreeStep, ReallocOnFreeStep, ReallocStep,
     ReallocFailsStep, ReturnStep
<1>2. CASE UNCHANGED vars
  BY <1>2 DEF vars, HeapInv, TypeOK, Pending, PendingOK, OneOwner, NoForeignEntry, NoStaleEntry,
              OnlyKnownLosses, Usable, Allocated, InFlight
<1> QED
  BY <1>1, <1>2 DEF Next, Terminated

\* The invariant holds however the threads of the program interleave.
THEOREM HeapInvariant == Spec => []HeapInv
  BY HeapInit, HeapNext, PTL DEF Spec

\* The program and the table stay within their types.
THEOREM HeapTypeCorrect == Spec => []TypeOK
<1>1. HeapInv => TypeOK
  BY DEF HeapInv
<1> QED
  BY <1>1, HeapInvariant, PTL

\* What the table says of a usable block was said by the callback of that
\* block's own allocation, for any number of threads whose free callbacks run
\* after the address was handed out again.
THEOREM EntriesAreRight == Spec => []NoForeignEntry
<1>1. HeapInv => NoForeignEntry
  BY DEF HeapInv
<1> QED
  BY <1>1, HeapInvariant, PTL

\* Once the callbacks for an address are done, an address that is not allocated
\* has no entry.
THEOREM EntriesAreRemoved == Spec => []NoStaleEntry
<1>1. HeapInv => NoStaleEntry
  BY DEF HeapInv
<1> QED
  BY <1>1, HeapInvariant, PTL

\* The late free callback and the failing realloc are the only ways in which a
\* usable block is missing from the table.
THEOREM LossesAreKnown == Spec => []OnlyKnownLosses
<1>1. HeapInv => OnlyKnownLosses
  BY DEF HeapInv
<1> QED
  BY <1>1, HeapInvariant, PTL
=============================================================================
