----------------------------- MODULE AllocTable -----------------------------
(***************************************************************************)
(* What the runtime's pointer map promises: a table from base addresses to *)
(* allocation records on which every operation is ONE atomic step that     *)
(* answers the calling thread.  AllocationTracker.tla models the locked    *)
(* map the runtime really uses and is shown to implement this module.      *)
(***************************************************************************)
EXTENDS AllocMap

CONSTANTS
  Threads,    \* threads of the instrumented program
  QueryAddrs, \* addresses a client may ask about, interior ones included
  NoAnswer    \* "no map operation of the current call has completed yet"

ASSUME QueryAddrsAssumption == QueryAddrs \subseteq Nat

VARIABLES
  table,      \* the map
  answer      \* answer[t]: what the map operation of t's current call returned

tableVars == <<table, answer>>

TableInit ==
  /\ table = [a \in Addrs |-> NoEntry]
  /\ answer = [t \in Threads |-> NoAnswer]

Respond(t, value) == answer' = [answer EXCEPT ![t] = value]

\* Mutant: insert, which keeps an existing entry.
PutIfAbsent(t, a, info) ==
  /\ table' = [table EXCEPT ![a] = IF a \in Keys(table) THEN table[a] ELSE info]
  /\ Respond(t, [op |-> "put", overridden |-> a \in Keys(table)])

\* Insert or overwrite; the caller learns whether it overwrote.
Put(t, a, info) ==
  /\ table' = [table EXCEPT ![a] = info]
  /\ Respond(t, [op |-> "put", overridden |-> a \in Keys(table)])

\* Mutant: the entry is reset to a default-constructed record.
RemoveReset(t, a) ==
  /\ table' = [table EXCEPT ![a] = [typeId |-> -1, count |-> 0]]
  /\ Respond(t, [op |-> "remove", entry |-> table[a]])

\* Remove one address; the caller receives the record that was there.
Remove(t, a) ==
  /\ table' = [table EXCEPT ![a] = NoEntry]
  /\ Respond(t, [op |-> "remove", entry |-> table[a]])

\* Remove a whole scope of stack addresses at once.
RemoveRange(S) ==
  /\ table' = [a \in Addrs |-> IF a \in S THEN NoEntry ELSE table[a]]
  /\ UNCHANGED answer

\* Look up the allocation an address belongs to.
Find(t, addr) ==
  /\ Respond(t, [op |-> "find", base |-> Floor(table, addr)])
  /\ UNCHANGED table

\* The call returns to the program.
Forget(t) ==
  /\ Respond(t, NoAnswer)
  /\ UNCHANGED table

TableNext ==
  \/ \E t \in Threads, a \in Addrs, info \in PointerInfo : Put(t, a, info)
  \/ \E t \in Threads, a \in Addrs : Remove(t, a)
  \/ \E S \in SUBSET Addrs : RemoveRange(S)
  \/ \E t \in Threads, addr \in QueryAddrs : Find(t, addr)
  \/ \E t \in Threads : Forget(t)

TableSpec == TableInit /\ [][TableNext]_tableVars
=============================================================================
