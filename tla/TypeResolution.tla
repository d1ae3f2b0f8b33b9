--------------------------- MODULE TypeResolution ---------------------------
(***************************************************************************)
(* The type queries of the runtime (lib/runtime/TypeResolution.cpp) against *)
(* a loaded type database (lib/typelib/TypeDB.cpp): the allocation that    *)
(* findBaseAlloc returned and the byte offset of the queried address in it *)
(* are resolved to the outermost type that starts at the address, one step *)
(* per round of getTypeInfoInternal's loop.  Addresses are offsets from    *)
(* the allocation's base.  A query reads nothing that another thread       *)
(* writes, so one thread is enough.                                        *)
(***************************************************************************)
EXTENDS TypeDB

CONSTANTS
  Databases,  \* what the type file may hold: functions from struct ids to layouts
  AllocTypes, \* type ids of queried allocations, besides the database's
  Counts,     \* their element counts
  Slack,      \* bound: bytes past its end at which an allocation is queried
  MaxQueries  \* bound: number of queries

ASSUME DatabasesAssumption ==
  \A d \in Databases :
    /\ DOMAIN d \subseteq Nat
    /\ \A id \in DOMAIN d : isStructType(id) /\ d[id].extent \in Nat
    /\ \A id \in DOMAIN d : d[id].members \in Seq(Members)
ASSUME QueriesAssumption ==
  AllocTypes \subseteq Nat /\ Counts \subseteq Nat /\ Slack \in Nat /\ MaxQueries \in Nat

Ops == {"get_type", "get_containing_type", "get_subtype", "resolve_type_addr"}

Statuses == {"OK", "UNKNOWN_ADDRESS", "BAD_ALIGNMENT", "BAD_OFFSET",
             "WRONG_KIND", "INVALID_ID", "ERROR"}

VARIABLES
  db,           \* the loaded database
  query,        \* the query, its allocation and the offset it asks about
  pc,           \* the step of the query
  layout,       \* structInfo: the struct the loop is in
  offset,       \* the byte offset in it
  result,       \* status, type, count and offset the query returns
  addrMissing,  \* AccessRecorder::addrMissing (the addresses it keeps left out)
  queries       \* number of queries so far

vars == <<db, query, pc, layout, offset, result, addrMissing, queries>>

Query(op, id, count, at) == [op |-> op, id |-> id, count |-> count, at |-> at]
Answer(status, id, count, off) == [status |-> status, id |-> id, count |-> count, offset |-> off]
Failed(status) == Answer(status, 0, 0, 0)

NoQuery == Query("none", 0, 0, 0)

Init ==
  /\ db \in Databases
  /\ query = NoQuery
  /\ pc = "idle"
  /\ layout = 0
  /\ offset = 0
  /\ result = Failed("OK")
  /\ addrMissing = 0
  /\ queries = 0

\* TypeDB::getTypeSize.
getTypeSize(id) == TypeSizeIn(db, id)

\* The status of TypeResolution::getStructInfo.
getStructInfo(id) ==
  IF ~isStructType(id) THEN "WRONG_KIND"
  ELSE IF id \in DOMAIN db THEN "OK" ELSE "INVALID_ID"

\* a / b and a % b.  A zero divisor is undefined: the division traps (x86), or
\* gives 0 and the dividend (AArch64).
Trap == [trap |-> TRUE]

\* Mutant: the offset in the array instead of in its element.
DivModArray(a, b) ==
  IF b > 0 THEN {[quot |-> a \div b, rem |-> a]}
           ELSE {Trap, [quot |-> 0, rem |-> a]}

DivMod(a, b) ==
  IF b > 0 THEN {[quot |-> a \div b, rem |-> a % b]}
           ELSE {Trap, [quot |-> 0, rem |-> a]}

-----------------------------------------------------------------------------
(* Members of a struct.                                                    *)

\* Mutant: > for >= in the loop's condition.
MemberIndexStrict(ms, off) ==
  LET n == Len(ms) IN
  IF off > ms[n].offset THEN n
  ELSE CHOOSE i \in 1..n : /\ i = n \/ off <= ms[i + 1].offset
                           /\ \A j \in 1..(i - 1) : off > ms[j + 1].offset

\* get_member_index_at: the loop stops at the first member whose successor
\* starts above the offset.
MemberIndexAt(ms, off) ==
  LET n == Len(ms) IN
  IF off > ms[n].offset THEN n
  ELSE CHOOSE i \in 1..n : /\ i = n \/ off < ms[i + 1].offset
                           /\ \A j \in 1..(i - 1) : off >= ms[j + 1].offset

\* Mutants: an offset inside of an atomic type, or behind the array, passes.
MemberAnswerAtomic(m, d) ==
  IF d = Trap THEN Failed("trap")
  ELSE IF d.quot >= m.count THEN Failed("BAD_ALIGNMENT")
  ELSE Answer("OK", m.type, m.count - d.quot, d.rem)

MemberAnswerPadding(m, d) ==
  IF d = Trap THEN Failed("trap")
  ELSE IF d.rem # 0 /\ isReservedType(m.type) THEN Failed("BAD_ALIGNMENT")
  ELSE Answer("OK", m.type, m.count - d.quot, d.rem)

\* getSubTypeInfo for the member m, d being the offset in m divided by its size:
\* inside of an atomic type, in the padding behind the member, or in an element.
MemberAnswer(m, d) ==
  IF d = Trap THEN Failed("trap")
  ELSE IF d.rem # 0 /\ isReservedType(m.type) THEN Failed("BAD_ALIGNMENT")
  ELSE IF d.quot >= m.count THEN Failed("BAD_ALIGNMENT")
  ELSE Answer("OK", m.type, m.count - d.quot, d.rem)

\* getSubTypeInfo.  A layout that resolve_type_id failed to fill in has a
\* negative id.
SubTypeAnswers(id, off) ==
  IF id < 0 THEN {Failed("ERROR")}
  ELSE IF off >= db[id].extent THEN {Failed("BAD_OFFSET")}
  ELSE LET m == db[id].members[MemberIndexAt(db[id].members, off)]
       IN  {MemberAnswer(m, d) : d \in DivMod(off - m.offset, getTypeSize(m.type))}

-----------------------------------------------------------------------------
(* Queries.                                                                *)

Ask(q, label) ==
  /\ pc = "idle" /\ queries < MaxQueries
  /\ query' = q
  /\ pc' = label
  /\ queries' = queries + 1
  /\ UNCHANGED <<db, layout, offset, result, addrMissing>>

\* A query for an address at or above the base of an allocation.
AskAddress ==
  \E op \in Ops \ {"get_subtype"}, id \in AllocTypes \cup DOMAIN db, n \in Counts :
    \E at \in 0..(n * getTypeSize(id) + Slack) :
      Ask(Query(op, id, n, at), "containing")

\* typeart_get_subtype for a layout of the database, or an unfilled one.
AskSubType ==
  \E id \in DOMAIN db \cup {-1} :
    \E at \in 0..((IF id < 0 THEN 0 ELSE db[id].extent) + Slack) :
      Ask(Query("get_subtype", id, 1, at), "subtype")

\* The query returns a, or typeart_resolve_type_addr goes on with its type.
Answered(a) ==
  /\ result' = a
  /\ pc' = IF query.op = "resolve_type_addr" /\ a.status = "OK" THEN "layout" ELSE "done"
  /\ UNCHANGED <<db, query, layout, offset, queries>>

\* getContainingTypeInfo, the address being past the end of the allocation:
\* the index for the warning divides by the size of the type.
OutOfBounds ==
  LET size == getTypeSize(query.id) IN
  /\ pc = "containing"
  /\ query.at # 0 /\ query.at >= query.count * size
  /\ \E d \in DivMod(query.at, size) :
       /\ Answered(Failed(IF d = Trap THEN "trap" ELSE "UNKNOWN_ADDRESS"))
       \* typeart_get_containing_type does not record it.
       /\ addrMissing' = IF d # Trap /\ query.op # "get_containing_type"
                         THEN addrMissing + 1 ELSE addrMissing

\* Element index and offset of an address inside the allocation; its base needs
\* no division.
Element ==
  LET size == getTypeSize(query.id) IN
  IF query.at = 0 THEN [quot |-> 0, rem |-> 0]
  ELSE [quot |-> query.at \div size, rem |-> query.at % size]

InBounds == query.at = 0 \/ query.at < query.count * getTypeSize(query.id)

\* typeart_get_containing_type, and a typeart_get_type that hits an element.
Containing ==
  /\ pc = "containing" /\ InBounds
  /\ query.op = "get_containing_type" \/ Element.rem = 0
  /\ Answered(Answer("OK", query.id, query.count - Element.quot, Element.rem))
  /\ UNCHANGED addrMissing

\* getTypeInfo for an address inside of an element: resolve the struct.
InsideElement ==
  /\ pc = "containing" /\ InBounds
  /\ query.op # "get_containing_type" /\ Element.rem # 0
  /\ \/ /\ query.id \notin DOMAIN db
        /\ Answered(Failed(IF isBuiltinType(query.id) THEN "BAD_ALIGNMENT" ELSE "INVALID_ID"))
     \/ /\ query.id \in DOMAIN db
        /\ layout' = query.id
        /\ offset' = Element.rem
        /\ pc' = "loop"
        /\ UNCHANGED <<db, query, result, queries>>
  /\ UNCHANGED addrMissing

\* What a round of getTypeInfoInternal comes to: as long as there is a byte
\* offset, the subtype must be a registered struct.
RoundAnswers ==
  {IF a.status = "OK" /\ a.offset # 0 /\ getStructInfo(a.id) # "OK"
   THEN Failed(getStructInfo(a.id)) ELSE a : a \in SubTypeAnswers(layout, offset)}

\* The loop ends.
Resolved ==
  /\ pc = "loop"
  /\ \E a \in RoundAnswers : a.offset = 0 /\ Answered(a)
  /\ UNCHANGED addrMissing

\* Mutant: the loop goes on in the struct it was in.
DescendNot ==
  /\ pc = "loop"
  /\ \E a \in RoundAnswers : a.offset # 0 /\ offset' = a.offset
  /\ UNCHANGED <<db, query, pc, layout, result, addrMissing, queries>>

\* The loop goes on in the nested struct.
Descend ==
  /\ pc = "loop"
  /\ \E a \in RoundAnswers : a.offset # 0 /\ layout' = a.id /\ offset' = a.offset
  /\ UNCHANGED <<db, query, pc, result, addrMissing, queries>>

\* typeart_get_subtype: one round, for the caller's layout and offset.
GetSubType ==
  /\ pc = "subtype"
  /\ \E a \in SubTypeAnswers(query.id, query.at) : Answered(a)
  /\ UNCHANGED addrMissing

\* typeart_resolve_type_addr, the type being known: its layout.
ResolveLayout ==
  /\ pc = "layout"
  /\ pc' = "done"
  /\ result' = IF getStructInfo(result.id) = "OK" THEN result
               ELSE Failed(getStructInfo(result.id))
  /\ UNCHANGED <<db, query, layout, offset, addrMissing, queries>>

Return ==
  /\ pc = "done" /\ result.status # "trap"
  /\ pc' = "idle"
  /\ query' = NoQuery
  /\ layout' = 0
  /\ offset' = 0
  /\ result' = Failed("OK")
  /\ UNCHANGED <<db, addrMissing, queries>>

\* All queries are answered, or the process is gone.
Terminated ==
  /\ \/ pc = "idle" /\ queries = MaxQueries
     \/ pc = "done" /\ result.status = "trap"
  /\ UNCHANGED vars

Resolve ==
  \/ OutOfBounds \/ Containing \/ InsideElement \/ Resolved \/ Descend
  \/ GetSubType \/ ResolveLayout \/ Return

Next == AskAddress \/ AskSubType \/ Resolve \/ Terminated

Spec == Init /\ [][Next]_vars

\* A thread inside a query runs.
FairSpec == Spec /\ WF_vars(Resolve)

-----------------------------------------------------------------------------
(* Properties.                                                             *)

\* Type correctness; in particular the loop is only ever in a registered struct.
TypeOK ==
  /\ db \in Databases
  /\ query.op \in Ops \cup {"none"} /\ query.count \in Nat /\ query.at \in Nat
  /\ query.id \in Nat \cup {-1}
  /\ pc \in {"idle", "containing", "loop", "subtype", "layout", "done"}
  /\ layout \in DOMAIN db \cup {0}
  /\ pc = "loop" => layout \in DOMAIN db
  /\ offset \in Nat
  /\ result.status \in Statuses \cup {"trap"}
  /\ result.id \in Nat /\ result.count \in Nat /\ result.offset \in Nat
  /\ addrMissing \in 0..MaxQueries
  /\ queries \in 0..MaxQueries

\* The loop never leaves the struct it is in: the assertion `offset <
\* containerInfo.extent` of getTypeInfoInternal, for every round.
OffsetInStruct == pc = "loop" => 0 < offset /\ offset < db[layout].extent

\* The precondition of the theorems: every type that occurs has a size.
KnownTypesOnly ==
  \A d \in Databases : WellFormed(d) /\ \A id \in AllocTypes : TypeSizeIn(d, id) > 0

\* Of its members, too, a database says what LLVM's struct layouts and the order of
\* registration guarantee.
LaidOutOnly == \A d \in Databases : LaidOut(d)

\* A query returns one of the status codes RuntimeInterface.h documents for it.
Documented ==
  [get_type            |-> {"OK", "UNKNOWN_ADDRESS", "BAD_ALIGNMENT", "INVALID_ID"},
   get_containing_type |-> {"OK", "UNKNOWN_ADDRESS"},
   get_subtype         |-> {"OK", "BAD_ALIGNMENT", "BAD_OFFSET", "ERROR"},
   resolve_type_addr   |-> {"OK", "WRONG_KIND", "UNKNOWN_ADDRESS", "BAD_ALIGNMENT", "INVALID_ID"}]

DocumentedStatus == pc = "done" => result.status \in Documented[query.op]

\* A part of a struct: where it starts, its type, how many elements of its array
\* follow from there, and how deep it is nested.
Part(at, id, count, depth) == [at |-> at, id |-> id, count |-> count, depth |-> depth]

\* The parts a member contributes: its elements, and what is nested in them.
MemberParts(d, m, nested) ==
  LET start(k) == m.offset + k * TypeSizeIn(d, m.type) IN
  {Part(start(k), m.type, m.count - k, 1) : k \in 0..(m.count - 1)}
  \cup {Part(p.at + start(k), p.id, p.count, p.depth + 1) :
          p \in IF m.type \in DOMAIN d THEN nested[m.type] ELSE {}, k \in 0..(m.count - 1)}

\* The parts of each struct of a database, down to n levels of nesting.
PartsOf(d) ==
  LET parts[n \in 0..Cardinality(DOMAIN d)] ==
        [id \in DOMAIN d |->
           IF n = 0 THEN {}
           ELSE UNION {MemberParts(d, d[id].members[i], parts[n - 1]) : i \in 1..Len(d[id].members)}]
  IN  parts

\* The parts that start at an offset in a struct.
PartsAt(n, id, off) == {p \in PartsOf(db)[n][id] : p.at = off}

\* The parts of the queried element that start at the queried address.
Hits ==
  IF query.id \in DOMAIN db THEN PartsAt(Cardinality(DOMAIN db), query.id, Element.rem) ELSE {}

Expected ==
  IF ~InBounds THEN Failed("UNKNOWN_ADDRESS")
  ELSE IF Element.rem = 0 THEN Answer("OK", query.id, query.count - Element.quot, 0)
  ELSE IF Hits = {} THEN Failed("BAD_ALIGNMENT")
  ELSE LET p == CHOOSE p \in Hits : \A q \in Hits : p.depth <= q.depth
       IN  Answer("OK", p.id, p.count, 0)

\* typeart_get_type answers with the outermost type that starts at the address
\* and the elements left from there on, and fails in padding and in the middle
\* of atomic types: the member search and the division by element sizes agree
\* with the layout, level by level.
ResolvesOutermost ==
  pc = "done" /\ query.op = "get_type" => result = Expected

\* Every query is answered: the loop goes down one level of nesting per round.
QueriesEnd == pc # "idle" ~> pc = "idle"
=============================================================================
