------------------------ MODULE TypeResolutionProofs ------------------------
(***************************************************************************)
(* Theorems about TypeResolution for every type database in which all types *)
(* are known, every allocation and every address.                          *)
(***************************************************************************)
EXTENDS TypeResolution, FiniteSums

\* What each step of a query relies on.
StepInv ==
  /\ db \in Databases
  /\ pc = "containing" =>
       /\ query.op \in Ops \ {"get_subtype"}
       /\ query.id \in AllocTypes \cup DOMAIN db
       /\ query.count \in Nat /\ query.at \in Nat
  /\ pc = "loop" =>
       /\ query.op \in {"get_type", "resolve_type_addr"}
       /\ layout \in DOMAIN db
       /\ offset \in Nat /\ 0 < offset /\ offset < db[layout].extent
  /\ pc = "subtype" =>
       /\ query.op = "get_subtype"
       /\ query.id \in DOMAIN db \cup {-1} /\ query.at \in Nat
  /\ pc = "layout" => query.op = "resolve_type_addr" /\ result.status = "OK"
  /\ DocumentedStatus

-----------------------------------------------------------------------------
(* The member search.                                                      *)

\* get_member_index_at returns an index of a member that does not start above
\* the offset, although it never compares the offset with the member it returns.
LEMMA MemberFound ==
  ASSUME NEW ms \in Seq(Members), Len(ms) > 0, ms[1].offset = 0, NEW off \in Nat
  PROVE  /\ MemberIndexAt(ms, off) \in 1..Len(ms)
         /\ ms[MemberIndexAt(ms, off)].offset <= off
        /\ \/ MemberIndexAt(ms, off) = Len(ms)
           \/ off < ms[MemberIndexAt(ms, off) + 1].offset
<1> DEFINE n == Len(ms)
           Stops(i) == i = n \/ off < ms[i + 1].offset
           First(i) == Stops(i) /\ \A j \in 1..(i - 1) : off >= ms[j + 1].offset
<1>1. /\ n \in Nat /\ n >= 1
      /\ \A i \in 1..n : ms[i].offset \in Nat
  <2>1. n \in Nat /\ n >= 1
    OBVIOUS
  <2>2. ASSUME NEW i \in 1..n PROVE ms[i].offset \in Nat
    <3>1. ms[i] \in Members
      OBVIOUS
    <3> QED
      BY <3>1 DEF Members
  <2> QED
    BY <2>1, <2>2
<1>2. CASE off > ms[n].offset
  BY <1>1, <1>2 DEF MemberIndexAt
<1>3. CASE ~(off > ms[n].offset)
  <2> DEFINE S == {i \in 1..n : Stops(i)}
  <2>1. n \in S /\ S \subseteq Nat
    BY <1>1
  <2>2. PICK i \in S : \A j \in S : i <= j
    BY <2>1, LeastNatural
  <2>3. i \in 1..n /\ First(i)
    <3>1. i \in 1..n /\ Stops(i)
      BY <2>2
    <3>2. ASSUME NEW j \in 1..(i - 1) PROVE off >= ms[j + 1].offset
      <4>1. j \in 1..n /\ j # n /\ ~(i <= j) /\ j + 1 \in 1..n
        BY <3>1, <1>1
      <4>2. ~Stops(j)
        BY <4>1, <2>2
      <4> QED
        BY <4>1, <4>2, <1>1
    <3> QED
      BY <3>1, <3>2
  <2> DEFINE k == CHOOSE x \in 1..n : First(x)
  <2>4. k \in 1..n /\ First(k)
    <3> HIDE DEF First
    <3> QED
      BY <2>3
  <2>5. MemberIndexAt(ms, off) = k
    BY <1>3 DEF MemberIndexAt
  <2>6. ms[k].offset <= off
    <3> HIDE DEF k
    <3>1. CASE k = 1
      BY <3>1
    <3>2. CASE k # 1
      <4>1. k - 1 \in 1..(k - 1) /\ (k - 1) + 1 = k
        BY <2>4, <3>2
      <4> QED
        BY <4>1, <2>4, <1>1
    <3> QED
      BY <3>1, <3>2
  <2> QED
    BY <2>4, <2>5, <2>6
<1> QED
  BY <1>2, <1>3

\* In a database of known types getSubTypeInfo divides by a positive size, and
\* a remaining offset lies inside a registered nested struct.
LEMMA SubTypeFound ==
  ASSUME KnownTypesOnly, db \in Databases,
         NEW id \in DOMAIN db, NEW off \in Nat,
         NEW a \in SubTypeAnswers(id, off)
  PROVE  \/ a = Failed("BAD_OFFSET") /\ off >= db[id].extent
         \/ a = Failed("BAD_ALIGNMENT")
         \/ /\ a.status = "OK"
            /\ a.offset \in Nat
            /\ a.offset # 0 => a.id \in DOMAIN db /\ a.offset < db[a.id].extent
<1> DEFINE ms == db[id].members
           m  == ms[MemberIndexAt(ms, off)]
           size == getTypeSize(m.type)
<1>1. /\ id \in Nat /\ id >= 0
      /\ db[id].extent \in Nat
      /\ ms \in Seq(Members)
      /\ WellFormed(db)
  BY DatabasesAssumption DEF KnownTypesOnly, isStructType, NumReservedIds
<1>2. /\ Len(ms) > 0 /\ ms[1].offset = 0
      /\ \A i \in 1..Len(ms) : getTypeSize(ms[i].type) > 0
  BY <1>1 DEF WellFormed, SoundLayout, getTypeSize
<1>3. /\ MemberIndexAt(ms, off) \in 1..Len(ms)
      /\ m.offset <= off
  BY <1>1, <1>2, MemberFound
<1>4. m \in Members /\ size > 0
  BY <1>1, <1>2, <1>3
<1>5. CASE off >= db[id].extent
  BY <1>1, <1>5 DEF SubTypeAnswers
<1>6. CASE ~(off >= db[id].extent)
  <2> DEFINE x == off - m.offset
  <2>1. PICK d \in DivMod(x, size) : a = MemberAnswer(m, d)
    BY <1>1, <1>6 DEF SubTypeAnswers
  <2>2. d = [quot |-> x \div size, rem |-> x % size]
    BY <2>1, <1>4 DEF DivMod
  <2>3. d # Trap
    BY <2>2 DEF Trap
  <2>4. size \in Nat
    <3>1. \A i \in 1..Len(BuiltinSizes) : BuiltinSizes[i] \in Nat
      BY DEF BuiltinSizes
    <3>2. \A t \in DOMAIN db : db[t].extent \in Nat
      BY DatabasesAssumption
    <3>3. m.type \in Nat
      BY <1>4 DEF Members
    <3> HIDE DEF m
    <3> QED
      BY <3>1, <3>2, <3>3 DEF getTypeSize, TypeSizeIn, isBuiltinType
  <2>5. x \in Nat
    BY <1>3, <1>4 DEF Members
  <2>6. d.rem \in Nat /\ d.rem < size
    <3> HIDE DEF x, size
    <3> QED
      BY <2>2, <2>4, <2>5, <1>4
  <2>7. CASE a # Failed("BAD_ALIGNMENT")
    <3>1. /\ a = Answer("OK", m.type, m.count - d.quot, d.rem)
          /\ d.rem # 0 => ~isReservedType(m.type)
      BY <2>1, <2>3, <2>7 DEF MemberAnswer
    <3>2. a.status = "OK" /\ a.offset = d.rem /\ a.id = m.type
      BY <3>1 DEF Answer
    <3>3. d.rem # 0 => m.type \in DOMAIN db /\ size = db[m.type].extent
      BY <3>1, <1>4 DEF getTypeSize, TypeSizeIn
    <3> QED
      BY <3>2, <3>3, <2>6
  <2> QED
    BY <2>7
<1> QED
  BY <1>5, <1>6

-----------------------------------------------------------------------------
(* The steps of a query.                                                   *)

\* The type of an allocation has a positive size.
LEMMA AllocSize ==
  ASSUME KnownTypesOnly, db \in Databases, NEW id \in AllocTypes \cup DOMAIN db
  PROVE  getTypeSize(id) \in Nat /\ getTypeSize(id) > 0
<1>1. CASE id \in DOMAIN db
  BY <1>1, DatabasesAssumption
  DEF KnownTypesOnly, WellFormed, SoundLayout, getTypeSize, TypeSizeIn, isStructType, isReservedType, NumReservedIds
<1>2. CASE id \in AllocTypes
  <2>1. \A i \in 1..Len(BuiltinSizes) : BuiltinSizes[i] \in Nat
    BY DEF BuiltinSizes
  <2>2. \A t \in DOMAIN db : db[t].extent \in Nat
    BY DatabasesAssumption
  <2>3. id \in Nat /\ getTypeSize(id) > 0
    BY <1>2, QueriesAssumption DEF KnownTypesOnly, getTypeSize
  <2>4. getTypeSize(id) \in Nat
    BY <2>1, <2>2, <2>3 DEF getTypeSize, TypeSizeIn, isBuiltinType
  <2> QED
    BY <2>3, <2>4
<1> QED
  BY <1>1, <1>2

\* A query that ends with a documented status keeps the invariant.
LEMMA AnsweredInv ==
  ASSUME StepInv, query.op \in Ops, NEW a, Answered(a),
         a.status \in Documented[query.op]
  PROVE  StepInv'
<1>1. CASE query.op = "resolve_type_addr" /\ a.status = "OK"
  BY <1>1 DEF StepInv, Answered, DocumentedStatus
<1>2. CASE ~(query.op = "resolve_type_addr" /\ a.status = "OK")
  BY <1>2 DEF StepInv, Answered, DocumentedStatus
<1> QED
  BY <1>1, <1>2

\* Failed(s) has status s.
LEMMA FailedStatus == \A s : Failed(s).status = s
  BY DEF Failed, Answer

\* Every step keeps the invariant.
LEMMA StepNext ==
  ASSUME KnownTypesOnly, StepInv, [Next]_vars
  PROVE  StepInv'
<1> USE DEF StepInv
<1>1. CASE AskAddress
  <2>1. PICK op \in Ops \ {"get_subtype"}, id \in AllocTypes \cup DOMAIN db, n \in Counts :
          \E at \in 0..(n * getTypeSize(id) + Slack) : Ask(Query(op, id, n, at), "containing")
    BY <1>1 DEF AskAddress
  <2>2. PICK at \in 0..(n * getTypeSize(id) + Slack) : Ask(Query(op, id, n, at), "containing")
    BY <2>1
  <2>3. n \in Nat /\ at \in Nat
    BY QueriesAssumption, AllocSize
  <2> QED
    BY <2>2, <2>3 DEF Ask, Query, DocumentedStatus
<1>2. CASE AskSubType
  <2>1. PICK id \in DOMAIN db \cup {-1} :
          \E at \in 0..((IF id < 0 THEN 0 ELSE db[id].extent) + Slack) :
            Ask(Query("get_subtype", id, 1, at), "subtype")
    BY <1>2 DEF AskSubType
  <2>2. PICK at \in 0..((IF id < 0 THEN 0 ELSE db[id].extent) + Slack) :
          Ask(Query("get_subtype", id, 1, at), "subtype")
    BY <2>1
  <2>3. at \in Nat
    BY QueriesAssumption, DatabasesAssumption
  <2> QED
    BY <2>2, <2>3 DEF Ask, Query, DocumentedStatus
<1>3. CASE OutOfBounds
  <2> DEFINE size == getTypeSize(query.id)
  <2>1. size \in Nat /\ size > 0
    BY <1>3, AllocSize DEF OutOfBounds
  <2>2. PICK d \in DivMod(query.at, size) :
          Answered(Failed(IF d = Trap THEN "trap" ELSE "UNKNOWN_ADDRESS"))
    BY <1>3 DEF OutOfBounds
  <2>3. d # Trap
    BY <2>1 DEF DivMod, Trap
  <2>4. Answered(Failed("UNKNOWN_ADDRESS"))
    BY <2>2, <2>3
  <2>5. query.op \in Ops /\ "UNKNOWN_ADDRESS" \in Documented[query.op]
    BY <1>3 DEF OutOfBounds, Ops, Documented
  <2> QED
    BY <2>4, <2>5, FailedStatus, AnsweredInv
<1>4. CASE Containing
  <2>1. PICK a : Answered(a) /\ a.status = "OK"
    BY <1>4 DEF Containing, Answer
  <2>2. query.op \in Ops /\ "OK" \in Documented[query.op]
    BY <1>4 DEF Containing, Ops, Documented
  <2> QED
    BY <2>1, <2>2, AnsweredInv
<1>5. CASE InsideElement
  <2>1. query.op \in {"get_type", "resolve_type_addr"}
    BY <1>5 DEF InsideElement, Ops
  <2>2. CASE query.id \in DOMAIN db
    <3>1. layout' = query.id /\ offset' = Element.rem /\ pc' = "loop" /\ UNCHANGED <<db, query>>
      BY <1>5, <2>2 DEF InsideElement
    <3> DEFINE size == getTypeSize(query.id)
    <3>2. /\ size \in Nat /\ size > 0
          /\ size = db[query.id].extent
      BY <2>2, AllocSize, DatabasesAssumption
      DEF getTypeSize, TypeSizeIn, isReservedType, isStructType, NumReservedIds
    <3>3. query.at \in Nat /\ query.at # 0 /\ Element.rem # 0
      BY <1>5 DEF InsideElement, Element
    <3>4. Element.rem = query.at % size
      BY <3>3 DEF Element
    <3>5. Element.rem \in Nat /\ 0 < Element.rem /\ Element.rem < size
      <4> HIDE DEF size
      <4> QED
        BY <3>2, <3>3, <3>4
    <3> QED
      BY <2>1, <2>2, <3>1, <3>2, <3>5 DEF DocumentedStatus
  <2>3. CASE query.id \notin DOMAIN db
    <3>1. PICK s \in {"BAD_ALIGNMENT", "INVALID_ID"} : Answered(Failed(s))
      BY <1>5, <2>3 DEF InsideElement
    <3>2. query.op \in Ops /\ s \in Documented[query.op]
      BY <2>1 DEF Documented, Ops
    <3> QED
      BY <3>1, <3>2, FailedStatus, AnsweredInv
  <2> QED
    BY <2>2, <2>3
<1>6. ASSUME NEW a \in RoundAnswers, pc = "loop"
      PROVE  \/ a = Failed("BAD_ALIGNMENT")
             \/ /\ a.status = "OK"
                /\ a.offset \in Nat
                /\ a.offset # 0 => a.id \in DOMAIN db /\ a.offset < db[a.id].extent
  <2>1. PICK b \in SubTypeAnswers(layout, offset) :
          a = IF b.status = "OK" /\ b.offset # 0 /\ getStructInfo(b.id) # "OK"
              THEN Failed(getStructInfo(b.id)) ELSE b
    BY <1>6 DEF RoundAnswers
  <2>2. /\ layout \in DOMAIN db
        /\ offset \in Nat /\ ~(offset >= db[layout].extent)
    BY <1>6, DatabasesAssumption
  <2>3. \/ b = Failed("BAD_ALIGNMENT")
        \/ /\ b.status = "OK"
           /\ b.offset \in Nat
           /\ b.offset # 0 => b.id \in DOMAIN db /\ b.offset < db[b.id].extent
    BY <2>2, SubTypeFound
  <2>4. \A id \in DOMAIN db : getStructInfo(id) = "OK"
    BY DatabasesAssumption DEF getStructInfo
  <2>5. a = b
    BY <2>1, <2>3, <2>4, FailedStatus
  <2> QED
    BY <2>3, <2>5
<1>7. CASE Resolved
  <2>1. PICK a \in RoundAnswers : Answered(a)
    BY <1>7 DEF Resolved
  <2>2. pc = "loop" /\ query.op \in {"get_type", "resolve_type_addr"}
    BY <1>7 DEF Resolved
  <2>3. a.status \in {"OK", "BAD_ALIGNMENT"}
    BY <1>6, <2>2, FailedStatus
  <2>4. query.op \in Ops /\ a.status \in Documented[query.op]
    BY <2>2, <2>3 DEF Documented, Ops
  <2> QED
    BY <2>1, <2>4, AnsweredInv
<1>8. CASE Descend
  <2>1. PICK a \in RoundAnswers : a.offset # 0 /\ layout' = a.id /\ offset' = a.offset
    BY <1>8 DEF Descend
  <2>2. pc = "loop" /\ UNCHANGED <<db, query, pc>>
    BY <1>8 DEF Descend
  <2>3. a.offset \in Nat /\ a.id \in DOMAIN db /\ a.offset < db[a.id].extent
    BY <1>6, <2>1, <2>2 DEF Failed, Answer
  <2> QED
    BY <2>1, <2>2, <2>3 DEF DocumentedStatus
<1>9. CASE GetSubType
  <2>1. PICK a \in SubTypeAnswers(query.id, query.at) : Answered(a)
    BY <1>9 DEF GetSubType
  <2>2. query.op = "get_subtype" /\ query.id \in DOMAIN db \cup {-1} /\ query.at \in Nat
    BY <1>9 DEF GetSubType
  <2>3. a.status \in {"OK", "BAD_ALIGNMENT", "BAD_OFFSET", "ERROR"}
    <3>1. CASE query.id \in DOMAIN db
      BY <3>1, <2>2, SubTypeFound, FailedStatus
    <3>2. CASE query.id = -1
      BY <3>2, <2>1, FailedStatus DEF SubTypeAnswers
    <3> QED
      BY <2>2, <3>1, <3>2
  <2>4. query.op \in Ops /\ a.status \in Documented[query.op]
    BY <2>2, <2>3 DEF Documented, Ops
  <2> QED
    BY <2>1, <2>4, AnsweredInv
<1>10. CASE ResolveLayout
  <2>1. getStructInfo(result.id) \in {"OK", "WRONG_KIND", "INVALID_ID"}
    BY DEF getStructInfo
  <2>2. result'.status \in {"OK", "WRONG_KIND", "INVALID_ID"}
    BY <1>10, <2>1, FailedStatus DEF ResolveLayout
  <2> QED
    BY <1>10, <2>2 DEF ResolveLayout, DocumentedStatus, Documented
<1>11. CASE Return
  BY <1>11 DEF Return, DocumentedStatus
<1>12. CASE UNCHANGED vars
  BY <1>12 DEF vars, DocumentedStatus
<1> QED
  BY <1>1, <1>2, <1>3, <1>4, <1>5, <1>7, <1>8, <1>9, <1>10, <1>11, <1>12
  DEF Next, Resolve, Terminated

-----------------------------------------------------------------------------
(* Type correctness.                                                       *)

\* A query that is still looking for its allocation has not been recorded as
\* missing, so there are never more missing addresses than queries.
MissingCounted ==
  /\ addrMissing <= queries
  /\ pc = "containing" => addrMissing < queries

TypeInv == StepInv /\ TypeOK /\ MissingCounted

\* The index of an element of an array is below its length.
LEMMA QuotientBelow ==
  ASSUME NEW a \in Nat, NEW b \in Nat, b > 0, NEW n \in Nat, a < n * b
  PROVE  a \div b \in Nat /\ a \div b < n /\ a % b \in Nat
<1> DEFINE q == a \div b
<1>1. q \in Nat /\ a % b \in Nat /\ q * b <= a
  OBVIOUS
<1>2. ASSUME q >= n PROVE FALSE
  <2>1. n * b <= q * b
    <3> HIDE DEF q
    <3> QED
      BY <1>1, <1>2
  <2> QED
    BY <1>1, <2>1
<1> QED
  BY <1>1, <1>2

\* The answers of getSubTypeInfo are ids and counts.
LEMMA SubTypeTyped ==
  ASSUME KnownTypesOnly, db \in Databases,
         NEW id \in DOMAIN db, NEW off \in Nat,
         NEW a \in SubTypeAnswers(id, off)
  PROVE  a.id \in Nat /\ a.count \in Nat
<1> DEFINE ms == db[id].members
           m  == ms[MemberIndexAt(ms, off)]
           size == getTypeSize(m.type)
<1>1. /\ id \in Nat /\ id >= 0
      /\ ms \in Seq(Members)
      /\ WellFormed(db)
  BY DatabasesAssumption DEF KnownTypesOnly, isStructType, NumReservedIds
<1>2. /\ Len(ms) > 0 /\ ms[1].offset = 0
      /\ \A i \in 1..Len(ms) : getTypeSize(ms[i].type) > 0
  BY <1>1 DEF WellFormed, SoundLayout, getTypeSize
<1>3. /\ MemberIndexAt(ms, off) \in 1..Len(ms)
      /\ m.offset <= off
  BY <1>1, <1>2, MemberFound
<1>4. m \in Members /\ size > 0
  BY <1>1, <1>2, <1>3
<1>5. \A s : Failed(s).id \in Nat /\ Failed(s).count \in Nat
  BY DEF Failed, Answer
<1>6. CASE off >= db[id].extent
  BY <1>1, <1>5, <1>6 DEF SubTypeAnswers
<1>7. CASE ~(off >= db[id].extent)
  <2> DEFINE x == off - m.offset
  <2>1. PICK d \in DivMod(x, size) : a = MemberAnswer(m, d)
    BY <1>1, <1>7 DEF SubTypeAnswers
  <2>2. d = [quot |-> x \div size, rem |-> x % size]
    BY <2>1, <1>4 DEF DivMod
  <2>3. CASE \E s : a = Failed(s)
    BY <2>3, <1>5
  <2>4. CASE ~\E s : a = Failed(s)
    <3>1. ~(d.quot >= m.count) /\ a = Answer("OK", m.type, m.count - d.quot, d.rem)
      BY <2>1, <2>4, Zenon DEF MemberAnswer
    <3>2. x \in Nat /\ m.count \in Nat /\ m.type \in Nat
      BY <1>3, <1>4 DEF Members
    <3>3. size \in Nat
      <4>1. \A i \in 1..Len(BuiltinSizes) : BuiltinSizes[i] \in Nat
        BY DEF BuiltinSizes
      <4>2. \A t \in DOMAIN db : db[t].extent \in Nat
        BY DatabasesAssumption
      <4> HIDE DEF m
      <4> QED
        BY <4>1, <4>2, <3>2 DEF getTypeSize, TypeSizeIn, isBuiltinType
    <3>4. d.quot \in Nat
      <4> HIDE DEF x, size
      <4> QED
        BY <2>2, <3>2, <3>3, <1>4
    <3>5. m.count - d.quot \in Nat
      <4> HIDE DEF m
      <4> QED
        BY <3>1, <3>2, <3>4
    <3> QED
      BY <3>1, <3>2, <3>5 DEF Answer
  <2> QED
    BY <2>3, <2>4
<1> QED
  BY <1>6, <1>7

\* A round of the loop answers with a status, an id, a count and an offset.
Typed(a) ==
  /\ a.status \in Statuses \cup {"trap"}
  /\ a.id \in Nat /\ a.count \in Nat /\ a.offset \in Nat

LEMMA FailedTyped == \A s \in Statuses \cup {"trap"} : Typed(Failed(s))
  BY DEF Failed, Answer, Typed

\* Ending a query with a typed answer keeps the types.
LEMMA AnsweredTyped ==
  ASSUME TypeInv, NEW a, Answered(a), Typed(a),
         addrMissing' \in Nat, addrMissing' <= queries
  PROVE  TypeOK' /\ MissingCounted'
<1>1. pc' \in {"layout", "done"}
  BY DEF Answered
<1>2. addrMissing' \in 0..MaxQueries
  BY QueriesAssumption DEF TypeInv, TypeOK
<1> QED
  BY <1>1, <1>2 DEF TypeInv, TypeOK, MissingCounted, Answered, Typed

\* Every step keeps the types.
LEMMA TypeNext ==
  ASSUME KnownTypesOnly, TypeInv, [Next]_vars
  PROVE  TypeInv'
<1>1. StepInv /\ TypeOK /\ MissingCounted
  BY DEF TypeInv
<1>2. StepInv'
  BY <1>1, StepNext
<1>3. addrMissing \in Nat /\ queries \in Nat /\ addrMissing <= queries
  BY <1>1 DEF TypeOK, MissingCounted
<1>4. ASSUME NEW q, NEW label, Ask(q, label),
             q.op \in Ops, q.id \in Nat \cup {-1}, q.count \in Nat, q.at \in Nat,
             label \in {"containing", "subtype"}
      PROVE  TypeOK' /\ MissingCounted'
  <2>1. queries' \in 0..MaxQueries /\ addrMissing' < queries'
    BY <1>3, <1>4, QueriesAssumption DEF Ask
  <2> QED
    BY <1>1, <1>3, <1>4, <2>1 DEF Ask, TypeOK, MissingCounted
<1>5. CASE AskAddress
  <2>1. PICK op \in Ops \ {"get_subtype"}, id \in AllocTypes \cup DOMAIN db, n \in Counts :
          \E at \in 0..(n * getTypeSize(id) + Slack) : Ask(Query(op, id, n, at), "containing")
    BY <1>5 DEF AskAddress
  <2>2. PICK at \in 0..(n * getTypeSize(id) + Slack) : Ask(Query(op, id, n, at), "containing")
    BY <2>1
  <2>3. n \in Nat /\ id \in Nat /\ at \in Nat
    BY <1>1, QueriesAssumption, DatabasesAssumption, AllocSize DEF StepInv
  <2> QED
    BY <1>2, <1>4, <2>2, <2>3 DEF Query, TypeInv
<1>6. CASE AskSubType
  <2>1. PICK id \in DOMAIN db \cup {-1} :
          \E at \in 0..((IF id < 0 THEN 0 ELSE db[id].extent) + Slack) :
            Ask(Query("get_subtype", id, 1, at), "subtype")
    BY <1>6 DEF AskSubType
  <2>2. PICK at \in 0..((IF id < 0 THEN 0 ELSE db[id].extent) + Slack) :
          Ask(Query("get_subtype", id, 1, at), "subtype")
    BY <2>1
  <2>3. id \in Nat \cup {-1} /\ at \in Nat
    BY <1>1, QueriesAssumption, DatabasesAssumption DEF StepInv
  <2> QED
    BY <1>2, <1>4, <2>2, <2>3 DEF Query, TypeInv, Ops
<1>7. CASE OutOfBounds
  <2>1. PICK s \in {"trap", "UNKNOWN_ADDRESS"} : Answered(Failed(s))
    BY <1>7 DEF OutOfBounds
  <2>2. pc = "containing" /\ addrMissing' \in {addrMissing, addrMissing + 1}
    BY <1>7 DEF OutOfBounds
  <2>3. addrMissing' \in Nat /\ addrMissing' <= queries
    BY <1>1, <1>3, <2>2 DEF MissingCounted
  <2>4. Typed(Failed(s))
    BY FailedTyped DEF Statuses
  <2> QED
    BY <1>2, <2>1, <2>3, <2>4, AnsweredTyped DEF TypeInv
<1>8. CASE Containing
  <2> DEFINE size == getTypeSize(query.id)
             a == Answer("OK", query.id, query.count - Element.quot, Element.rem)
  <2>1. /\ Answered(a) /\ addrMissing' = addrMissing
        /\ query.at = 0 \/ query.at < query.count * size
    BY <1>8 DEF Containing, InBounds
  <2>2. /\ query.count \in Nat /\ query.at \in Nat
        /\ query.id \in AllocTypes \cup DOMAIN db
    BY <1>1, <1>8 DEF StepInv, Containing
  <2>3. size \in Nat /\ size > 0
    BY <1>1, <2>2, AllocSize DEF StepInv
  <2>4. query.id \in Nat
    BY <1>1, <2>2, QueriesAssumption, DatabasesAssumption DEF StepInv
  <2>5. Element.quot \in Nat /\ Element.quot <= query.count /\ Element.rem \in Nat
    <3>1. CASE query.at = 0
      BY <3>1, <2>2 DEF Element
    <3>2. CASE query.at # 0
      <4>1. Element.quot = query.at \div size /\ Element.rem = query.at % size
        BY <3>2 DEF Element
      <4>2. query.at < query.count * size
        BY <3>2, <2>1
      <4> HIDE DEF size
      <4>3. Element.quot \in Nat /\ Element.quot < query.count /\ Element.rem \in Nat
        BY <2>2, <2>3, <4>1, <4>2, QuotientBelow
      <4> QED
        BY <2>2, <4>3
    <3> QED
      BY <3>1, <3>2
  <2>6. query.count - Element.quot \in Nat
    BY <2>2, <2>5
  <2>7. Typed(a)
    BY <2>4, <2>5, <2>6 DEF Typed, Answer, Statuses
  <2> HIDE DEF a
  <2> QED
    BY <1>2, <1>3, <2>1, <2>7, AnsweredTyped DEF TypeInv
<1>9. CASE InsideElement
  <2>1. CASE query.id \in DOMAIN db
    <3>1. layout' = query.id /\ offset' = Element.rem /\ pc' = "loop"
          /\ UNCHANGED <<db, query, result, queries, addrMissing>>
      BY <1>9, <2>1 DEF InsideElement
    <3>2. offset' \in Nat
      BY <1>2, <3>1 DEF StepInv
    <3> QED
      BY <1>1, <1>2, <2>1, <3>1, <3>2 DEF TypeInv, TypeOK, MissingCounted
  <2>2. CASE query.id \notin DOMAIN db
    <3>1. PICK s \in {"BAD_ALIGNMENT", "INVALID_ID"} : Answered(Failed(s))
      BY <1>9, <2>2 DEF InsideElement
    <3>2. Typed(Failed(s))
      BY FailedTyped DEF Statuses
    <3>3. addrMissing' = addrMissing
      BY <1>9 DEF InsideElement
    <3> QED
      BY <1>2, <1>3, <3>1, <3>2, <3>3, AnsweredTyped DEF TypeInv
  <2> QED
    BY <2>1, <2>2
<1>10. ASSUME NEW id \in DOMAIN db, NEW off \in Nat, NEW a \in SubTypeAnswers(id, off)
       PROVE  Typed(a)
  <2>1. a.id \in Nat /\ a.count \in Nat
    BY <1>1, <1>10, SubTypeTyped DEF StepInv
  <2>2. a.status \in Statuses /\ a.offset \in Nat
    <3>1. \/ a = Failed("BAD_OFFSET") \/ a = Failed("BAD_ALIGNMENT")
          \/ a.status = "OK" /\ a.offset \in Nat
      BY <1>1, <1>10, SubTypeFound DEF StepInv
    <3>2. \A s : Failed(s).offset \in Nat
      BY DEF Failed, Answer
    <3> QED
      BY <3>1, <3>2, FailedStatus DEF Statuses
  <2> QED
    BY <2>1, <2>2 DEF Typed
<1>11. ASSUME pc = "loop", NEW a \in RoundAnswers PROVE Typed(a)
  <2>1. PICK b \in SubTypeAnswers(layout, offset) :
          a = IF b.status = "OK" /\ b.offset # 0 /\ getStructInfo(b.id) # "OK"
              THEN Failed(getStructInfo(b.id)) ELSE b
    BY <1>11 DEF RoundAnswers
  <2>2. Typed(b)
    BY <1>1, <1>10, <1>11 DEF StepInv
  <2>3. Typed(Failed(getStructInfo(b.id)))
    BY FailedTyped DEF getStructInfo, Statuses
  <2> QED
    BY <2>1, <2>2, <2>3
<1>12. CASE Resolved
  <2>1. PICK a \in RoundAnswers : Answered(a)
    BY <1>12 DEF Resolved
  <2>2. Typed(a) /\ addrMissing' = addrMissing
    BY <1>11, <1>12 DEF Resolved
  <2> QED
    BY <1>2, <1>3, <2>1, <2>2, AnsweredTyped DEF TypeInv
<1>13. CASE Descend
  <2>1. pc = "loop" /\ UNCHANGED <<db, query, pc, result, addrMissing, queries>>
    BY <1>13 DEF Descend
  <2>2. layout' \in DOMAIN db' /\ offset' \in Nat
    BY <1>2, <2>1 DEF StepInv
  <2> QED
    BY <1>1, <1>2, <2>1, <2>2 DEF TypeInv, TypeOK, MissingCounted
<1>14. CASE GetSubType
  <2>1. PICK a \in SubTypeAnswers(query.id, query.at) : Answered(a)
    BY <1>14 DEF GetSubType
  <2>2. query.id \in DOMAIN db \cup {-1} /\ query.at \in Nat /\ addrMissing' = addrMissing
    BY <1>1, <1>14 DEF GetSubType, StepInv
  <2>3. Typed(a)
    <3>1. CASE query.id \in DOMAIN db
      BY <3>1, <2>2, <1>10
    <3>2. CASE query.id = -1
      <4>1. a = Failed("ERROR")
        BY <3>2, <2>1 DEF SubTypeAnswers
      <4> QED
        BY <4>1, FailedTyped DEF Statuses
    <3> QED
      BY <2>2, <3>1, <3>2
  <2> QED
    BY <1>2, <1>3, <2>1, <2>2, <2>3, AnsweredTyped DEF TypeInv
<1>15. CASE ResolveLayout
  <2>1. Typed(Failed(getStructInfo(result.id)))
    BY FailedTyped DEF getStructInfo, Statuses
  <2>2. Typed(result')
    BY <1>1, <1>15, <2>1 DEF ResolveLayout, TypeOK, Typed
  <2> QED
    BY <1>1, <1>2, <1>15, <2>2 DEF ResolveLayout, TypeInv, TypeOK, MissingCounted, Typed
<1>16. CASE Return
  <2>1. Typed(Failed("OK"))
    BY FailedTyped DEF Statuses
  <2> QED
    BY <1>1, <1>2, <1>16, <2>1 DEF Return, TypeInv, TypeOK, MissingCounted, Typed, NoQuery, Query
<1>17. CASE UNCHANGED vars
  BY <1>1, <1>2, <1>17 DEF vars, TypeInv, TypeOK, MissingCounted
<1> QED
  BY <1>5, <1>6, <1>7, <1>8, <1>9, <1>12, <1>13, <1>14, <1>15, <1>16, <1>17
  DEF Next, Resolve, Terminated

-----------------------------------------------------------------------------
(* The parts of a struct.                                                  *)

\* One level of parts, given those of the level below, and what it means to give
\* the parts level by level.
LevelOf(d, n, parts) ==
  [id \in DOMAIN d |->
     IF n = 0 THEN {}
     ELSE UNION {MemberParts(d, d[id].members[i], parts[n - 1]) : i \in 1..Len(d[id].members)}]

ByLevel(d, top, parts) == parts = [n \in 0..top |-> LevelOf(d, n, parts)]

\* The levels can be given one after the other.
LEMMA LevelsExist ==
  ASSUME NEW d, NEW top \in Nat
  PROVE  \E parts : ByLevel(d, top, parts)
<1> DEFINE Bad == {n \in Nat : ~\E parts : ByLevel(d, n, parts)}
<1>1. ASSUME Bad # {} PROVE FALSE
  <2>1. PICK n \in Bad : \A k \in Bad : n <= k
    <3>1. Bad \subseteq Nat
      OBVIOUS
    <3> HIDE DEF Bad
    <3> QED
      BY <1>1, <3>1, LeastNatural
  <2>2. CASE n = 0
    <3> DEFINE parts == [k \in 0..0 |-> [id \in DOMAIN d |-> {}]]
    <3>1. \A k \in 0..0 : LevelOf(d, k, parts) = [id \in DOMAIN d |-> {}]
      BY DEF LevelOf
    <3>2. ByLevel(d, 0, parts)
      BY <3>1 DEF ByLevel
    <3> QED
      BY <2>1, <2>2, <3>2
  <2>3. CASE n # 0
    <3>1. n \in Nat /\ n - 1 \in Nat /\ ~(n <= n - 1)
      BY <2>3
    <3>2. PICK parts : ByLevel(d, n - 1, parts)
      BY <2>1, <3>1
    <3> DEFINE more == [k \in 0..n |-> LevelOf(d, k, parts)]
    <3>3. ASSUME NEW k \in 0..n, k # 0 PROVE more[k - 1] = parts[k - 1]
      <4>1. k - 1 \in 0..n /\ k - 1 \in 0..(n - 1)
        BY <3>1, <3>3
      <4>2. parts[k - 1] = LevelOf(d, k - 1, parts)
        BY <3>2, <4>1, Zenon DEF ByLevel
      <4>3. more[k - 1] = LevelOf(d, k - 1, parts)
        BY <4>1, Zenon
      <4> QED
        BY <4>2, <4>3, Zenon
    <3>4. \A k \in 0..n : LevelOf(d, k, more) = LevelOf(d, k, parts)
      <4> HIDE DEF more
      <4> QED
        BY <3>3, Zenon DEF LevelOf
    <3>5. ByLevel(d, n, more)
      BY <3>4, Zenon DEF ByLevel
    <3> HIDE DEF more
    <3> QED
      BY <2>1, <3>5
  <2> QED
    BY <2>2, <2>3
<1> QED
  BY <1>1

\* PartsOf, level by level.
LEMMA PartsUnfold ==
  ASSUME NEW d, IsFiniteSet(DOMAIN d), NEW n \in 0..Cardinality(DOMAIN d)
  PROVE  PartsOf(d)[n] = LevelOf(d, n, PartsOf(d))
<1> DEFINE parts == CHOOSE g : ByLevel(d, Cardinality(DOMAIN d), g)
<1>1. PartsOf(d) = parts
  BY Zenon DEF PartsOf, ByLevel, LevelOf
<1>2. ByLevel(d, Cardinality(DOMAIN d), parts)
  BY FS_CardinalityType, LevelsExist
<1> HIDE DEF parts
<1>3. parts[n] = LevelOf(d, n, parts)
  BY <1>2, Zenon DEF ByLevel
<1> QED
  BY <1>1, <1>3

-----------------------------------------------------------------------------
(* Members in order.                                                       *)

\* What a database is taken to be.
Sound(d) ==
  /\ \A id \in DOMAIN d :
       id \in Nat /\ isStructType(id) /\ d[id].extent \in Nat /\ d[id].members \in Seq(Members)
  /\ IsFiniteSet(DOMAIN d) /\ WellFormed(d) /\ LaidOut(d)

\* The size of a member's type, and the byte behind a member.
SizeOf(d, m) == TypeSizeIn(d, m.type)
EndOf(d, m)  == m.offset + m.count * SizeOf(d, m)

LEMMA Products ==
  ASSUME NEW a \in Nat, NEW b \in Nat
  PROVE  a * b \in Nat
  OBVIOUS

LEMMA MemberFacts ==
  ASSUME NEW d, Sound(d), NEW id \in DOMAIN d, NEW i \in 1..Len(d[id].members)
  PROVE  LET m == d[id].members[i]
         IN  /\ m.offset \in Nat /\ m.type \in Nat /\ m.count \in Nat
             /\ SizeOf(d, m) \in Nat /\ SizeOf(d, m) > 0
             /\ m.type \in DOMAIN d => SizeOf(d, m) = d[m.type].extent
             /\ m.type \notin DOMAIN d <=> isReservedType(m.type)
             /\ EndOf(d, m) \in Nat /\ m.offset <= EndOf(d, m)
<1> DEFINE m == d[id].members[i]
<1>1. m \in Members
  BY DEF Sound
<1>2. m.offset \in Nat /\ m.type \in Nat /\ m.count \in Nat
  BY <1>1 DEF Members
<1>3. SizeOf(d, m) > 0
  BY DEF Sound, WellFormed, SoundLayout, SizeOf
<1>4. \A t \in DOMAIN d : t \in Nat /\ isStructType(t) /\ d[t].extent \in Nat
  BY DEF Sound
<1>5. \A k \in 1..Len(BuiltinSizes) : BuiltinSizes[k] \in Nat
  BY DEF BuiltinSizes
<1> HIDE DEF m
<1>6. SizeOf(d, m) \in Nat
  BY <1>2, <1>4, <1>5 DEF SizeOf, TypeSizeIn, isBuiltinType
<1>7. m.type \in DOMAIN d => ~isReservedType(m.type) /\ SizeOf(d, m) = d[m.type].extent
  BY <1>2, <1>4 DEF SizeOf, TypeSizeIn, isReservedType, isStructType, NumReservedIds
<1>8. m.type \notin DOMAIN d => isReservedType(m.type)
  BY <1>3 DEF SizeOf, TypeSizeIn
<1>9. m.count * SizeOf(d, m) \in Nat
  BY <1>2, <1>6, Products
<1>10. EndOf(d, m) \in Nat /\ m.offset <= EndOf(d, m)
  <2> DEFINE x == m.count * SizeOf(d, m)
  <2>1. EndOf(d, m) = m.offset + x
    BY DEF EndOf
  <2> HIDE DEF x
  <2> QED
    BY <1>2, <1>9, <2>1 DEF x
<1> QED
  BY <1>2, <1>3, <1>6, <1>7, <1>8, <1>10 DEF m

\* A member ends before any later one starts, and within its struct.
LEMMA InOrder ==
  ASSUME NEW d, Sound(d), NEW id \in DOMAIN d, NEW i \in 1..Len(d[id].members)
  PROVE  /\ \A j \in 1..Len(d[id].members) : i < j => EndOf(d, d[id].members[i]) <= d[id].members[j].offset
         /\ EndOf(d, d[id].members[i]) <= d[id].extent
<1> DEFINE ms == d[id].members
           n == Len(ms)
           start(j) == ms[j].offset
           end(j) == EndOf(d, ms[j])
           extent == d[id].extent
           Bad == {j \in 1..n : i < j /\ ~(end(i) <= start(j))}
<1>1. n \in Nat /\ extent \in Nat
  BY DEF Sound
<1>2. \A j \in 1..n : start(j) \in Nat /\ end(j) \in Nat /\ start(j) <= end(j)
  BY MemberFacts
<1>3. \A j \in 1..n : end(j) <= IF j = n THEN extent ELSE start(j + 1)
  BY DEF Sound, LaidOut, MembersInOrder, EndOf, SizeOf
<1> HIDE DEF ms, n, start, end, extent
<1>4. ASSUME Bad # {} PROVE FALSE
  <2>1. PICK j \in Bad : \A k \in Bad : j <= k
    <3>1. Bad \subseteq Nat
      BY <1>1
    <3> HIDE DEF Bad
    <3> QED
      BY <1>4, <3>1, LeastNatural
  <2>2. /\ j \in 1..n /\ i < j /\ ~(end(i) <= start(j))
        /\ j - 1 \in 1..n /\ i <= j - 1 /\ j - 1 # n /\ j - 1 + 1 = j /\ ~(j <= j - 1)
    BY <1>1 DEF n, ms
  <2>3. end(j - 1) <= start(j)
    BY <1>3, <2>2
  <2>4. CASE j - 1 = i
    BY <2>2, <2>3, <2>4
  <2>5. CASE j - 1 # i
    <3>1. end(i) <= start(j - 1)
      BY <2>1, <2>2, <2>5 DEF n, ms
    <3> QED
      BY <1>2, <2>2, <2>3, <3>1 DEF n, ms
  <2> QED
    BY <2>4, <2>5
<1>5. \A j \in 1..n : i < j => end(i) <= start(j)
  BY <1>4
<1>6. end(i) <= extent
  <2>1. i \in 1..n /\ n \in 1..n
    BY <1>1 DEF n, ms
  <2>2. CASE i = n
    BY <1>3, <2>1, <2>2
  <2>3. CASE i # n
    <3>1. end(i) <= start(n) /\ end(n) <= extent
      BY <1>3, <1>5, <2>1, <2>3
    <3> QED
      BY <1>1, <1>2, <2>1, <3>1
  <2> QED
    BY <2>2, <2>3
<1> QED
  BY <1>5, <1>6 DEF n, ms, start, end, extent

\* Division is the only way to write a number as a multiple and a rest.
LEMMA OneQuotient ==
  ASSUME NEW b \in Nat, b > 0, NEW k \in Nat, NEW r \in Nat, r < b, NEW x \in Nat, x = k * b + r
  PROVE  k = x \div b /\ r = x % b
<1> DEFINE q == x \div b
           s == x % b
<1>1. q \in Nat /\ s \in Nat /\ s < b /\ x = q * b + s
  OBVIOUS
<1> HIDE DEF q, s
<1>2. ASSUME NEW u \in Nat, NEW v \in Nat, u < v PROVE u * b + b <= v * b
  <2>1. PICK e \in Nat : v = u + 1 + e
    <3>1. v - (u + 1) \in Nat /\ v = u + 1 + (v - (u + 1))
      BY <1>2
    <3> QED
      BY <3>1
  <2>2. v * b = u * b + b + e * b
    BY <2>1
  <2>3. e * b \in Nat /\ u * b \in Nat
    BY Products
  <2> QED
    BY <2>2, <2>3
<1>3. k * b \in Nat /\ q * b \in Nat
  BY <1>1, Products
<1>4. ~(k < q)
  <2>1. SUFFICES ASSUME k < q PROVE FALSE
    OBVIOUS
  <2>2. k * b + b <= q * b
    BY <1>1, <1>2, <2>1
  <2> QED
    BY <1>1, <1>3, <2>2
<1>5. ~(q < k)
  <2>1. SUFFICES ASSUME q < k PROVE FALSE
    OBVIOUS
  <2>2. q * b + b <= k * b
    BY <1>1, <1>2, <2>1
  <2> QED
    BY <1>1, <1>3, <2>2
<1>6. k = q
  BY <1>1, <1>4, <1>5
<1> QED
  BY <1>1, <1>3, <1>6 DEF q, s

-----------------------------------------------------------------------------
(* Where the parts of a struct are.                                        *)

PartType == [at : Nat, id : Nat, count : Nat, depth : Nat]

LEMMA PartFields ==
  \A at, id, count, depth :
    LET p == Part(at, id, count, depth)
    IN  p.at = at /\ p.id = id /\ p.count = count /\ p.depth = depth
  BY DEF Part

\* Parts of a struct lie in it.
Inside(d, parts) ==
  \A id \in DOMAIN d : \A p \in parts[id] : p \in PartType /\ p.at < d[id].extent /\ p.depth > 0

\* Element k of a member of c elements of size b.
LEMMA ElementWithin ==
  ASSUME NEW b \in Nat, b > 0, NEW c \in Nat, NEW k \in 0..(c - 1), NEW r \in Nat, r < b
  PROVE  k * b \in Nat /\ c * b \in Nat /\ k * b + r < c * b
<1>1. k \in Nat /\ c - 1 - k \in Nat
  OBVIOUS
<1>2. PICK e \in Nat : e = c - 1 - k
  BY <1>1
<1>3. c = k + 1 + e
  BY <1>1, <1>2
<1>4. c * b = k * b + b + e * b
  BY <1>1, <1>3
<1>5. k * b \in Nat /\ e * b \in Nat /\ c * b \in Nat
  BY <1>1, Products
<1> QED
  BY <1>4, <1>5

\* Element k of a member, and what a part of the member's type is in that element.
ElementPart(d, m, k)  == Part(m.offset + k * SizeOf(d, m), m.type, m.count - k, 1)
InnerPart(d, m, k, q) == Part(q.at + (m.offset + k * SizeOf(d, m)), q.id, q.count, q.depth + 1)

\* Each part of a member is one of its elements, or is in one of its elements.
IsInner(d, m, nested, k, p) ==
  /\ m.type \in DOMAIN d
  /\ \E q \in nested[m.type] : q \in PartType /\ q.at < SizeOf(d, m) /\ q.depth > 0 /\ p = InnerPart(d, m, k, q)

LEMMA PartOfMember ==
  ASSUME NEW d, Sound(d), NEW id \in DOMAIN d, NEW i \in 1..Len(d[id].members),
         NEW nested, Inside(d, nested),
         NEW p \in MemberParts(d, d[id].members[i], nested)
  PROVE  LET m == d[id].members[i]
         IN  \E k \in 0..(m.count - 1) : p = ElementPart(d, m, k) \/ IsInner(d, m, nested, k, p)
<1> DEFINE m == d[id].members[i]
           size == SizeOf(d, m)
<1>1. m.type \in DOMAIN d => size = d[m.type].extent
  BY MemberFacts
<1> HIDE DEF m
<1>2. CASE \E k \in 0..(m.count - 1) : p = ElementPart(d, m, k)
  BY <1>2 DEF m
<1>3. CASE \E k \in 0..(m.count - 1), q \in IF m.type \in DOMAIN d THEN nested[m.type] ELSE {} :
             p = InnerPart(d, m, k, q)
  <2>1. PICK k \in 0..(m.count - 1), q \in IF m.type \in DOMAIN d THEN nested[m.type] ELSE {} :
          p = InnerPart(d, m, k, q)
    BY <1>3
  <2>2. m.type \in DOMAIN d /\ q \in nested[m.type]
    BY <2>1
  <2>3. q \in PartType /\ q.at < size /\ q.depth > 0
    BY <1>1, <2>2 DEF Inside
  <2>4. IsInner(d, m, nested, k, p)
    BY <2>1, <2>2, <2>3 DEF IsInner
  <2> QED
    BY <2>1, <2>4 DEF m
<1>4. p \in MemberParts(d, m, nested)
  BY DEF m
<1> QED
  BY <1>2, <1>3, <1>4 DEF MemberParts, SizeOf, ElementPart, InnerPart

\* A part of a member lies in the member.
LEMMA PartInMember ==
  ASSUME NEW d, Sound(d), NEW id \in DOMAIN d, NEW i \in 1..Len(d[id].members),
         NEW nested, Inside(d, nested),
         NEW p \in MemberParts(d, d[id].members[i], nested)
  PROVE  /\ p \in PartType /\ p.depth > 0
         /\ d[id].members[i].offset <= p.at /\ p.at < EndOf(d, d[id].members[i])
<1> DEFINE m == d[id].members[i]
           size == SizeOf(d, m)
<1>1. m.offset \in Nat /\ m.type \in Nat /\ m.count \in Nat /\ size \in Nat /\ size > 0
  BY MemberFacts
<1>2. \E k \in 0..(m.count - 1) : p = ElementPart(d, m, k) \/ IsInner(d, m, nested, k, p)
  BY PartOfMember
<1> HIDE DEF m
<1>3. PICK k \in 0..(m.count - 1) : p = ElementPart(d, m, k) \/ IsInner(d, m, nested, k, p)
  BY <1>2
<1> HIDE DEF size
<1> DEFINE x == k * size
           y == m.count * size
<1>4. /\ EndOf(d, m) = m.offset + y
      /\ ElementPart(d, m, k) = Part(m.offset + x, m.type, m.count - k, 1)
      /\ \A q : InnerPart(d, m, k, q) = Part(q.at + (m.offset + x), q.id, q.count, q.depth + 1)
  BY DEF EndOf, ElementPart, InnerPart, size
<1>5. k \in Nat /\ m.count - k \in Nat
  BY <1>1
<1>6. \A r \in Nat : r < size => x \in Nat /\ y \in Nat /\ x + r < y
  BY <1>1, ElementWithin
<1> HIDE DEF x, y
<1>7. x \in Nat /\ y \in Nat /\ x < y
  <2>1. 0 \in Nat /\ 0 < size
    BY <1>1
  <2>2. x \in Nat /\ y \in Nat /\ x + 0 < y
    BY <1>6, <2>1
  <2> QED
    BY <2>2
<1>8. CASE p = ElementPart(d, m, k)
  <2>1. p = Part(m.offset + x, m.type, m.count - k, 1)
    BY <1>4, <1>8
  <2>2. m.offset + x \in Nat /\ m.offset <= m.offset + x /\ m.offset + x < m.offset + y
    BY <1>1, <1>7
  <2>3. p \in PartType /\ p.at = m.offset + x /\ p.depth = 1
    BY <1>1, <1>5, <2>1, <2>2 DEF Part, PartType
  <2> QED
    BY <1>4, <2>2, <2>3 DEF m
<1>9. CASE IsInner(d, m, nested, k, p)
  <2>1. PICK q \in PartType : q.at < size /\ q.depth > 0 /\ p = InnerPart(d, m, k, q)
    BY <1>9 DEF IsInner, size
  <2>2. p = Part(q.at + (m.offset + x), q.id, q.count, q.depth + 1)
    BY <1>4, <2>1
  <2>3. q.at \in Nat /\ q.id \in Nat /\ q.count \in Nat /\ q.depth \in Nat
    BY DEF PartType
  <2>4. x + q.at < y
    BY <1>6, <2>1, <2>3
  <2>5. q.depth + 1 \in Nat /\ q.depth + 1 > 0
    BY <2>3
  <2>6. /\ q.at + (m.offset + x) \in Nat /\ m.offset <= q.at + (m.offset + x)
        /\ q.at + (m.offset + x) < m.offset + y
    <3>1. \A a, o, v, w \in Nat : v + a < w => a + (o + v) \in Nat /\ o <= a + (o + v) /\ a + (o + v) < o + w
      OBVIOUS
    <3> QED
      BY <1>1, <1>7, <2>3, <2>4, <3>1
  <2>7. p \in PartType /\ p.at = q.at + (m.offset + x) /\ p.depth = q.depth + 1
    BY <2>2, <2>3, <2>5, <2>6 DEF Part, PartType
  <2> QED
    BY <1>4, <2>5, <2>6, <2>7 DEF m
<1> QED
  BY <1>3, <1>8, <1>9

\* Parts lie in their struct, at every level.
LEMMA PartsInside ==
  ASSUME NEW d, Sound(d)
  PROVE  \A n \in 0..Cardinality(DOMAIN d) : Inside(d, PartsOf(d)[n])
<1> DEFINE N == Cardinality(DOMAIN d)
           Bad == {n \in 0..N : ~Inside(d, PartsOf(d)[n])}
<1>1. N \in Nat /\ IsFiniteSet(DOMAIN d)
  BY FS_CardinalityType DEF Sound
<1>2. ASSUME Bad # {} PROVE FALSE
  <2>1. PICK n \in Bad : \A k \in Bad : n <= k
    <3>1. Bad \subseteq Nat
      BY <1>1
    <3> HIDE DEF Bad
    <3> QED
      BY <1>2, <3>1, LeastNatural
  <2>2. n \in 0..N /\ PartsOf(d)[n] = LevelOf(d, n, PartsOf(d))
    BY <1>1, PartsUnfold
  <2>3. n # 0
    <3>1. n = 0 => \A id \in DOMAIN d : PartsOf(d)[n][id] = {}
      BY <2>2 DEF LevelOf
    <3> QED
      BY <2>1, <3>1 DEF Inside
  <2>4. Inside(d, PartsOf(d)[n - 1])
    <3>1. n - 1 \in 0..N /\ ~(n <= n - 1)
      BY <1>1, <2>2, <2>3
    <3> QED
      BY <2>1, <3>1
  <2>5. ASSUME NEW id \in DOMAIN d, NEW p \in PartsOf(d)[n][id]
        PROVE  p \in PartType /\ p.at < d[id].extent /\ p.depth > 0
    <3>1. PICK i \in 1..Len(d[id].members) : p \in MemberParts(d, d[id].members[i], PartsOf(d)[n - 1])
      BY <2>2, <2>3, <2>5 DEF LevelOf
    <3>2. /\ p \in PartType /\ p.depth > 0
          /\ p.at < EndOf(d, d[id].members[i])
      BY <2>4, <3>1, PartInMember
    <3>3. EndOf(d, d[id].members[i]) <= d[id].extent
      BY InOrder
    <3>4. EndOf(d, d[id].members[i]) \in Nat /\ d[id].extent \in Nat /\ p.at \in Nat
      BY <3>2, MemberFacts DEF Sound, PartType
    <3> QED
      BY <3>2, <3>3, <3>4
  <2> QED
    BY <2>1, <2>5 DEF Inside
<1> QED
  BY <1>2

-----------------------------------------------------------------------------
(* One round of the loop.                                                  *)

\* What starts at an offset starts in the member the search finds.
LEMMA OnlyMember ==
  ASSUME Sound(db), NEW id \in DOMAIN db, NEW off \in Nat, NEW n \in 1..Cardinality(DOMAIN db)
  PROVE  LET m == db[id].members[MemberIndexAt(db[id].members, off)]
         IN  PartsAt(n, id, off) = {p \in MemberParts(db, m, PartsOf(db)[n - 1]) : p.at = off}
<1> DEFINE ms == db[id].members
           i == MemberIndexAt(ms, off)
           nested == PartsOf(db)[n - 1]
<1>1. n \in 0..Cardinality(DOMAIN db) /\ n - 1 \in 0..Cardinality(DOMAIN db) /\ n # 0 /\ IsFiniteSet(DOMAIN db)
  BY FS_CardinalityType DEF Sound
<1>2. PartsOf(db)[n][id] = UNION {MemberParts(db, ms[j], nested) : j \in 1..Len(ms)}
  <2>1. PartsOf(db)[n] = LevelOf(db, n, PartsOf(db))
    BY <1>1, PartsUnfold
  <2> QED
    BY <1>1, <2>1, Zenon DEF LevelOf
<1>3. /\ i \in 1..Len(ms) /\ ms[i].offset <= off
      /\ i = Len(ms) \/ off < ms[i + 1].offset
  BY MemberFound DEF Sound, WellFormed, SoundLayout
<1>4. Inside(db, nested)
  BY <1>1, PartsInside
<1> HIDE DEF i
<1>5. ASSUME NEW j \in 1..Len(ms), NEW p \in MemberParts(db, ms[j], nested), p.at = off
      PROVE  j = i
  <2>1. ms[j].offset <= off /\ off < EndOf(db, ms[j])
    BY <1>4, <1>5, PartInMember
  <2>2. \A k \in 1..Len(ms) : ms[k].offset \in Nat /\ EndOf(db, ms[k]) \in Nat /\ ms[k].offset <= EndOf(db, ms[k])
    BY MemberFacts
  <2>3. \A k, l \in 1..Len(ms) : k < l => EndOf(db, ms[k]) <= ms[l].offset
    BY InOrder
  <2>4. Len(ms) \in Nat
    BY DEF Sound
  <2> HIDE DEF ms
  <2>5. ~(j < i)
    BY <1>3, <2>1, <2>2, <2>3
  <2>6. ~(i < j)
    <3>1. SUFFICES ASSUME i < j PROVE FALSE
      OBVIOUS
    <3>2. i + 1 \in 1..Len(ms) /\ i # Len(ms)
      BY <1>3, <2>4, <3>1
    <3>3. CASE i + 1 = j
      BY <1>3, <2>1, <2>2, <3>2, <3>3
    <3>4. CASE i + 1 # j
      <4>1. EndOf(db, ms[i + 1]) <= ms[j].offset
        BY <1>3, <2>3, <3>1, <3>2, <3>4
      <4> QED
        BY <1>3, <2>1, <2>2, <3>2, <4>1
    <3> QED
      BY <3>3, <3>4
  <2> QED
    BY <1>3, <2>5, <2>6
<1>6. {p \in PartsOf(db)[n][id] : p.at = off} = {p \in MemberParts(db, ms[i], nested) : p.at = off}
  BY <1>2, <1>3, <1>5
<1> QED
  BY <1>6 DEF PartsAt, i

\* The part of a member at an offset is the element it is divided to, or a part
\* of that element at the rest.
LEMMA PartDivided ==
  ASSUME Sound(db), NEW id \in DOMAIN db, NEW i \in 1..Len(db[id].members),
         NEW nested, Inside(db, nested),
         NEW off \in Nat, db[id].members[i].offset <= off,
         NEW p \in MemberParts(db, db[id].members[i], nested), p.at = off
  PROVE  LET m == db[id].members[i]
             quot == (off - m.offset) \div SizeOf(db, m)
             rem == (off - m.offset) % SizeOf(db, m)
         IN  /\ quot \in 0..(m.count - 1)
             /\ \/ p = ElementPart(db, m, quot) /\ rem = 0
                \/ /\ m.type \in DOMAIN db
                   /\ \E q \in nested[m.type] :
                        q \in PartType /\ q.depth > 0 /\ q.at = rem /\ p = InnerPart(db, m, quot, q)
<1> DEFINE m == db[id].members[i]
           size == SizeOf(db, m)
           x == off - m.offset
           quot == x \div size
           rem == x % size
<1>1. m.offset \in Nat /\ m.type \in Nat /\ m.count \in Nat /\ size \in Nat /\ size > 0
  BY MemberFacts
<1>2. \E k \in 0..(m.count - 1) : p = ElementPart(db, m, k) \/ IsInner(db, m, nested, k, p)
  BY PartOfMember
<1>3. m.offset <= off
  OBVIOUS
<1> HIDE DEF m
<1>4. PICK k \in 0..(m.count - 1) : p = ElementPart(db, m, k) \/ IsInner(db, m, nested, k, p)
  BY <1>2
<1>5. k \in Nat /\ x \in Nat
  BY <1>1, <1>3
<1>6. /\ ElementPart(db, m, k).at = m.offset + k * size
      /\ \A q : InnerPart(db, m, k, q).at = q.at + (m.offset + k * size)
  BY PartFields DEF ElementPart, InnerPart
<1> HIDE DEF size
<1>7. k * size \in Nat
  BY <1>1, <1>5, Products
<1>8. CASE p = ElementPart(db, m, k)
  <2>1. off = m.offset + k * size
    BY <1>6, <1>8
  <2>2. 0 \in Nat /\ 0 < size /\ x = k * size + 0
    <3> DEFINE y == k * size
    <3> HIDE DEF y
    <3>1. y \in Nat /\ off = m.offset + y => off - m.offset = y + 0
      BY <1>1
    <3> QED
      BY <1>1, <1>7, <2>1, <3>1 DEF y
  <2> HIDE DEF x
  <2>3. k = quot /\ 0 = rem
    BY <1>1, <1>5, <2>2, OneQuotient
  <2> QED
    BY <1>8, <2>3 DEF m, size, x
<1>9. CASE IsInner(db, m, nested, k, p)
  <2>1. m.type \in DOMAIN db
    BY <1>9 DEF IsInner
  <2>2. PICK q \in nested[m.type] : q \in PartType /\ q.at < size /\ q.depth > 0 /\ p = InnerPart(db, m, k, q)
    BY <1>9 DEF IsInner, size
  <2>3. q.at \in Nat /\ off = q.at + (m.offset + k * size)
    BY <1>6, <2>2 DEF PartType
  <2>4. x = k * size + q.at
    <3> DEFINE y == k * size
    <3> HIDE DEF y
    <3>1. y \in Nat /\ off = q.at + (m.offset + y) => off - m.offset = y + q.at
      BY <1>1, <2>3
    <3> QED
      BY <1>7, <2>3, <3>1 DEF y
  <2> HIDE DEF x
  <2>5. k = quot /\ q.at = rem
    <3> DEFINE r == q.at
    <3>1. r \in Nat /\ r < size /\ x = k * size + r
      BY <2>2, <2>3, <2>4
    <3> HIDE DEF r
    <3>2. k = x \div size /\ r = x % size
      BY <1>1, <1>5, <3>1, OneQuotient
    <3> QED
      BY <3>2 DEF r
  <2> QED
    BY <2>1, <2>2, <2>5 DEF m, size, x
<1> QED
  BY <1>4, <1>8, <1>9

\* What a query ought to answer, given the parts that start at its address.
Outermost(hits, a) ==
  \/ hits = {} /\ a = Failed("BAD_ALIGNMENT")
  \/ \E p \in hits : /\ \A q \in hits : q = p \/ p.depth < q.depth
                     /\ a = Answer("OK", p.id, p.count, 0)

\* The parts that start at an offset in a member, from those in its type.
HitsFrom(m, nested, off) ==
  LET quot == (off - m.offset) \div SizeOf(db, m)
      rem == (off - m.offset) % SizeOf(db, m)
      hits == {p \in MemberParts(db, m, nested) : p.at = off}
  IN  /\ quot \in Nat /\ rem \in Nat
      /\ quot >= m.count \/ (rem # 0 /\ m.type \notin DOMAIN db) => hits = {}
      /\ quot < m.count /\ rem = 0 => Outermost(hits, Answer("OK", m.type, m.count - quot, 0))
      /\ quot < m.count /\ rem # 0 /\ m.type \in DOMAIN db =>
           \A b : Outermost({p \in nested[m.type] : p.at = rem}, b) => Outermost(hits, b)

LEMMA Rejoined ==
  ASSUME NEW a \in Nat, NEW o \in Nat, NEW y \in Nat, NEW r \in Nat, a - o = y + r
  PROVE  a = r + (o + y)
OBVIOUS

LEMMA MemberHits ==
  ASSUME Sound(db), NEW id \in DOMAIN db, NEW i \in 1..Len(db[id].members),
         NEW nested, Inside(db, nested),
         NEW off \in Nat, db[id].members[i].offset <= off
  PROVE  HitsFrom(db[id].members[i], nested, off)
<1> DEFINE m == db[id].members[i]
           size == SizeOf(db, m)
           x == off - m.offset
           quot == x \div size
           rem == x % size
           hits == {p \in MemberParts(db, m, nested) : p.at = off}
           below == {p \in nested[m.type] : p.at = rem}
<1>1. m.offset \in Nat /\ m.type \in Nat /\ m.count \in Nat /\ size \in Nat /\ size > 0
  BY MemberFacts
<1>2. m.type \in DOMAIN db => \A p \in nested[m.type] : p \in PartType /\ p.at < size /\ p.depth > 0
  BY MemberFacts DEF Inside
<1>3. \A p \in hits :
        /\ quot \in 0..(m.count - 1)
        /\ \/ p = ElementPart(db, m, quot) /\ rem = 0
           \/ /\ m.type \in DOMAIN db
              /\ \E q \in nested[m.type] :
                   q \in PartType /\ q.depth > 0 /\ q.at = rem /\ p = InnerPart(db, m, quot, q)
  BY PartDivided
<1>4. m.offset <= off
  OBVIOUS
<1> HIDE DEF m
<1>5. x \in Nat
  BY <1>1, <1>4
<1>6. quot \in Nat /\ rem \in Nat /\ x = quot * size + rem
  <2> HIDE DEF size, x
  <2> QED
    BY <1>1, <1>5
<1>7. quot * size \in Nat
  BY <1>1, <1>6, Products
<1>8. off = rem + (m.offset + quot * size)
  <2> DEFINE y == quot * size
  <2>1. y \in Nat /\ x = y + rem /\ rem \in Nat
    BY <1>6, <1>7
  <2> HIDE DEF y, rem, quot, hits, below, size
  <2>2. off - m.offset = y + rem
    BY <2>1
  <2> HIDE DEF x
  <2>3. off = rem + (m.offset + y)
    BY <1>1, <2>1, <2>2, Rejoined, Zenon
  <2> QED
    BY <2>3 DEF y
<1>9. /\ \A k \in 0..(m.count - 1) : ElementPart(db, m, k) \in MemberParts(db, m, nested)
      /\ m.type \in DOMAIN db => \A k \in 0..(m.count - 1), q \in nested[m.type] :
                                   InnerPart(db, m, k, q) \in MemberParts(db, m, nested)
  BY DEF MemberParts, ElementPart, InnerPart, SizeOf
<1>10. /\ \A k : ElementPart(db, m, k) = Part(m.offset + k * size, m.type, m.count - k, 1)
       /\ \A k, q : InnerPart(db, m, k, q) = Part(q.at + (m.offset + k * size), q.id, q.count, q.depth + 1)
  BY DEF ElementPart, InnerPart
<1> HIDE DEF size, x, quot, rem
<1>11. quot < m.count => quot \in 0..(m.count - 1)
  <2>1. quot \in Nat /\ m.count \in Nat
    BY <1>1, <1>6
  <2> QED
    BY <2>1
<1>12. quot >= m.count \/ (rem # 0 /\ m.type \notin DOMAIN db) => hits = {}
  <2> HIDE DEF hits
  <2>1. ASSUME NEW p \in hits PROVE quot < m.count /\ (rem = 0 \/ m.type \in DOMAIN db)
    <3>1. quot \in 0..(m.count - 1) /\ (rem = 0 \/ m.type \in DOMAIN db)
      BY <1>3
    <3> QED
      BY <1>1, <3>1
  <2> QED
    BY <1>1, <1>6, <2>1
<1>13. ASSUME quot < m.count, rem = 0
       PROVE  Outermost(hits, Answer("OK", m.type, m.count - quot, 0))
  <2> DEFINE p == ElementPart(db, m, quot)
  <2>1. p.at = m.offset + quot * size /\ p.id = m.type /\ p.count = m.count - quot /\ p.depth = 1
    BY <1>10, PartFields
  <2>2. m.offset + quot * size = off
    BY <1>1, <1>7, <1>8, <1>13
  <2>3. p \in hits
    BY <1>9, <1>11, <1>13, <2>1, <2>2
  <2>4. ASSUME NEW q \in hits PROVE q = p \/ p.depth < q.depth
    <3>1. CASE \E s \in nested[m.type] : s \in PartType /\ s.depth > 0 /\ q = InnerPart(db, m, quot, s)
      <4>1. PICK s \in PartType : s.depth > 0 /\ q = InnerPart(db, m, quot, s)
        BY <3>1
      <4>2. q.depth = s.depth + 1 /\ s.depth \in Nat
        BY <1>10, <4>1, PartFields DEF PartType
      <4> QED
        BY <2>1, <4>1, <4>2
    <3> QED
      BY <1>3, <3>1
  <2> HIDE DEF p, hits
  <2> QED
    BY <2>1, <2>3, <2>4 DEF Outermost
<1>14. ASSUME quot < m.count, rem # 0, m.type \in DOMAIN db, NEW b, Outermost(below, b)
       PROVE  Outermost(hits, b)
  <2>1. ASSUME NEW q \in hits
        PROVE  \E s \in below : s \in PartType /\ q = InnerPart(db, m, quot, s)
    BY <1>3, <1>14
  <2>2. ASSUME NEW s \in below
        PROVE  /\ InnerPart(db, m, quot, s) \in hits /\ s.depth \in Nat
               /\ InnerPart(db, m, quot, s).id = s.id /\ InnerPart(db, m, quot, s).count = s.count
               /\ InnerPart(db, m, quot, s).depth = s.depth + 1
    <3>1. s \in nested[m.type] /\ s.at = rem
      OBVIOUS
    <3>2. s \in PartType
      BY <1>2, <1>14, <3>1
    <3> DEFINE p == InnerPart(db, m, quot, s)
    <3>3. p.at = s.at + (m.offset + quot * size) /\ p.id = s.id /\ p.count = s.count /\ p.depth = s.depth + 1
      BY <1>10, PartFields
    <3>4. p \in MemberParts(db, m, nested)
      BY <1>9, <1>11, <1>14, <3>1
    <3>5. p.at = off
      BY <1>8, <3>1, <3>3
    <3> QED
      BY <3>2, <3>3, <3>4, <3>5 DEF PartType
  <2> HIDE DEF hits, below
  <2>3. CASE below = {} /\ b = Failed("BAD_ALIGNMENT")
    <3>1. hits = {}
      BY <2>1, <2>3
    <3> QED
      BY <2>3, <3>1 DEF Outermost
  <2>4. CASE ~(below = {} /\ b = Failed("BAD_ALIGNMENT"))
    <3>1. PICK s \in below : /\ \A r \in below : r = s \/ s.depth < r.depth
                             /\ b = Answer("OK", s.id, s.count, 0)
      BY <1>14, <2>4 DEF Outermost
    <3> DEFINE p == InnerPart(db, m, quot, s)
    <3>2. p \in hits /\ p.id = s.id /\ p.count = s.count /\ p.depth = s.depth + 1 /\ s.depth \in Nat
      BY <2>2
    <3>3. ASSUME NEW q \in hits PROVE q = p \/ p.depth < q.depth
      <4>1. PICK r \in below : q = InnerPart(db, m, quot, r)
        BY <2>1
      <4>2. q.depth = r.depth + 1 /\ r.depth \in Nat
        BY <2>2, <4>1
      <4>3. r = s \/ s.depth < r.depth
        BY <3>1
      <4> QED
        BY <3>2, <4>1, <4>2, <4>3
    <3> HIDE DEF p
    <3> QED
      BY <3>1, <3>2, <3>3 DEF Outermost
  <2> QED
    BY <2>3, <2>4
<1>15. HitsFrom(m, nested, off)
  BY <1>6, <1>12, <1>13, <1>14 DEF HitsFrom, size, x, quot, rem
<1> QED
  BY <1>15 DEF m

\* A round of the loop ends with the answer for what starts at the offset, or
\* goes on with the offset in a nested struct that has the same answer.
LEMMA RoundResolves ==
  ASSUME Sound(db), NEW id \in DOMAIN db, NEW off \in Nat, off < db[id].extent,
         NEW n \in 1..Cardinality(DOMAIN db), NEW a \in SubTypeAnswers(id, off)
  PROVE  \/ a.offset = 0 /\ Outermost(PartsAt(n, id, off), a)
         \/ /\ a.offset # 0 /\ a.offset \in Nat /\ a.id \in DOMAIN db
            /\ \E i \in 1..Len(db[id].members) : a.id = db[id].members[i].type
            /\ \A b : Outermost(PartsAt(n - 1, a.id, a.offset), b) => Outermost(PartsAt(n, id, off), b)
<1> DEFINE ms == db[id].members
           i == MemberIndexAt(ms, off)
           m == ms[i]
           nested == PartsOf(db)[n - 1]
           quot == (off - m.offset) \div SizeOf(db, m)
           rem == (off - m.offset) % SizeOf(db, m)
           hits == {p \in MemberParts(db, m, nested) : p.at = off}
<1>1. i \in 1..Len(ms) /\ m.offset <= off
  BY MemberFound DEF Sound, WellFormed, SoundLayout
<1>2. PartsAt(n, id, off) = hits
  BY OnlyMember
<1>3. Inside(db, nested)
  <2>1. n - 1 \in 0..Cardinality(DOMAIN db)
    BY FS_CardinalityType DEF Sound
  <2> QED
    BY <2>1, PartsInside
<1> HIDE DEF i
<1>4. /\ quot \in Nat /\ rem \in Nat
      /\ quot >= m.count \/ (rem # 0 /\ m.type \notin DOMAIN db) => hits = {}
      /\ quot < m.count /\ rem = 0 => Outermost(hits, Answer("OK", m.type, m.count - quot, 0))
      /\ quot < m.count /\ rem # 0 /\ m.type \in DOMAIN db =>
           \A b : Outermost({p \in nested[m.type] : p.at = rem}, b) => Outermost(hits, b)
  <2>1. HitsFrom(m, nested, off)
    BY <1>1, <1>3, MemberHits
  <2> HIDE DEF nested, m
  <2> QED
    BY <2>1 DEF HitsFrom
<1>5. /\ SizeOf(db, m) > 0 /\ m.count \in Nat /\ m.type \in Nat
      /\ m.type \notin DOMAIN db <=> isReservedType(m.type)
  BY <1>1, MemberFacts
<1>6. id \in Nat /\ db[id].extent \in Nat
  BY DEF Sound
<1>7. a = MemberAnswer(m, [quot |-> quot, rem |-> rem])
  <2>1. a \in {MemberAnswer(m, d) : d \in DivMod(off - m.offset, getTypeSize(m.type))}
    BY <1>6 DEF SubTypeAnswers, i
  <2>2. DivMod(off - m.offset, getTypeSize(m.type)) = {[quot |-> quot, rem |-> rem]}
    BY <1>5 DEF DivMod, getTypeSize, SizeOf
  <2> HIDE DEF m, quot, rem
  <2> QED
    BY <2>1, <2>2
<1> HIDE DEF m, quot, rem, hits
<1>8. a = IF (rem # 0 /\ isReservedType(m.type)) \/ quot >= m.count THEN Failed("BAD_ALIGNMENT")
          ELSE Answer("OK", m.type, m.count - quot, rem)
  <2>1. [quot |-> quot, rem |-> rem] # Trap
    BY DEF Trap
  <2> QED
    BY <1>7, <2>1 DEF MemberAnswer
<1>9. CASE (rem # 0 /\ isReservedType(m.type)) \/ quot >= m.count
  <2>1. hits = {} /\ a = Failed("BAD_ALIGNMENT")
    BY <1>4, <1>5, <1>8, <1>9
  <2>2. a.offset = 0
    BY <2>1 DEF Failed, Answer
  <2> QED
    BY <1>2, <2>1, <2>2 DEF Outermost
<1>10. CASE ~((rem # 0 /\ isReservedType(m.type)) \/ quot >= m.count)
  <2>1. a = Answer("OK", m.type, m.count - quot, rem) /\ quot < m.count
    BY <1>4, <1>5, <1>8, <1>10
  <2>2. a.id = m.type /\ a.offset = rem
    BY <2>1 DEF Answer
  <2>3. CASE rem = 0
    BY <1>2, <1>4, <2>1, <2>2, <2>3
  <2>4. CASE rem # 0
    <3>1. m.type \in DOMAIN db
      BY <1>5, <1>10, <2>4
    <3>2. \E j \in 1..Len(ms) : a.id = ms[j].type
      BY <1>1, <2>2 DEF m
    <3>3. PartsAt(n - 1, a.id, a.offset) = {p \in nested[m.type] : p.at = rem}
      BY <2>2 DEF PartsAt
    <3> QED
      BY <1>2, <1>4, <2>1, <2>2, <2>4, <3>1, <3>2, <3>3
  <2> QED
    BY <2>3, <2>4
<1> QED
  BY <1>9, <1>10

-----------------------------------------------------------------------------
(* The answers of typeart_get_type.                                        *)

\* A struct's place in the order of registration.
IsPlace(d, place) ==
  /\ place \in [DOMAIN d -> 1..Cardinality(DOMAIN d)]
  /\ \A id \in DOMAIN d : \A i \in 1..Len(d[id].members) :
       LET type == d[id].members[i].type
       IN  type \in DOMAIN d => place[type] < place[id]

Place(d) == CHOOSE place : IsPlace(d, place)

LEMMA PlaceFacts ==
  ASSUME NEW d, LaidOut(d)
  PROVE  IsPlace(d, Place(d))
<1>1. \E place : IsPlace(d, place)
  BY DEF LaidOut, IsPlace
<1> QED
  BY <1>1, Zenon DEF Place

\* What starts at an offset in a struct, n levels down, decides the query.
Decides(n, id, off) == \A b : Outermost(PartsAt(n, id, off), b) => b = Expected

\* The loop is in a struct, deep enough to see what is nested in it, whose parts
\* at the offset are those of the queried element at the queried address.
FoundInv ==
  /\ pc = "loop" /\ query.op = "get_type" =>
       \E n \in 1..Cardinality(DOMAIN db) : Place(db)[layout] <= n /\ Decides(n, layout, offset)
  /\ ResolvesOutermost

\* The database and the question stay what they are while it is answered.
LEMMA SameQuestion ==
  ASSUME db' = db, query' = query
  PROVE  Expected' = Expected
  BY DEF Expected, InBounds, Element, Hits, PartsAt, getTypeSize

LEMMA LoopGoesOn ==
  ASSUME db' = db, query' = query, pc' = "loop", NEW n \in 1..Cardinality(DOMAIN db), NEW id, NEW off,
         layout' = id, offset' = off, Place(db)[id] <= n, Decides(n, id, off)
  PROVE  FoundInv'
<1>1. Expected' = Expected
  BY SameQuestion
<1>2. PartsAt(n, layout, offset)' = PartsAt(n, id, off)
  BY DEF PartsAt
<1>3. Decides(n, layout, offset)'
  BY <1>1, <1>2 DEF Decides
<1>4. (Place(db)[layout] <= n)'
  OBVIOUS
<1>5. n \in (1..Cardinality(DOMAIN db))'
  OBVIOUS
<1> QED
  BY <1>3, <1>4, <1>5 DEF FoundInv, ResolvesOutermost

\* The element's parts at the address decide the query.
LEMMA ElementDecides ==
  ASSUME Sound(db), query.id \in DOMAIN db, InBounds, Element.rem # 0
  PROVE  Decides(Cardinality(DOMAIN db), query.id, Element.rem)
<1> DEFINE N == Cardinality(DOMAIN db)
           first == CHOOSE p \in Hits : \A q \in Hits : p.depth <= q.depth
<1>1. Hits = PartsAt(N, query.id, Element.rem)
  BY DEF Hits
<1>2. \A p \in Hits : p.depth \in Nat
  <2>1. N \in 0..N
    BY FS_CardinalityType DEF Sound
  <2>2. Inside(db, PartsOf(db)[N])
    BY <2>1, PartsInside
  <2> QED
    BY <1>1, <2>2 DEF Inside, PartsAt, PartType
<1>3. Expected = IF Hits = {} THEN Failed("BAD_ALIGNMENT") ELSE Answer("OK", first.id, first.count, 0)
  BY DEF Expected
<1>4. ASSUME NEW b, Outermost(Hits, b) PROVE b = Expected
  <2>1. CASE Hits = {}
    BY <1>3, <1>4, <2>1 DEF Outermost
  <2>2. CASE Hits # {}
    <3>1. PICK p \in Hits : /\ \A q \in Hits : q = p \/ p.depth < q.depth
                            /\ b = Answer("OK", p.id, p.count, 0)
      BY <1>4, <2>2 DEF Outermost
    <3>2. \A q \in Hits : p.depth <= q.depth
      BY <1>2, <3>1
    <3>3. first \in Hits /\ \A q \in Hits : first.depth <= q.depth
      BY <3>2
    <3> HIDE DEF first
    <3>4. first = p
      BY <1>2, <3>1, <3>3
    <3> QED
      BY <1>3, <2>2, <3>1, <3>4
  <2> QED
    BY <2>1, <2>2
<1> QED
  BY <1>1, <1>4 DEF Decides

\* Every step keeps the invariant.
LEMMA FoundNext ==
  ASSUME KnownTypesOnly, LaidOutOnly, StepInv, FoundInv, [Next]_vars
  PROVE  FoundInv'
<1>1. Sound(db) /\ db \in Databases /\ IsPlace(db, Place(db))
  BY DatabasesAssumption, PlaceFacts DEF StepInv, KnownTypesOnly, LaidOutOnly, Sound, LaidOut
<1>2. ASSUME query' = query, db' = db,
             pc' = "done" /\ query.op = "get_type" => result' = Expected, pc' # "loop"
      PROVE  FoundInv'
  BY <1>2, SameQuestion DEF FoundInv, ResolvesOutermost
<1>3. ASSUME NEW a, Answered(a), query.op = "get_type" => a = Expected PROVE FoundInv'
  BY <1>2, <1>3 DEF Answered
<1>4. CASE AskAddress \/ AskSubType
  <2>1. pc' \in {"containing", "subtype"}
    BY <1>4 DEF AskAddress, AskSubType, Ask
  <2> QED
    BY <2>1 DEF FoundInv, ResolvesOutermost
<1>5. ASSUME pc = "containing"
      PROVE  /\ getTypeSize(query.id) \in Nat /\ getTypeSize(query.id) > 0
             /\ query.at \in Nat /\ query.count \in Nat
  BY <1>1, <1>5, AllocSize DEF StepInv
<1>6. CASE OutOfBounds
  <2> DEFINE size == getTypeSize(query.id)
  <2>1. pc = "containing" /\ query.at # 0 /\ query.at >= query.count * size
    BY <1>6 DEF OutOfBounds
  <2>2. size \in Nat /\ size > 0 /\ query.at \in Nat /\ query.count \in Nat
    BY <1>5, <2>1
  <2>3. PICK d \in DivMod(query.at, size) : Answered(Failed(IF d = Trap THEN "trap" ELSE "UNKNOWN_ADDRESS"))
    BY <1>6 DEF OutOfBounds
  <2>4. d # Trap
    BY <2>2 DEF DivMod, Trap
  <2>5. ~InBounds
    <3> DEFINE y == query.count * size
    <3>1. y \in Nat
      BY <2>2, Products
    <3>2. InBounds <=> query.at = 0 \/ query.at < y
      BY DEF InBounds
    <3> HIDE DEF y
    <3>3. query.at >= y
      BY <2>1 DEF y
    <3> QED
      BY <2>1, <2>2, <3>1, <3>2, <3>3
  <2>6. Expected = Failed("UNKNOWN_ADDRESS")
    BY <2>5 DEF Expected
  <2> QED
    BY <1>3, <2>3, <2>4, <2>6
<1>7. CASE Containing
  <2>1. /\ Answered(Answer("OK", query.id, query.count - Element.quot, Element.rem))
        /\ InBounds /\ (query.op = "get_containing_type" \/ Element.rem = 0)
    BY <1>7 DEF Containing
  <2>2. query.op = "get_type" => Expected = Answer("OK", query.id, query.count - Element.quot, Element.rem)
    BY <2>1 DEF Expected
  <2> QED
    BY <1>3, <2>1, <2>2
<1>8. CASE InsideElement
  <2>1. pc = "containing" /\ InBounds /\ Element.rem # 0
    BY <1>8 DEF InsideElement
  <2>2. CASE query.id \notin DOMAIN db
    <3>1. Answered(Failed(IF isBuiltinType(query.id) THEN "BAD_ALIGNMENT" ELSE "INVALID_ID"))
      BY <1>8, <2>2 DEF InsideElement
    <3>2. isBuiltinType(query.id)
      BY <1>5, <2>1, <2>2 DEF getTypeSize, TypeSizeIn
    <3>3. Expected = Failed("BAD_ALIGNMENT")
      BY <2>1, <2>2 DEF Expected, Hits
    <3> QED
      BY <1>3, <3>1, <3>2, <3>3
  <2>3. CASE query.id \in DOMAIN db
    <3> DEFINE N == Cardinality(DOMAIN db)
    <3>1. layout' = query.id /\ offset' = Element.rem /\ pc' = "loop" /\ UNCHANGED <<db, query>>
      BY <1>8, <2>3 DEF InsideElement
    <3>2. Decides(N, query.id, Element.rem)
      BY <1>1, <2>1, <2>3, ElementDecides
    <3>3. Place(db)[query.id] \in 1..N /\ N \in Nat
      BY <1>1, <2>3, FS_CardinalityType DEF IsPlace, Sound
    <3>4. N \in 1..N /\ Place(db)[query.id] <= N
      BY <3>3
    <3> QED
      BY <3>1, <3>2, <3>4, LoopGoesOn
  <2> QED
    BY <2>2, <2>3
<1>9. ASSUME pc = "loop", query.op = "get_type", NEW a \in RoundAnswers
      PROVE  \E n \in 1..Cardinality(DOMAIN db) :
               \/ a.offset = 0 /\ a = Expected
               \/ a.offset # 0 /\ Place(db)[a.id] <= n /\ Decides(n, a.id, a.offset)
  <2>1. PICK n \in 1..Cardinality(DOMAIN db) : Place(db)[layout] <= n /\ Decides(n, layout, offset)
    BY <1>9 DEF FoundInv
  <2>2. layout \in DOMAIN db /\ offset \in Nat /\ offset < db[layout].extent
    BY <1>9 DEF StepInv
  <2>3. PICK b \in SubTypeAnswers(layout, offset) :
          a = IF b.status = "OK" /\ b.offset # 0 /\ getStructInfo(b.id) # "OK"
              THEN Failed(getStructInfo(b.id)) ELSE b
    BY <1>9 DEF RoundAnswers
  <2>4. \/ b.offset = 0 /\ Outermost(PartsAt(n, layout, offset), b)
        \/ /\ b.offset # 0 /\ b.offset \in Nat /\ b.id \in DOMAIN db
           /\ \E i \in 1..Len(db[layout].members) : b.id = db[layout].members[i].type
           /\ \A c : Outermost(PartsAt(n - 1, b.id, b.offset), c) => Outermost(PartsAt(n, layout, offset), c)
    BY <1>1, <2>2, <2>3, RoundResolves
  <2>5. \A id \in DOMAIN db : getStructInfo(id) = "OK"
    BY <1>1 DEF getStructInfo, Sound
  <2>6. a = b
    BY <2>3, <2>4, <2>5
  <2>7. CASE b.offset = 0
    BY <2>1, <2>4, <2>6, <2>7 DEF Decides
  <2>8. CASE b.offset # 0
    <3>1. Place(db)[b.id] < Place(db)[layout]
      BY <1>1, <2>2, <2>4, <2>8 DEF IsPlace
    <3>2. Place(db)[b.id] \in 1..Cardinality(DOMAIN db) /\ Place(db)[layout] \in 1..Cardinality(DOMAIN db)
      BY <1>1, <2>2, <2>4, <2>8 DEF IsPlace
    <3>3. Cardinality(DOMAIN db) \in Nat
      BY <1>1, FS_CardinalityType DEF Sound
    <3>4. n - 1 \in 1..Cardinality(DOMAIN db) /\ Place(db)[b.id] <= n - 1
      BY <2>1, <3>1, <3>2, <3>3
    <3>5. Decides(n - 1, b.id, b.offset)
      BY <2>1, <2>4, <2>8 DEF Decides
    <3> QED
      BY <2>6, <2>8, <3>4, <3>5
  <2> QED
    BY <2>7, <2>8
<1>10. CASE Resolved
  <2>1. PICK a \in RoundAnswers : a.offset = 0 /\ Answered(a)
    BY <1>10 DEF Resolved
  <2>2. query.op = "get_type" => a = Expected
    BY <1>9, <1>10, <2>1 DEF Resolved
  <2> QED
    BY <1>3, <2>1, <2>2
<1>11. CASE Descend
  <2>1. PICK a \in RoundAnswers : a.offset # 0 /\ layout' = a.id /\ offset' = a.offset
    BY <1>11 DEF Descend
  <2>2. UNCHANGED <<db, query, pc>> /\ pc = "loop"
    BY <1>11 DEF Descend
  <2>3. CASE query.op = "get_type"
    <3>1. PICK n \in 1..Cardinality(DOMAIN db) : Place(db)[a.id] <= n /\ Decides(n, a.id, a.offset)
      BY <1>9, <2>1, <2>2, <2>3
    <3> QED
      BY <2>1, <2>2, <3>1, LoopGoesOn
  <2>4. CASE query.op # "get_type"
    BY <2>2, <2>4 DEF FoundInv, ResolvesOutermost
  <2> QED
    BY <2>3, <2>4
<1>12. CASE GetSubType
  <2>1. PICK a : Answered(a)
    BY <1>12 DEF GetSubType
  <2>2. query.op # "get_type"
    BY <1>12 DEF GetSubType, StepInv
  <2> QED
    BY <1>3, <2>1, <2>2
<1>13. CASE ResolveLayout
  <2>1. query.op # "get_type" /\ query' = query /\ pc' = "done"
    BY <1>13 DEF ResolveLayout, StepInv
  <2> QED
    BY <2>1 DEF FoundInv, ResolvesOutermost
<1>14. CASE Return
  BY <1>14 DEF Return, FoundInv, ResolvesOutermost
<1>15. CASE UNCHANGED vars
  <2>1. UNCHANGED <<db, query, pc, layout, offset, result>>
    BY <1>15 DEF vars
  <2>2. CASE pc = "loop" /\ query.op = "get_type"
    <3>1. PICK n \in 1..Cardinality(DOMAIN db) : Place(db)[layout] <= n /\ Decides(n, layout, offset)
      BY <2>2 DEF FoundInv
    <3>2. PICK id, off : id = layout /\ off = offset
      OBVIOUS
    <3> QED
      BY <2>1, <2>2, <3>1, <3>2, LoopGoesOn
  <2>3. CASE pc = "loop" /\ query.op # "get_type"
    BY <2>1, <2>3 DEF FoundInv, ResolvesOutermost
  <2>4. CASE pc # "loop"
    BY <1>2, <2>1, <2>4 DEF FoundInv, ResolvesOutermost
  <2> QED
    BY <2>2, <2>3, <2>4
<1> QED
  BY <1>4, <1>6, <1>7, <1>8, <1>10, <1>11, <1>12, <1>13, <1>14, <1>15
  DEF Next, Resolve, Terminated

-----------------------------------------------------------------------------
(* The theorems.                                                           *)

\* What each step of a query relies on holds whenever the step is taken.
THEOREM StepInvariant ==
  ASSUME KnownTypesOnly
  PROVE  Spec => []StepInv
<1>1. Init => StepInv
  BY DEF Init, StepInv, DocumentedStatus
<1> QED
  BY <1>1, StepNext, PTL DEF Spec

\* With known types a query returns a status code documented for it: the
\* divisions by type sizes are defined, and typeart_get_type never passes on a
\* BAD_OFFSET or WRONG_KIND of the functions it is built from.
THEOREM StatusDocumented ==
  ASSUME KnownTypesOnly
  PROVE  Spec => []DocumentedStatus
<1>1. StepInv => DocumentedStatus
  BY DEF StepInv
<1> QED
  BY <1>1, StepInvariant, PTL

\* The assertion at the start of getTypeInfoInternal holds in every round of its
\* loop, for every layout and every nesting.
THEOREM OffsetStaysInStruct ==
  ASSUME KnownTypesOnly
  PROVE  Spec => []OffsetInStruct
<1>1. StepInv => OffsetInStruct
  BY DEF StepInv, OffsetInStruct
<1> QED
  BY <1>1, StepInvariant, PTL

\* A query changes nothing but its own variables and stays within their types;
\* the loop is only ever in a registered struct.
THEOREM QueriesTypeCorrect ==
  ASSUME KnownTypesOnly
  PROVE  Spec => []TypeOK
<1>1. Init => TypeInv
  BY QueriesAssumption
  DEF Init, TypeInv, StepInv, DocumentedStatus, TypeOK, MissingCounted, NoQuery, Query,
      Failed, Answer, Statuses
<1>2. TypeInv => TypeOK
  BY DEF TypeInv
<1> QED
  BY <1>1, <1>2, TypeNext, PTL DEF Spec

\* In a database whose structs are laid out like LLVM's and come after those they
\* contain, typeart_get_type answers with the outermost type that starts at the
\* address, and with the elements left from there on.
THEOREM OutermostFound ==
  ASSUME KnownTypesOnly, LaidOutOnly
  PROVE  Spec => []ResolvesOutermost
<1>1. Init => FoundInv
  BY DEF Init, FoundInv, ResolvesOutermost
<1>2. FoundInv => ResolvesOutermost
  BY DEF FoundInv
<1>3. Spec => []StepInv
  BY StepInvariant
<1>4. StepInv /\ FoundInv /\ [Next]_vars => FoundInv'
  BY FoundNext
<1> QED
  BY <1>1, <1>2, <1>3, <1>4, PTL DEF Spec
=============================================================================
