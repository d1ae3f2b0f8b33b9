------------------------ MODULE TypeGenerationProofs ------------------------
(***************************************************************************)
(* Proofs about the type file: for any number of compilers, any types and  *)
(* any translation units, the ids of a build without torn reads lead to    *)
(* the type they were given for.                                           *)
(***************************************************************************)
EXTENDS TypeGeneration, FiniteSetTheorems, SequenceTheorems, WellFoundedInduction, TLAPS

AllNames == {Desc[t].name : t \in Types} \cup UNION {{u.names[t] : t \in DOMAIN u.names} : u \in Units}
Namings  == {u.names : u \in Units} \cup {<<>>}

Infos == [id : Nat, name : AllNames, extent : Nat, members : Seq(Members), flag : {"user", "vector"}]
Maps  == UNION {[N -> Nat] : N \in SUBSET AllNames}
Frames == [type : Types, id : Nat, ids : Seq(Nat)]
Codes  == [type : Types, id : Nat, names : Namings]

Process ==
  [pc : {"idle", "run", "write", "done", "crashed"}, unit : Seq(Types), names : Namings,
   db : Seq(Infos), map : Maps, count : Nat, frames : Seq(Frames), code : SUBSET Codes]

MemberCount(f) == Len(Desc[f.type].members)

\* The process compiles the unit u: every open activation is one of a struct that
\* u needs, and those that wait for a nested one have a member left.
InContext(s, u) ==
  /\ s.names = u.names
  /\ \A i \in 1..Len(s.unit) : s.unit[i] \in Needed(u)
  /\ \A i \in 1..Len(s.frames) :
       LET f == s.frames[i] IN
       /\ f.type \in Needed(u) /\ Desc[f.type].kind = "struct"
       /\ Len(f.ids) <= MemberCount(f)
       /\ i < Len(s.frames) => Len(f.ids) < MemberCount(f)
  /\ s.frames # <<>> => s.unit # <<>>

\* No two infos of a list have an id or a name in common.
Distinct(list) ==
  \A i, j \in 1..Len(list) : i # j => list[i].id # list[j].id /\ list[i].name # list[j].name

\* Ids below count that are handed out.
IdsTo(count) == NumReservedIds..(NumReservedIds + count - 1)

FileOK(list) == Distinct(list) /\ \A i \in 1..Len(list) : list[i].id \in IdsTo(Len(list))

\* x is met while t is registered.
Meets(s, t, x) ==
  \E m \in MemberTypes(t) :
    /\ Desc[m].kind = "vector" \/ Name(s, m) # Name(s, t)
    /\ x \in Parts(m)

\* structMap and structCount agree with the database; the ids and names of the
\* open activations are not taken, and one is open inside of the other.
Sound(s) ==
  /\ Distinct(s.db)
  /\ DOMAIN s.map = NamesIn(s.db)
  /\ \A i \in 1..Len(s.db) : s.map[s.db[i].name] = s.db[i].id
  /\ s.count = Len(s.db) + Len(s.frames)
  /\ \A i \in 1..Len(s.db) : s.db[i].id \in IdsTo(s.count)
  /\ \A i \in 1..Len(s.frames) :
       /\ s.frames[i].id \in IdsTo(s.count) \ Ids(s.db)
       /\ Name(s, s.frames[i].type) \notin NamesIn(s.db)
       /\ \A j \in 1..(i - 1) :
            s.frames[j].id # s.frames[i].id /\ Meets(s, s.frames[j].type, s.frames[i].type)

-----------------------------------------------------------------------------
(* Types and their parts.                                                  *)

\* The parts of a type are closed under members.
LEMMA InsideClosed ==
  ASSUME NEW t \in Types
  PROVE  /\ Inside[t] \subseteq Composite
         /\ MemberTypes(t) \subseteq Inside[t]
         /\ \A x \in Inside[t] : MemberTypes(x) \subseteq Inside[t]
<1> DEFINE closed == {S \in SUBSET Composite :
                        MemberTypes(t) \subseteq S /\ \A x \in S : MemberTypes(x) \subseteq S}
<1>1. Inside[t] = {x \in Composite : \A S \in closed : x \in S}
  BY DEF Inside
<1>2. \A x \in Types : MemberTypes(x) \subseteq Composite
  BY DEF MemberTypes
<1>3. ASSUME NEW x \in Inside[t] PROVE MemberTypes(x) \subseteq Inside[t]
  <2>1. x \in Types
    BY <1>1 DEF Composite
  <2>2. ASSUME NEW m \in MemberTypes(x), NEW S \in closed PROVE m \in S
    BY <1>1
  <2> HIDE DEF closed
  <2> QED
    BY <1>1, <1>2, <2>1, <2>2
<1>4. ASSUME NEW m \in MemberTypes(t), NEW S \in closed PROVE m \in S
  OBVIOUS
<1> HIDE DEF closed
<1> QED
  BY <1>1, <1>2, <1>3, <1>4

\* The parts of a part are parts.
LEMMA PartsOfPart ==
  ASSUME NEW t \in Types, NEW x \in Parts(t)
  PROVE  /\ x \in Types /\ Parts(x) \subseteq Parts(t)
         /\ MemberTypes(x) \subseteq Parts(t)
<1>1. x \in Types
  BY InsideClosed DEF Parts, Composite
<1>2. MemberTypes(x) \subseteq Inside[t]
  BY InsideClosed DEF Parts
<1>3. Inside[x] \subseteq Inside[t]
  <2>1. Inside[t] \in {S \in SUBSET Composite :
                         MemberTypes(x) \subseteq S /\ \A y \in S : MemberTypes(y) \subseteq S}
    BY <1>2, InsideClosed
  <2> QED
    BY <1>1, <2>1 DEF Inside
<1> QED
  BY <1>1, <1>2, <1>3 DEF Parts

\* A unit needs the parts of what it needs, and has names for them.
LEMMA NeededParts ==
  ASSUME NEW u \in Units, NEW t \in Needed(u)
  PROVE  t \in Types /\ MemberTypes(t) \subseteq Needed(u) /\ Name(u, t) \in AllNames
<1>1. PICK i \in DOMAIN u.types : t \in Parts(u.types[i])
  BY DEF Needed
<1>2. u.types[i] \in Types
  BY <1>1, TypesAssumption
<1>3. t \in Types /\ MemberTypes(t) \subseteq Parts(u.types[i])
  BY <1>1, <1>2, PartsOfPart
<1>4. Name(u, t) \in AllNames
  <2>1. CASE t \in Literals
    <3>1. t \in DOMAIN u.names
      BY <2>1, ContextAssumption
    <3> QED
      BY <2>1, <3>1 DEF Name, AllNames
  <2>2. CASE t \notin Literals
    BY <1>3, <2>2 DEF Name, AllNames
  <2> QED
    BY <2>1, <2>2
<1> QED
  BY <1>1, <1>3, <1>4 DEF Needed

\* What is met while a struct is registered does not have its name.
LEMMA OtherName ==
  ASSUME NEW u \in Units, NEW s, s.names = u.names, NEW t \in Needed(u), NEW x, Meets(s, t, x)
  PROVE  Name(s, x) # Name(s, t)
<1>1. \A y : Name(s, y) = Name(u, y)
  BY DEF Name
<1> QED
  BY <1>1, ContextAssumption DEF Meets

\* Struct members are met, and so is what is met on the way.
LEMMA MeetsMember ==
  ASSUME NEW u \in Units, NEW s, NEW t \in Needed(u), NEW m \in MemberTypes(t)
  PROVE  /\ Desc[m].kind = "vector" \/ Name(s, m) # Name(s, t) => Meets(s, t, m)
         /\ \A r \in Needed(u) : Meets(s, r, t) => Meets(s, r, m)
<1>1. m \in Parts(m)
  BY DEF Parts
<1>2. ASSUME NEW r \in Needed(u), Meets(s, r, t) PROVE Meets(s, r, m)
  <2>1. PICK n \in MemberTypes(r) :
          (Desc[n].kind = "vector" \/ Name(s, n) # Name(s, r)) /\ t \in Parts(n)
    BY <1>2 DEF Meets
  <2>2. n \in Types
    BY <2>1 DEF MemberTypes, Composite
  <2>3. m \in Parts(n)
    BY <2>1, <2>2, PartsOfPart
  <2> QED
    BY <2>1, <2>3 DEF Meets
<1> QED
  BY <1>1, <1>2 DEF Meets

-----------------------------------------------------------------------------
(* Lists of infos.                                                         *)

LEMMA SeqFacts ==
  ASSUME NEW S, NEW q \in Seq(S)
  PROVE  Len(q) \in Nat /\ DOMAIN q = 1..Len(q) /\ \A i \in 1..Len(q) : q[i] \in S
  OBVIOUS

\* An info is found by its id and by its name.
LEMMA InfoFound ==
  ASSUME NEW list \in Seq(Infos), Distinct(list), NEW i \in 1..Len(list)
  PROVE  /\ list[i].id \in Ids(list) /\ list[i].name \in NamesIn(list)
         /\ InfoOf(list, list[i].id) = list[i]
         /\ StructMapOf(list)[list[i].name] = list[i].id
<1>1. DOMAIN list = 1..Len(list) /\ Len(list) \in Nat
  OBVIOUS
<1>2. list[i].id \in Ids(list) /\ list[i].name \in NamesIn(list)
  BY <1>1 DEF Ids, NamesIn
<1>3. InfoOf(list, list[i].id) = list[i]
  <2>1. \A j \in DOMAIN list : list[j].id = list[i].id <=> j = i
    BY <1>1 DEF Distinct
  <2>2. (CHOOSE j \in DOMAIN list : list[j].id = list[i].id) = i
    BY <1>1, <2>1
  <2> QED
    BY <2>2 DEF InfoOf
<1>4. StructMapOf(list)[list[i].name] = list[i].id
  <2> DEFINE P(j) == list[j].name = list[i].name /\ \A k \in 1..(j - 1) : list[k].name # list[i].name
  <2>1. \A j \in DOMAIN list : P(j) <=> j = i
    BY <1>1 DEF Distinct
  <2>2. (CHOOSE j \in DOMAIN list : P(j)) = i
    <3> HIDE DEF P
    <3> QED
      BY <1>1, <2>1
  <2> QED
    BY <1>2, <2>2 DEF StructMapOf
<1> QED
  BY <1>2, <1>3, <1>4

\* There are as many names as infos.
LEMMA CountNames ==
  ASSUME NEW list \in Seq(Infos), Distinct(list)
  PROVE  Cardinality(NamesIn(list)) = Len(list)
<1> DEFINE f == [i \in 1..Len(list) |-> list[i].name]
<1>1. DOMAIN list = 1..Len(list) /\ Len(list) \in Nat
  OBVIOUS
<1>2. f \in Bijection(1..Len(list), NamesIn(list))
  <2>1. f \in [1..Len(list) -> NamesIn(list)] /\ \A n \in NamesIn(list) : \E i \in 1..Len(list) : f[i] = n
    BY <1>1 DEF NamesIn
  <2>2. \A i, j \in 1..Len(list) : f[i] = f[j] => i = j
    BY <1>1 DEF Distinct
  <2> HIDE DEF f
  <2> QED
    BY <2>1, <2>2 DEF Bijection, Injection, Surjection, IsInjective
<1>3. IsFiniteSet(1..Len(list)) /\ Cardinality(1..Len(list)) = Len(list)
  BY <1>1, FS_Interval
<1> QED
  BY <1>2, <1>3, FS_Bijection DEF ExistsBijection

\* A new info is appended.
LEMMA InfoAppended ==
  ASSUME NEW list \in Seq(Infos), NEW info \in Infos, isStructType(info.id), info.id \notin Ids(list)
  PROVE  LET l == registerStruct(list, info) IN
         /\ l \in Seq(Infos) /\ Len(l) = Len(list) + 1
         /\ \A i \in 1..Len(list) : l[i] = list[i]
         /\ l[Len(list) + 1] = info
         /\ Ids(l) = Ids(list) \cup {info.id}
         /\ NamesIn(l) = NamesIn(list) \cup {info.name}
         /\ Distinct(list) /\ info.name \notin NamesIn(list) => Distinct(l)
<1> DEFINE l == Append(list, info)
<1>1. info.id \in Nat /\ Len(BuiltinSizes) = 11
  BY DEF Infos, BuiltinSizes
<1>2. registerStruct(list, info) = l
  BY <1>1 DEF registerStruct, isValid, isBuiltinType, isStructType, NumReservedIds
<1>3. /\ l \in Seq(Infos) /\ Len(l) = Len(list) + 1 /\ Len(list) \in Nat
      /\ \A i \in 1..Len(list) : l[i] = list[i]
      /\ l[Len(list) + 1] = info
      /\ DOMAIN l = 1..(Len(list) + 1) /\ DOMAIN list = 1..Len(list)
  BY AppendProperties
<1> HIDE DEF l
<1>4. Ids(l) = Ids(list) \cup {info.id} /\ NamesIn(l) = NamesIn(list) \cup {info.name}
  <2>1. \A i \in DOMAIN l : i \in DOMAIN list \/ i = Len(list) + 1
    BY <1>3
  <2>2. \A i \in DOMAIN list : i \in DOMAIN l
    BY <1>3
  <2>3. Len(list) + 1 \in DOMAIN l
    BY <1>3
  <2> QED
    BY <1>3, <2>1, <2>2, <2>3 DEF Ids, NamesIn
<1>5. ASSUME Distinct(list), info.name \notin NamesIn(list) PROVE Distinct(l)
  <2>1. \A i \in 1..Len(list) : list[i].id # info.id /\ list[i].name # info.name
    BY <1>3, <1>5 DEF Ids, NamesIn
  <2> QED
    BY <1>3, <1>5, <2>1 DEF Distinct
<1> QED
  BY <1>2, <1>3, <1>4, <1>5

-----------------------------------------------------------------------------
(* What the steps of a registration do to a process.                       *)

\* Soundness speaks of the database and of the types and ids of activations.
LEMMA SoundSame ==
  ASSUME NEW s, NEW r, Sound(s), Len(s.frames) \in Nat,
         r.names = s.names, r.db = s.db, r.map = s.map, r.count = s.count,
         Len(r.frames) = Len(s.frames),
         \A i \in 1..Len(s.frames) :
           r.frames[i].type = s.frames[i].type /\ r.frames[i].id = s.frames[i].id
  PROVE  Sound(r)
<1>1. \A t : Name(r, t) = Name(s, t)
  BY DEF Name
<1>2. \A t, x : Meets(r, t, x) <=> Meets(s, t, x)
  BY <1>1 DEF Meets
<1>3. ASSUME NEW i \in 1..Len(s.frames)
      PROVE  /\ r.frames[i].id \in IdsTo(r.count) \ Ids(r.db)
             /\ Name(r, r.frames[i].type) \notin NamesIn(r.db)
             /\ \A j \in 1..(i - 1) :
                  r.frames[j].id # r.frames[i].id /\ Meets(r, r.frames[j].type, r.frames[i].type)
  <2>1. \A j \in 1..(i - 1) : j \in 1..Len(s.frames)
    OBVIOUS
  <2>2. /\ s.frames[i].id \in IdsTo(s.count) \ Ids(s.db)
        /\ Name(s, s.frames[i].type) \notin NamesIn(s.db)
        /\ \A j \in 1..(i - 1) :
             s.frames[j].id # s.frames[i].id /\ Meets(s, s.frames[j].type, s.frames[i].type)
    BY Zenon DEF Sound
  <2>3. /\ r.frames[i].id \in IdsTo(r.count) \ Ids(r.db)
        /\ Name(r, r.frames[i].type) \notin NamesIn(r.db)
    BY <1>1, <2>2
  <2>4. ASSUME NEW j \in 1..(i - 1)
        PROVE  r.frames[j].id # r.frames[i].id /\ Meets(r, r.frames[j].type, r.frames[i].type)
    BY <1>2, <2>1, <2>2
  <2> QED
    BY <2>3, <2>4
<1> QED
  BY <1>3 DEF Sound

\* The fields of a process.
LEMMA ProcessFields ==
  ASSUME NEW s \in Process
  PROVE  /\ s.pc \in {"idle", "run", "write", "done", "crashed"}
         /\ s.unit \in Seq(Types) /\ s.names \in Namings
         /\ s.db \in Seq(Infos) /\ s.map \in Maps /\ s.count \in Nat
         /\ s.frames \in Seq(Frames) /\ s.code \in SUBSET Codes
  BY DEF Process

\* A returned id keeps everything in place.
LEMMA AnswerKeeps ==
  ASSUME NEW u \in Units, NEW s \in Process, InContext(s, u), NEW id \in Nat,
         s.frames = <<>> => s.unit # <<>>,
         s.frames # <<>> => Len(Innermost(s).ids) < MemberCount(Innermost(s))
  PROVE  LET r == Answer(s, id) IN
         /\ r \in Process /\ InContext(r, u) /\ r.pc = s.pc
         /\ r.names = s.names /\ r.db = s.db /\ r.map = s.map /\ r.count = s.count
         /\ Len(r.frames) = Len(s.frames)
         /\ \A i \in 1..Len(s.frames) :
              r.frames[i].type = s.frames[i].type /\ r.frames[i].id = s.frames[i].id
         /\ Sound(s) => Sound(r)
<1> DEFINE r == Answer(s, id)
           d == Len(s.frames)
           f == s.frames[d]
           f2 == [f EXCEPT !.ids = Append(f.ids, id)]
           fs == [s.frames EXCEPT ![d] = f2]
<1>1. /\ s.frames \in Seq(Frames) /\ d \in Nat /\ s.unit \in Seq(Types)
      /\ s.names \in Namings /\ s.code \in SUBSET Codes
  BY ProcessFields
<1>2. CASE s.frames # <<>>
  <2>1. d \in 1..d /\ d > 0 /\ f \in Frames /\ Innermost(s) = f
    BY <1>1, <1>2 DEF Innermost
  <2>2. /\ f.ids \in Seq(Nat) /\ f2 \in Frames /\ f2.type = f.type /\ f2.id = f.id
        /\ Len(f2.ids) = Len(f.ids) + 1 /\ Len(f.ids) \in Nat
    <3>1. f.ids \in Seq(Nat)
      BY <2>1 DEF Frames
    <3>2. Append(f.ids, id) \in Seq(Nat) /\ Len(Append(f.ids, id)) = Len(f.ids) + 1 /\ Len(f.ids) \in Nat
      BY <3>1
    <3> HIDE DEF f
    <3> QED
      BY <2>1, <3>1, <3>2 DEF Frames
  <2>3. fs \in Seq(Frames) /\ Len(fs) = d /\ fs[d] = f2 /\ \A i \in 1..d : i # d => fs[i] = s.frames[i]
    <3> HIDE DEF f2
    <3> QED
      BY <1>1, <2>1, <2>2
  <2>4. r = [s EXCEPT !.frames = fs]
    BY <2>1, Zenon DEF Answer
  <2>5. /\ r \in Process /\ r.frames = fs /\ r.pc = s.pc /\ r.unit = s.unit
        /\ r.names = s.names /\ r.db = s.db /\ r.map = s.map /\ r.count = s.count
    <3> HIDE DEF fs, r
    <3> QED
      BY <2>3, <2>4 DEF Process
  <2>6. \A i \in 1..d : fs[i].type = s.frames[i].type /\ fs[i].id = s.frames[i].id
    <3> HIDE DEF fs, f2
    <3> QED
      BY <2>2, <2>3
  <2>7. InContext(r, u)
    <3> HIDE DEF r, fs, f2
    <3>1. ASSUME NEW i \in 1..d
          PROVE  /\ fs[i].type \in Needed(u) /\ Desc[fs[i].type].kind = "struct"
                 /\ Len(fs[i].ids) <= MemberCount(fs[i])
                 /\ i < d => Len(fs[i].ids) < MemberCount(fs[i])
      <4>1. CASE i = d
        <5>1. Len(f.ids) < MemberCount(f) /\ MemberCount(f2) = MemberCount(f)
          BY <1>2, <2>1, <2>2 DEF MemberCount
        <5>2. f.type \in Needed(u) /\ Desc[f.type].kind = "struct"
          BY <2>1 DEF InContext
        <5>3. MemberCount(f) \in Nat
          BY <5>2, NeededParts, TypesAssumption DEF MemberCount
        <5>4. Len(f2.ids) <= MemberCount(f2)
          <6> HIDE DEF f
          <6> QED
            BY <2>2, <5>1, <5>3
        <5> QED
          BY <4>1, <2>2, <2>3, <5>2, <5>4
      <4>2. CASE i # d
        BY <4>2, <2>3 DEF InContext
      <4> QED
        BY <4>1, <4>2
    <3> QED
      BY <1>2, <2>3, <2>5, <3>1 DEF InContext
  <2>8. Sound(s) => Sound(r)
    <3> HIDE DEF r, fs
    <3> QED
      BY <1>1, <2>3, <2>5, <2>6, SoundSame
  <2> HIDE DEF fs
  <2> QED
    BY <2>3, <2>5, <2>6, <2>7, <2>8
<1>3. CASE s.frames = <<>>
  <2> DEFINE new == {[type |-> Head(s.unit), id |-> id, names |-> s.names] : k \in {id} \ {UnknownType}}
             code == s.code \cup new
  <2>1. r = [s EXCEPT !.unit = Tail(s.unit), !.code = code]
    BY <1>3 DEF Answer
  <2>2. /\ Tail(s.unit) \in Seq(Types) /\ Len(Tail(s.unit)) = Len(s.unit) - 1 /\ Head(s.unit) \in Types
        /\ \A i \in 1..Len(Tail(s.unit)) : Tail(s.unit)[i] = s.unit[i + 1]
    BY <1>1, <1>3, HeadTailProperties
  <2>3. new \in SUBSET Codes
    BY <1>1, <2>2 DEF Codes
  <2>4. /\ r \in Process /\ r.frames = s.frames /\ r.pc = s.pc /\ r.unit = Tail(s.unit)
        /\ r.names = s.names /\ r.db = s.db /\ r.map = s.map /\ r.count = s.count
    <3>1. code \in SUBSET Codes
      BY <1>1, <2>3
    <3> HIDE DEF code, r
    <3> QED
      BY <2>1, <2>2, <3>1 DEF Process
  <2>5. InContext(r, u)
    <3>1. Len(s.unit) \in Nat /\ \A i \in 1..(Len(s.unit) - 1) : i + 1 \in 1..Len(s.unit)
      BY <1>1
    <3> HIDE DEF r
    <3> QED
      BY <1>3, <2>2, <2>4, <3>1 DEF InContext
  <2>6. Sound(s) => Sound(r)
    <3> HIDE DEF r
    <3> QED
      BY <1>1, <2>4, SoundSame
  <2> QED
    BY <2>4, <2>5, <2>6
<1> QED
  BY <1>2, <1>3

\* Registering an info changes the database and the map.
LEMMA RegisteredKeeps ==
  ASSUME NEW s \in Process, NEW info \in Infos
  PROVE  LET r == Registered(s, info) IN
         /\ r \in Process /\ r.db = registerStruct(s.db, info)
         /\ r.pc = s.pc /\ r.unit = s.unit /\ r.names = s.names /\ r.count = s.count
         /\ r.frames = s.frames /\ r.code = s.code
         /\ \A u : InContext(s, u) => InContext(r, u)
<1> DEFINE r == Registered(s, info)
           db == registerStruct(s.db, info)
           map == IF info.name \in DOMAIN s.map THEN s.map
                  ELSE [n \in DOMAIN s.map \cup {info.name} |->
                          IF n = info.name THEN info.id ELSE s.map[n]]
<1>1. r = [s EXCEPT !.db = db, !.map = map]
  BY DEF Registered
<1>2. db \in Seq(Infos)
  BY ProcessFields DEF registerStruct
<1>3. map \in Maps
  <2>1. PICK N \in SUBSET AllNames : s.map \in [N -> Nat]
    BY ProcessFields DEF Maps
  <2>2. info.name \in AllNames /\ info.id \in Nat
    BY DEF Infos
  <2>3. map \in [N -> Nat] \/ map \in [N \cup {info.name} -> Nat]
    BY <2>1, <2>2
  <2> HIDE DEF map
  <2> QED
    BY <2>1, <2>2, <2>3 DEF Maps
<1>4. /\ r \in Process /\ r.db = db /\ r.map = map
      /\ r.pc = s.pc /\ r.unit = s.unit /\ r.names = s.names /\ r.count = s.count
      /\ r.frames = s.frames /\ r.code = s.code
  <2> HIDE DEF r, db, map
  <2> QED
    BY <1>1, <1>2, <1>3 DEF Process
<1>5. \A u : InContext(s, u) => InContext(r, u)
  <2> HIDE DEF r
  <2> QED
    BY <1>4 DEF InContext
<1> QED
  BY <1>4, <1>5

\* A type may be asked for: a composite one is needed by the unit, and it is a
\* part that the open activations meet.
Asked(s, u, t) ==
  /\ t \in Types
  /\ t \in Composite =>
       /\ t \in Needed(u)
       /\ Sound(s) => \A i \in 1..Len(s.frames) : Meets(s, s.frames[i].type, t)

\* The innermost activation, or the unit, waits for an answer.
Awaits(s) ==
  /\ s.frames = <<>> => s.unit # <<>>
  /\ s.frames # <<>> => Len(Innermost(s).ids) < MemberCount(Innermost(s))

LEMMA BuiltinIdTyped == \A t : get_builtin_typeid(t) \in Nat
  BY DEF get_builtin_typeid, BuiltinIds, UnknownType

\* What a lookup returns; a type without an answer has a name that is not taken.
LEMMA KnownIDTyped ==
  ASSUME NEW s \in Process, NEW t \in Types
  PROVE  /\ KnownID(s, t) \in Nat \cup {NoId}
         /\ KnownID(s, t) = NoId =>
              /\ t \in Composite /\ Name(s, t) \notin DOMAIN s.map
              /\ Desc[t].kind = "vector" => get_builtin_typeid(Desc[t].elem) # UnknownType
<1>1. \A n \in DOMAIN s.map : s.map[n] \in Nat
  BY ProcessFields DEF Maps
<1>2. UnknownType \in Nat /\ NoId \notin Nat
  BY DEF UnknownType, NoId
<1>3. CASE Desc[t].kind = "struct"
  <2>1. KnownID(s, t) = StructID(s, t) /\ t \in Composite
    BY <1>3 DEF KnownID, Composite
  <2> QED
    BY <1>1, <1>2, <1>3, <2>1 DEF StructID
<1>4. CASE Desc[t].kind = "vector"
  <2>1. KnownID(s, t) = VectorID(s, t) /\ t \in Composite /\ Name(s, t) = Desc[t].name
    BY <1>4 DEF KnownID, Composite, Name, Literals
  <2> QED
    BY <1>1, <1>2, <2>1 DEF VectorID
<1>5. CASE Desc[t].kind = "builtin"
  BY <1>2, <1>5, BuiltinIdTyped DEF KnownID
<1>6. CASE Desc[t].kind = "other"
  BY <1>2, <1>6 DEF KnownID
<1> QED
  BY <1>3, <1>4, <1>5, <1>6, TypesAssumption

\* The description of a vector.
LEMMA VectorInfoTyped ==
  ASSUME NEW s, NEW t \in Types, Desc[t].kind = "vector", NEW id \in Nat
  PROVE  /\ VectorInfo(s, t, id) \in Infos
         /\ VectorInfo(s, t, id).id = id /\ VectorInfo(s, t, id).name = Name(s, t)
<1> DEFINE v == Desc[t]
           used == v.count * Desc[v.elem].size
           elems == [offset |-> 0, type |-> get_builtin_typeid(v.elem), count |-> v.count]
           padding == [offset |-> used, type |-> 0, count |-> v.bytes - used]
           ms == IF v.bytes > used THEN <<elems, padding>> ELSE <<elems>>
<1>1. v.count \in Nat /\ v.bytes \in Nat /\ Desc[v.elem].size \in Nat
  BY TypesAssumption
<1>2. used \in Nat
  BY <1>1
<1> HIDE DEF used
<1>3. elems \in Members
  BY <1>1, BuiltinIdTyped DEF Members
<1>4. v.bytes > used => padding \in Members
  BY <1>1, <1>2 DEF Members
<1>5. ms \in Seq(Members)
  BY <1>3, <1>4
<1>6. VectorInfo(s, t, id) = Info(id, v.name, v.bytes, ms, "vector")
  BY DEF VectorInfo, used
<1>7. v.name \in AllNames /\ Name(s, t) = v.name
  BY DEF AllNames, Name, Literals
<1> HIDE DEF ms
<1> QED
  BY <1>1, <1>5, <1>6, <1>7 DEF Info, Infos

\* A new name with a new id keeps map and database in agreement.
LEMMA RegisteredSound ==
  ASSUME NEW s \in Process, NEW info \in Infos,
         isStructType(info.id), info.id \notin Ids(s.db), info.name \notin NamesIn(s.db),
         Distinct(s.db), DOMAIN s.map = NamesIn(s.db),
         \A i \in 1..Len(s.db) : s.map[s.db[i].name] = s.db[i].id
  PROVE  LET r == Registered(s, info) IN
         /\ Distinct(r.db) /\ DOMAIN r.map = NamesIn(r.db)
         /\ \A i \in 1..Len(r.db) : r.map[r.db[i].name] = r.db[i].id
         /\ Len(r.db) = Len(s.db) + 1 /\ r.db[Len(s.db) + 1] = info
         /\ \A i \in 1..Len(s.db) : r.db[i] = s.db[i]
         /\ Ids(r.db) = Ids(s.db) \cup {info.id} /\ NamesIn(r.db) = NamesIn(s.db) \cup {info.name}
<1> DEFINE r == Registered(s, info)
<1>1. s.db \in Seq(Infos) /\ Len(s.db) \in Nat /\ \A i \in 1..Len(s.db) : s.db[i].name \in NamesIn(s.db)
  BY ProcessFields DEF NamesIn
<1>2. /\ Distinct(r.db) /\ Len(r.db) = Len(s.db) + 1 /\ r.db[Len(s.db) + 1] = info
      /\ \A i \in 1..Len(s.db) : r.db[i] = s.db[i]
      /\ Ids(r.db) = Ids(s.db) \cup {info.id} /\ NamesIn(r.db) = NamesIn(s.db) \cup {info.name}
  <2> DEFINE l == registerStruct(s.db, info)
  <2>1. r.db = l
    BY RegisteredKeeps
  <2>2. /\ Distinct(l) /\ Len(l) = Len(s.db) + 1 /\ l[Len(s.db) + 1] = info
        /\ \A i \in 1..Len(s.db) : l[i] = s.db[i]
        /\ Ids(l) = Ids(s.db) \cup {info.id} /\ NamesIn(l) = NamesIn(s.db) \cup {info.name}
    BY <1>1, InfoAppended
  <2> HIDE DEF l, r
  <2> QED
    BY <2>1, <2>2
<1>3. r.map = [n \in DOMAIN s.map \cup {info.name} |-> IF n = info.name THEN info.id ELSE s.map[n]]
  BY DEF Registered, Process
<1>4. DOMAIN r.map = NamesIn(r.db)
  <2> HIDE DEF r
  <2> QED
    BY <1>2, <1>3
<1>5. ASSUME NEW i \in 1..Len(r.db) PROVE r.map[r.db[i].name] = r.db[i].id
  <2>1. CASE i = Len(s.db) + 1
    BY <1>2, <1>3, <2>1
  <2>2. CASE i # Len(s.db) + 1
    <3>1. i \in 1..Len(s.db)
      BY <1>1, <1>2, <2>2
    <3>2. r.db[i] = s.db[i] /\ s.db[i].name \in NamesIn(s.db) /\ s.db[i].name # info.name
      BY <1>1, <1>2, <3>1
    <3> HIDE DEF r
    <3> QED
      BY <1>3, <3>1, <3>2
  <2> QED
    BY <2>1, <2>2
<1> QED
  BY <1>2, <1>4, <1>5

LEMMA NextId ==
  ASSUME NEW s \in Process
  PROVE  LET next == reserveNextId(s) IN
         /\ next.id = NumReservedIds + s.count /\ next.id \in Nat /\ isStructType(next.id)
         /\ next.id \in IdsTo(s.count + 1) /\ next.id \notin IdsTo(s.count)
         /\ IdsTo(s.count) \subseteq IdsTo(s.count + 1)
         /\ next.s \in Process /\ next.s.count = s.count + 1
         /\ next.s.pc = s.pc /\ next.s.unit = s.unit /\ next.s.names = s.names
         /\ next.s.db = s.db /\ next.s.map = s.map /\ next.s.frames = s.frames /\ next.s.code = s.code
         /\ \A u : InContext(s, u) => InContext(next.s, u)
<1> DEFINE r == [s EXCEPT !.count = s.count + 1]
<1>1. reserveNextId(s) = [id |-> NumReservedIds + s.count, s |-> r] /\ s.count \in Nat
  BY ProcessFields DEF reserveNextId
<1>2. /\ r \in Process /\ r.count = s.count + 1
      /\ r.pc = s.pc /\ r.unit = s.unit /\ r.names = s.names
      /\ r.db = s.db /\ r.map = s.map /\ r.frames = s.frames /\ r.code = s.code
  <2> DEFINE c == s.count + 1
  <2>1. c \in Nat /\ r = [s EXCEPT !.count = c]
    BY <1>1
  <2> HIDE DEF c, r
  <2>2. /\ r \in Process /\ r.count = c
        /\ r.pc = s.pc /\ r.unit = s.unit /\ r.names = s.names
        /\ r.db = s.db /\ r.map = s.map /\ r.frames = s.frames /\ r.code = s.code
    BY <2>1 DEF Process
  <2> QED
    BY <2>2 DEF c
<1>3. \A u : InContext(s, u) => InContext(r, u)
  <2> HIDE DEF r
  <2> QED
    BY <1>2 DEF InContext
<1>4. LET id == NumReservedIds + s.count IN
      /\ id \in Nat /\ isStructType(id)
      /\ id \in IdsTo(s.count + 1) /\ id \notin IdsTo(s.count)
      /\ IdsTo(s.count) \subseteq IdsTo(s.count + 1)
  BY <1>1 DEF NumReservedIds, isStructType, IdsTo
<1> HIDE DEF r
<1> QED
  BY <1>1, <1>2, <1>3, <1>4

\* An activation is opened for a struct that is not known.
LEMMA OpenKeeps ==
  ASSUME NEW u \in Units, NEW s \in Process, InContext(s, u), Awaits(s), NEW t, Asked(s, u, t),
         Desc[t].kind = "struct", Name(s, t) \notin DOMAIN s.map
  PROVE  LET next == reserveNextId(s)
             r == [next.s EXCEPT !.frames = Append(s.frames, [type |-> t, id |-> next.id, ids |-> <<>>])]
         IN  /\ r \in Process /\ InContext(r, u) /\ r.pc = s.pc /\ r.names = s.names
             /\ r.db = s.db /\ r.unit = s.unit /\ r.code = s.code
             /\ r.frames = Append(s.frames, [type |-> t, id |-> next.id, ids |-> <<>>])
             /\ Sound(s) => Sound(r)
<1> DEFINE next == reserveNextId(s)
           f == [type |-> t, id |-> next.id, ids |-> <<>>]
           fs == Append(s.frames, f)
           r == [next.s EXCEPT !.frames = fs]
           d == Len(s.frames)
<1>1. /\ t \in Types /\ t \in Composite /\ t \in Needed(u)
      /\ Sound(s) => \A i \in 1..d : Meets(s, s.frames[i].type, t)
  BY DEF Asked, Composite
<1>2. /\ next.id \in Nat /\ next.id \in IdsTo(s.count + 1) /\ next.id \notin IdsTo(s.count)
      /\ IdsTo(s.count) \subseteq IdsTo(s.count + 1)
      /\ next.s \in Process /\ next.s.count = s.count + 1
      /\ next.s.pc = s.pc /\ next.s.unit = s.unit /\ next.s.names = s.names
      /\ next.s.db = s.db /\ next.s.map = s.map /\ next.s.code = s.code
  BY NextId
<1> HIDE DEF next
<1>3. f \in Frames /\ f.type = t /\ f.id = next.id /\ f.ids = <<>>
  BY <1>1, <1>2 DEF Frames
<1>4. s.frames \in Seq(Frames) /\ d \in Nat
  BY ProcessFields
<1> HIDE DEF f
<1>5. /\ fs \in Seq(Frames) /\ Len(fs) = d + 1 /\ fs[d + 1] = f
      /\ \A i \in 1..d : fs[i] = s.frames[i]
      /\ \A i \in 1..(d + 1) : i \in 1..d \/ i = d + 1
  BY <1>3, <1>4
<1> HIDE DEF fs
<1>6. /\ r \in Process /\ r.frames = fs /\ r.count = s.count + 1
      /\ r.pc = s.pc /\ r.unit = s.unit /\ r.names = s.names
      /\ r.db = s.db /\ r.map = s.map /\ r.code = s.code
  BY <1>2, <1>5 DEF Process
<1> HIDE DEF r
<1>7. InContext(r, u)
  <2>1. ASSUME NEW i \in 1..(d + 1)
        PROVE  /\ fs[i].type \in Needed(u) /\ Desc[fs[i].type].kind = "struct"
               /\ Len(fs[i].ids) <= MemberCount(fs[i])
               /\ i < d + 1 => Len(fs[i].ids) < MemberCount(fs[i])
    <3>1. CASE i = d + 1
      <4>1. MemberCount(f) \in Nat /\ Len(f.ids) = 0
        BY <1>1, <1>3, TypesAssumption DEF MemberCount
      <4> QED
        BY <1>1, <1>3, <1>4, <1>5, <3>1, <4>1
    <3>2. CASE i \in 1..d
      <4>1. fs[i] = s.frames[i]
        BY <1>5, <3>2
      <4>2. i = d => Len(fs[i].ids) < MemberCount(fs[i])
        BY <1>4, <3>2, <4>1 DEF Awaits, Innermost
      <4>3. d # i /\ i <= d => i < d
        BY <1>4, <3>2
      <4> QED
        BY <3>2, <4>1, <4>2, <4>3 DEF InContext
    <3> QED
      BY <1>5, <3>1, <3>2
  <2>2. s.unit # <<>>
    BY DEF Awaits, InContext
  <2> QED
    BY <1>4, <1>5, <1>6, <2>1, <2>2 DEF InContext
<1>8. ASSUME Sound(s) PROVE Sound(r)
  <2>1. /\ \A x : Name(r, x) = Name(s, x)
        /\ \A x, y : Meets(r, x, y) <=> Meets(s, x, y)
    BY <1>6 DEF Name, Meets
  <2>2. Name(s, t) \notin NamesIn(s.db)
    BY <1>8 DEF Sound
  <2>3. next.id \notin Ids(s.db)
    <3>1. DOMAIN s.db = 1..Len(s.db)
      BY ProcessFields
    <3>2. \A i \in 1..Len(s.db) : s.db[i].id \in IdsTo(s.count)
      BY <1>8 DEF Sound
    <3> QED
      BY <1>2, <3>1, <3>2 DEF Ids
  <2>4. ASSUME NEW i \in 1..(d + 1)
        PROVE  /\ fs[i].id \in IdsTo(s.count + 1) \ Ids(s.db)
               /\ Name(r, fs[i].type) \notin NamesIn(s.db)
               /\ \A j \in 1..(i - 1) : fs[j].id # fs[i].id /\ Meets(r, fs[j].type, fs[i].type)
    <3>1. CASE i = d + 1
      <4>1. i - 1 = d
        BY <1>4, <3>1
      <4>2. \A j \in 1..d : fs[j].id # next.id /\ Meets(r, fs[j].type, t)
        BY <1>1, <1>2, <1>5, <1>8, <2>1 DEF Sound
      <4> QED
        BY <1>2, <1>3, <1>5, <2>1, <2>2, <2>3, <3>1, <4>1, <4>2
    <3>2. CASE i \in 1..d
      <4>1. \A j \in 1..(i - 1) : j \in 1..d
        BY <1>4, <3>2
      <4>2. /\ fs[i] = s.frames[i] /\ \A j \in 1..(i - 1) : fs[j] = s.frames[j]
        BY <1>5, <3>2, <4>1
      <4>3. /\ s.frames[i].id \in IdsTo(s.count) \ Ids(s.db)
            /\ Name(s, s.frames[i].type) \notin NamesIn(s.db)
            /\ \A j \in 1..(i - 1) :
                 s.frames[j].id # s.frames[i].id /\ Meets(s, s.frames[j].type, s.frames[i].type)
        BY <1>8, <3>2 DEF Sound
      <4> QED
        BY <1>2, <2>1, <4>2, <4>3
    <3> QED
      BY <1>5, <3>1, <3>2
  <2>5. r.count = Len(s.db) + (d + 1)
    <3> DEFINE n == Len(s.db)
    <3>1. n \in Nat
      BY ProcessFields
    <3>2. s.count = n + d
      BY <1>8 DEF Sound
    <3>3. r.count = s.count + 1 /\ d \in Nat
      BY <1>4, <1>6
    <3> HIDE DEF d, n
    <3>4. r.count = n + (d + 1)
      BY <3>1, <3>2, <3>3
    <3> QED
      BY <3>4 DEF d, n
  <2>6. \A i \in 1..Len(s.db) : s.db[i].id \in IdsTo(s.count + 1)
    BY <1>2, <1>8 DEF Sound
  <2> QED
    BY <1>5, <1>6, <1>8, <2>4, <2>5, <2>6 DEF Sound
<1> QED
  BY <1>6, <1>7, <1>8 DEF r, fs, f, next

\* A new description in the place of an id and a name that are no activation's.
LEMMA DescribedSound ==
  ASSUME NEW s \in Process, NEW info \in Infos, NEW q \in Process, Sound(s),
         NEW k \in Nat, k <= Len(s.frames),
         q.names = s.names, q.db = s.db, q.map = s.map, q.count = Len(s.db) + 1 + k,
         Len(q.frames) = k, \A i \in 1..k : q.frames[i] = s.frames[i],
         IdsTo(s.count) \subseteq IdsTo(q.count), info.id \in IdsTo(q.count) \ Ids(s.db),
         isStructType(info.id), info.name \notin NamesIn(s.db),
         \A i \in 1..k : s.frames[i].id # info.id /\ Name(s, s.frames[i].type) # info.name
  PROVE  Sound(Registered(q, info))
<1> DEFINE r == Registered(q, info)
           n == Len(s.db)
<1>1. /\ Distinct(s.db) /\ DOMAIN s.map = NamesIn(s.db)
      /\ \A i \in 1..n : s.map[s.db[i].name] = s.db[i].id
      /\ \A i \in 1..n : s.db[i].id \in IdsTo(s.count)
  BY DEF Sound
<1>2. /\ Distinct(r.db) /\ DOMAIN r.map = NamesIn(r.db)
      /\ \A i \in 1..Len(r.db) : r.map[r.db[i].name] = r.db[i].id
      /\ Len(r.db) = n + 1 /\ r.db[n + 1] = info
      /\ \A i \in 1..n : r.db[i] = s.db[i]
      /\ Ids(r.db) = Ids(s.db) \cup {info.id} /\ NamesIn(r.db) = NamesIn(s.db) \cup {info.name}
  <2>1. /\ Distinct(q.db) /\ DOMAIN q.map = NamesIn(q.db)
        /\ \A i \in 1..Len(q.db) : q.map[q.db[i].name] = q.db[i].id
        /\ info.id \notin Ids(q.db) /\ info.name \notin NamesIn(q.db)
    BY <1>1
  <2>2. /\ Distinct(r.db) /\ DOMAIN r.map = NamesIn(r.db)
        /\ \A i \in 1..Len(r.db) : r.map[r.db[i].name] = r.db[i].id
        /\ Len(r.db) = Len(q.db) + 1 /\ r.db[Len(q.db) + 1] = info
        /\ \A i \in 1..Len(q.db) : r.db[i] = q.db[i]
        /\ Ids(r.db) = Ids(q.db) \cup {info.id} /\ NamesIn(r.db) = NamesIn(q.db) \cup {info.name}
    BY <2>1, RegisteredSound
  <2> HIDE DEF r
  <2> QED
    BY <2>2
<1>3. r.names = s.names /\ r.count = q.count /\ r.frames = q.frames
  BY RegisteredKeeps
<1> HIDE DEF r
<1>4. n \in Nat /\ Len(s.frames) \in Nat
  BY ProcessFields
<1> HIDE DEF n
<1>5. /\ \A x : Name(r, x) = Name(s, x)
      /\ \A x, y : Meets(r, x, y) <=> Meets(s, x, y)
  BY <1>3 DEF Name, Meets
<1>6. ASSUME NEW i \in 1..(n + 1) PROVE r.db[i].id \in IdsTo(r.count)
  <2>1. i \in 1..n \/ i = n + 1
    BY <1>4
  <2> QED
    BY <1>1, <1>2, <1>3, <2>1
<1>7. ASSUME NEW i \in 1..k
      PROVE  /\ r.frames[i].id \in IdsTo(r.count) \ Ids(r.db)
             /\ Name(r, r.frames[i].type) \notin NamesIn(r.db)
             /\ \A j \in 1..(i - 1) :
                  r.frames[j].id # r.frames[i].id /\ Meets(r, r.frames[j].type, r.frames[i].type)
  <2>1. i \in 1..Len(s.frames) /\ \A j \in 1..(i - 1) : j \in 1..k
    BY <1>4
  <2>2. /\ s.frames[i].id \in IdsTo(s.count) \ Ids(s.db)
        /\ Name(s, s.frames[i].type) \notin NamesIn(s.db)
        /\ \A j \in 1..(i - 1) :
             s.frames[j].id # s.frames[i].id /\ Meets(s, s.frames[j].type, s.frames[i].type)
    BY <2>1 DEF Sound
  <2>3. r.frames[i] = s.frames[i] /\ \A j \in 1..(i - 1) : r.frames[j] = s.frames[j]
    BY <1>3, <2>1
  <2>4. s.frames[i].id # info.id /\ Name(s, s.frames[i].type) # info.name
    OBVIOUS
  <2> QED
    BY <1>2, <1>3, <1>5, <2>2, <2>3, <2>4
<1>8. r.count = Len(r.db) + Len(r.frames)
  BY <1>2, <1>3, <1>4 DEF n
<1>9. /\ \A i \in 1..Len(r.db) : r.db[i].id \in IdsTo(r.count)
      /\ Len(r.frames) = k
  BY <1>2, <1>3, <1>6
<1>10. Sound(r)
  BY <1>2, <1>7, <1>8, <1>9 DEF Sound
<1> QED
  BY <1>10 DEF r

\* A vector is registered.
LEMMA VectorKeeps ==
  ASSUME NEW u \in Units, NEW s \in Process, InContext(s, u), NEW t, Asked(s, u, t),
         Desc[t].kind = "vector", Name(s, t) \notin DOMAIN s.map
  PROVE  LET next == reserveNextId(s)
             r == Registered(next.s, VectorInfo(s, t, next.id))
         IN  /\ r \in Process /\ InContext(r, u) /\ next.id \in Nat
             /\ r.pc = s.pc /\ r.unit = s.unit /\ r.frames = s.frames
             /\ Sound(s) => Sound(r)
<1> DEFINE next == reserveNextId(s)
           q == next.s
           info == VectorInfo(s, t, next.id)
           r == Registered(q, info)
           d == Len(s.frames)
<1>1. /\ t \in Types /\ t \in Composite /\ t \in Needed(u)
      /\ Sound(s) => \A i \in 1..d : Meets(s, s.frames[i].type, t)
  BY DEF Asked, Composite
<1>2. /\ next.id \in Nat /\ isStructType(next.id)
      /\ next.id \in IdsTo(s.count + 1) /\ next.id \notin IdsTo(s.count)
      /\ IdsTo(s.count) \subseteq IdsTo(s.count + 1)
      /\ q \in Process /\ q.count = s.count + 1
      /\ q.pc = s.pc /\ q.unit = s.unit /\ q.names = s.names
      /\ q.db = s.db /\ q.map = s.map /\ q.frames = s.frames
      /\ InContext(q, u)
  BY NextId
<1>3. info \in Infos /\ info.id = next.id /\ info.name = Name(s, t)
  BY <1>1, <1>2, VectorInfoTyped
<1> HIDE DEF next, q, info
<1>4. /\ r \in Process /\ InContext(r, u)
      /\ r.pc = s.pc /\ r.unit = s.unit /\ r.frames = s.frames
  BY <1>2, <1>3, RegisteredKeeps
<1>5. ASSUME Sound(s) PROVE Sound(r)
  <2>1. /\ DOMAIN s.map = NamesIn(s.db) /\ s.count = Len(s.db) + d
        /\ \A i \in 1..Len(s.db) : s.db[i].id \in IdsTo(s.count)
        /\ \A i \in 1..d : s.frames[i].id \in IdsTo(s.count)
    BY <1>5 DEF Sound
  <2>2. d \in Nat /\ DOMAIN s.db = 1..Len(s.db) /\ Len(s.db) \in Nat
    BY ProcessFields
  <2>3. info.id \in IdsTo(q.count) \ Ids(s.db)
    BY <1>2, <1>3, <2>1, <2>2 DEF Ids
  <2>4. info.name \notin NamesIn(s.db)
    BY <1>3, <2>1
  <2>5. ASSUME NEW i \in 1..d
        PROVE  s.frames[i].id # info.id /\ Name(s, s.frames[i].type) # info.name
    <3>1. s.frames[i].type \in Needed(u) /\ s.names = u.names
      BY DEF InContext
    <3>2. Name(s, s.frames[i].type) # Name(s, t)
      BY <1>1, <1>5, <3>1, OtherName
    <3> QED
      BY <1>2, <1>3, <2>1, <3>2
  <2>6. q.count = Len(s.db) + 1 + d
    <3> DEFINE n == Len(s.db)
    <3>1. s.count = n + d /\ n \in Nat
      BY <2>1, <2>2
    <3> HIDE DEF n, d
    <3>2. q.count = n + 1 + d
      BY <1>2, <2>2, <3>1
    <3> QED
      BY <3>2 DEF n
  <2>7. d <= Len(s.frames) /\ Len(q.frames) = d /\ \A i \in 1..d : q.frames[i] = s.frames[i]
    BY <1>2, <2>2
  <2>8. IdsTo(s.count) \subseteq IdsTo(q.count) /\ isStructType(info.id)
    BY <1>2, <1>3
  <2> HIDE DEF d, r
  <2>9. Sound(Registered(q, info))
    BY <1>2, <1>3, <1>5, <2>2, <2>3, <2>4, <2>5, <2>6, <2>7, <2>8, DescribedSound
  <2> QED
    BY <2>9 DEF r
<1> QED
  BY <1>2, <1>4, <1>5 DEF r, q, info, next

\* A type is asked for.
LEMMA RegisterKeeps ==
  ASSUME NEW u \in Units, NEW s \in Process, InContext(s, u), Awaits(s), NEW t, Asked(s, u, t)
  PROVE  LET r == getOrRegisterType(s, t) IN
         /\ r \in Process /\ InContext(r, u) /\ r.pc = s.pc
         /\ Sound(s) => Sound(r)
<1> DEFINE r == getOrRegisterType(s, t)
           next == reserveNextId(s)
<1>1. t \in Types
  BY DEF Asked
<1>2. CASE KnownID(s, t) # NoId
  <2> DEFINE id == KnownID(s, t)
  <2>1. id \in Nat /\ r = Answer(s, id)
    BY <1>1, <1>2, KnownIDTyped DEF getOrRegisterType
  <2>2. LET a == Answer(s, id) IN a \in Process /\ InContext(a, u) /\ a.pc = s.pc /\ (Sound(s) => Sound(a))
    <3> HIDE DEF id
    <3> QED
      BY <2>1, AnswerKeeps DEF Awaits
  <2> QED
    BY <2>1, <2>2
<1>3. CASE KnownID(s, t) = NoId /\ Desc[t].kind = "vector"
  <2> DEFINE q == Registered(next.s, VectorInfo(s, t, next.id))
  <2>1. Name(s, t) \notin DOMAIN s.map
    BY <1>1, <1>3, KnownIDTyped
  <2>2. /\ q \in Process /\ InContext(q, u) /\ next.id \in Nat
        /\ q.pc = s.pc /\ q.unit = s.unit /\ q.frames = s.frames
        /\ Sound(s) => Sound(q)
    BY <1>3, <2>1, VectorKeeps
  <2>3. r = Answer(q, next.id)
    BY <1>3 DEF getOrRegisterType
  <2>4. Awaits(q)
    <3> HIDE DEF q
    <3> QED
      BY <2>2 DEF Awaits, Innermost
  <2>5. LET a == Answer(q, next.id) IN
        a \in Process /\ InContext(a, u) /\ a.pc = s.pc /\ (Sound(q) => Sound(a))
    <3> HIDE DEF q, next
    <3> QED
      BY <2>2, <2>4, AnswerKeeps DEF Awaits
  <2> HIDE DEF q
  <2> QED
    BY <2>2, <2>3, <2>5
<1>4. CASE KnownID(s, t) = NoId /\ Desc[t].kind # "vector"
  <2> DEFINE q == [next.s EXCEPT !.frames = Append(s.frames, [type |-> t, id |-> next.id, ids |-> <<>>])]
  <2>1. Name(s, t) \notin DOMAIN s.map /\ Desc[t].kind = "struct"
    BY <1>1, <1>4, KnownIDTyped DEF Composite
  <2>2. q \in Process /\ InContext(q, u) /\ q.pc = s.pc /\ (Sound(s) => Sound(q))
    BY <2>1, OpenKeeps
  <2>3. r = q
    BY <1>4 DEF getOrRegisterType
  <2> QED
    BY <2>2, <2>3
<1> QED
  BY <1>2, <1>3, <1>4

\* The description of a struct whose members are all known.
LEMMA StructInfoTyped ==
  ASSUME NEW u \in Units, NEW s \in Process, InContext(s, u),
         s.frames # <<>>, ~MembersLeft(s)
  PROVE  LET f == Innermost(s) IN
         /\ f \in Frames /\ StructInfo(s, f) \in Infos
         /\ StructInfo(s, f).id = f.id /\ StructInfo(s, f).name = Name(s, f.type)
<1> DEFINE d == Len(s.frames)
           f == s.frames[d]
           ms == Desc[f.type].members
           list == [i \in DOMAIN ms |-> [offset |-> ms[i].offset, type |-> f.ids[i], count |-> ms[i].count]]
<1>1. d \in 1..d /\ f \in Frames /\ Innermost(s) = f
  BY ProcessFields DEF Innermost
<1>2. f.type \in Needed(u) /\ Desc[f.type].kind = "struct" /\ Len(f.ids) <= Len(ms) /\ s.names = u.names
  BY <1>1 DEF InContext, MemberCount
<1>3. /\ f.type \in Types /\ Name(u, f.type) \in AllNames /\ Desc[f.type].extent \in Nat
      /\ ms \in Seq([offset : Nat, type : Types, count : Nat])
  BY <1>2, NeededParts, TypesAssumption
<1>4. f.ids \in Seq(Nat) /\ f.id \in Nat
  BY <1>1 DEF Frames
<1>5. Len(f.ids) = Len(ms)
  BY <1>1, <1>2, <1>3, <1>4 DEF MembersLeft
<1> HIDE DEF ms, f
<1>6. list \in Seq(Members)
  <2>1. DOMAIN ms = 1..Len(ms) /\ Len(ms) \in Nat
    BY <1>3
  <2>2. ASSUME NEW i \in 1..Len(ms)
        PROVE  [offset |-> ms[i].offset, type |-> f.ids[i], count |-> ms[i].count] \in Members
    <3>1. f.ids[i] \in Nat
      BY <1>4, <1>5
    <3>2. ms[i] \in [offset : Nat, type : Types, count : Nat]
      <4> DEFINE M == [offset : Nat, type : Types, count : Nat]
      <4>1. ms \in Seq(M)
        BY <1>3
      <4> HIDE DEF M
      <4>2. ms[i] \in M
        BY <4>1
      <4> QED
        BY <4>2 DEF M
    <3>3. ms[i].offset \in Nat /\ ms[i].count \in Nat
      BY <3>2
    <3> QED
      BY <3>1, <3>3 DEF Members
  <2>3. list \in [1..Len(ms) -> Members]
    BY <2>1, <2>2
  <2> HIDE DEF list
  <2> QED
    BY <2>1, <2>3
<1>7. Name(s, f.type) = Name(u, f.type)
  BY <1>2 DEF Name
<1>8. StructInfo(s, f) = Info(f.id, Name(s, f.type), Desc[f.type].extent, list, "user")
  BY DEF StructInfo, ms
<1> HIDE DEF list
<1>9. /\ StructInfo(s, f) \in Infos
      /\ StructInfo(s, f).id = f.id /\ StructInfo(s, f).name = Name(s, f.type)
  BY <1>3, <1>4, <1>6, <1>7, <1>8 DEF Info, Infos
<1> QED
  BY <1>1, <1>9

\* A struct is registered and its activation closed.
LEMMA StructKeeps ==
  ASSUME NEW u \in Units, NEW s \in Process, InContext(s, u),
         s.frames # <<>>, ~MembersLeft(s)
  PROVE  LET f == Innermost(s)
             popped == [s EXCEPT !.frames = SubSeq(s.frames, 1, Len(s.frames) - 1)]
             r == Answer(Registered(popped, StructInfo(s, f)), f.id)
         IN  r \in Process /\ InContext(r, u) /\ r.pc = s.pc /\ (Sound(s) => Sound(r))
<1> DEFINE d == Len(s.frames)
           f == Innermost(s)
           fs == SubSeq(s.frames, 1, d - 1)
           q == [s EXCEPT !.frames = fs]
           info == StructInfo(s, f)
           r == Registered(q, info)
           a == Answer(r, f.id)
<1>1. s.frames \in Seq(Frames) /\ d \in Nat /\ d > 0 /\ f = s.frames[d]
  BY ProcessFields DEF Innermost
<1>2. f \in Frames /\ info \in Infos /\ info.id = f.id /\ info.name = Name(s, f.type) /\ f.id \in Nat
  <2>1. f \in Frames /\ info \in Infos /\ info.id = f.id /\ info.name = Name(s, f.type)
    BY StructInfoTyped
  <2> QED
    BY <2>1 DEF Frames
<1> HIDE DEF f, info
<1>3. /\ fs \in Seq(Frames) /\ Len(fs) = d - 1 /\ d - 1 \in Nat
      /\ \A i \in 1..(d - 1) : i \in 1..d /\ i < d /\ fs[i] = s.frames[i]
  BY <1>1
<1> HIDE DEF fs
<1>4. /\ q \in Process /\ q.frames = fs /\ q.pc = s.pc /\ q.unit = s.unit /\ q.names = s.names
      /\ q.db = s.db /\ q.map = s.map /\ q.count = s.count
  BY <1>3 DEF Process
<1> HIDE DEF q
<1>5. s.unit # <<>> /\ s.names = u.names
  BY DEF InContext
<1>6. InContext(q, u)
  <2> HIDE DEF d
  <2> QED
    BY <1>3, <1>4, <1>5 DEF InContext, d
<1>7. /\ r \in Process /\ InContext(r, u)
      /\ r.pc = s.pc /\ r.unit = s.unit /\ r.frames = fs
  BY <1>2, <1>4, <1>6, RegisteredKeeps
<1>8. ASSUME Sound(s) PROVE Sound(r)
  <2> DEFINE n == Len(s.db)
             k == d - 1
  <2>1. /\ s.count = n + d
        /\ f.id \in IdsTo(s.count) \ Ids(s.db)
        /\ Name(s, f.type) \notin NamesIn(s.db)
        /\ \A j \in 1..k : s.frames[j].id # f.id /\ Meets(s, s.frames[j].type, f.type)
    <3>1. d \in 1..d
      BY <1>1
    <3> QED
      BY <1>1, <1>8, <3>1 DEF Sound
  <2>2. n \in Nat /\ s.count \in Nat
    BY ProcessFields
  <2>3. isStructType(info.id)
    <3>1. f.id \in IdsTo(s.count)
      BY <2>1
    <3>2. f.id >= NumReservedIds
      <4> HIDE DEF n, d
      <4> QED
        BY <2>2, <3>1 DEF IdsTo, NumReservedIds
    <3> QED
      BY <1>2, <3>2 DEF isStructType
  <2>4. q.count = n + 1 + k
    <3> HIDE DEF n, d
    <3>1. s.count = n + 1 + k
      BY <1>1, <2>1, <2>2
    <3> QED
      BY <1>4, <3>1
  <2>5. ASSUME NEW i \in 1..k
        PROVE  s.frames[i].id # info.id /\ Name(s, s.frames[i].type) # info.name
    <3>1. s.frames[i].type \in Needed(u)
      BY <1>3 DEF InContext
    <3>2. Name(s, s.frames[i].type) # Name(s, f.type)
      BY <1>5, <2>1, <3>1, OtherName
    <3> QED
      BY <1>2, <2>1, <3>2
  <2>6. k \in Nat /\ k <= Len(s.frames) /\ Len(q.frames) = k /\ \A i \in 1..k : q.frames[i] = s.frames[i]
    BY <1>1, <1>3, <1>4
  <2>7. IdsTo(s.count) \subseteq IdsTo(q.count) /\ info.id \in IdsTo(q.count) \ Ids(s.db)
    BY <1>2, <1>4, <2>1
  <2>8. info.name \notin NamesIn(s.db)
    BY <1>2, <2>1
  <2> HIDE DEF k, d, r
  <2>9. Sound(Registered(q, info))
    BY <1>2, <1>4, <1>8, <2>3, <2>4, <2>5, <2>6, <2>7, <2>8, DescribedSound DEF n
  <2> QED
    BY <2>9 DEF r
<1>9. Awaits(r)
  <2>1. ASSUME fs # <<>> PROVE Len(fs[Len(fs)].ids) < MemberCount(fs[Len(fs)])
    <3>1. d - 1 \in 1..(d - 1)
      BY <1>3, <2>1
    <3>2. d - 1 \in 1..d /\ d - 1 < d /\ fs[d - 1] = s.frames[d - 1]
      BY <1>3, <3>1
    <3> QED
      BY <1>3, <3>2 DEF InContext
  <2> HIDE DEF r
  <2> QED
    BY <1>5, <1>7, <2>1 DEF Awaits, Innermost
<1> HIDE DEF r
<1>10. a \in Process /\ InContext(a, u) /\ a.pc = s.pc /\ (Sound(r) => Sound(a))
  <2>1. LET b == Answer(r, f.id) IN
        b \in Process /\ InContext(b, u) /\ b.pc = r.pc /\ (Sound(r) => Sound(b))
    BY <1>2, <1>7, <1>9, AnswerKeeps DEF Awaits
  <2> QED
    BY <1>7, <2>1
<1> HIDE DEF a
<1>11. a \in Process /\ InContext(a, u) /\ a.pc = s.pc /\ (Sound(s) => Sound(a))
  BY <1>8, <1>10
<1> QED
  BY <1>11 DEF a, r, q, fs, d, info, f

-----------------------------------------------------------------------------
(* Loading the file.                                                       *)

\* The map of a list has its names, each with an id.
LEMMA StructMapTyped ==
  ASSUME NEW list \in Seq(Infos)
  PROVE  StructMapOf(list) \in Maps /\ Cardinality(DOMAIN StructMapOf(list)) \in Nat
<1>1. DOMAIN list = 1..Len(list) /\ Len(list) \in Nat /\ \A i \in DOMAIN list : list[i] \in Infos
  OBVIOUS
<1>2. NamesIn(list) \subseteq AllNames
  BY <1>1 DEF NamesIn, Infos
<1>3. ASSUME NEW n \in NamesIn(list) PROVE StructMapOf(list)[n] \in Nat
  <2> DEFINE P(i) == list[i].name = n /\ \A j \in 1..(i - 1) : list[j].name # n
             S == {i \in DOMAIN list : list[i].name = n}
  <2>1. S \subseteq Nat /\ S # {}
    BY <1>1 DEF NamesIn
  <2>2. PICK i \in S : \A j \in S : ~(<<j, i>> \in OpToRel(<, Nat))
    <3> HIDE DEF S
    <3> QED
      BY <2>1, NatLessThanWellFounded, WFMin, Zenon
  <2>3. ASSUME NEW j \in 1..(i - 1) PROVE list[j].name # n
    <3>1. j \in Nat /\ i \in Nat /\ j < i /\ j \in DOMAIN list
      BY <1>1, <2>1
    <3>2. <<j, i>> \in OpToRel(<, Nat)
      BY <3>1, Zenon DEF OpToRel
    <3> QED
      BY <2>2, <3>1, <3>2
  <2>4. i \in DOMAIN list /\ P(i)
    BY <2>3
  <2> HIDE DEF P
  <2>5. (CHOOSE k \in DOMAIN list : P(k)) \in DOMAIN list
    BY <2>4
  <2>6. list[CHOOSE k \in DOMAIN list : P(k)].id \in Nat
    BY <1>1, <2>5 DEF Infos
  <2> QED
    BY <2>6 DEF StructMapOf, P
<1>4. StructMapOf(list) \in [NamesIn(list) -> Nat]
  BY <1>3 DEF StructMapOf
<1>5. IsFiniteSet(NamesIn(list))
  <2> DEFINE f == [i \in 1..Len(list) |-> list[i].name]
  <2>1. f \in Surjection(1..Len(list), NamesIn(list))
    BY <1>1 DEF Surjection, NamesIn
  <2>2. IsFiniteSet(1..Len(list))
    BY <1>1, FS_Interval
  <2> HIDE DEF f
  <2> QED
    BY <2>1, <2>2, FS_Surjection
<1>6. Cardinality(NamesIn(list)) \in Nat
  BY <1>5, FS_CardinalityType
<1> QED
  BY <1>2, <1>4, <1>6 DEF Maps

\* A process starts with what it read; a file in order makes it sound.
LEMMA LoadedKeeps ==
  ASSUME NEW u \in Units, NEW list \in Seq(Infos)
  PROVE  LET s == Loaded(list, u) IN
         /\ s \in Process /\ InContext(s, u) /\ s.pc = "run"
         /\ FileOK(list) => Sound(s)
<1> DEFINE s == Loaded(list, u)
           m == StructMapOf(list)
           c == Cardinality(DOMAIN m)
<1>1. m \in Maps /\ c \in Nat /\ DOMAIN m = NamesIn(list)
  BY StructMapTyped DEF StructMapOf
<1>2. u.types \in Seq(Types) /\ u.names \in Namings
  BY TypesAssumption DEF Namings
<1>3. s = [pc |-> "run", unit |-> u.types, names |-> u.names, db |-> list, map |-> m,
           count |-> c, frames |-> <<>>, code |-> {}]
  <2>1. s = [NewProcess EXCEPT !.pc = "run", !.unit = u.types, !.names = u.names, !.db = list,
                               !.map = m, !.count = c]
    BY DEF Loaded
  <2> HIDE DEF s, m, c
  <2> QED
    BY <2>1 DEF NewProcess
<1> HIDE DEF s, m, c
<1>4. s \in Process
  <2>1. <<>> \in Seq(Frames) /\ {} \in SUBSET Codes
    OBVIOUS
  <2> QED
    BY <1>1, <1>2, <1>3, <2>1 DEF Process
<1>5. InContext(s, u)
  <2>1. \A i \in 1..Len(u.types) : u.types[i] \in Needed(u)
    BY <1>2 DEF Needed, Parts
  <2> QED
    BY <1>3, <2>1 DEF InContext
<1>6. ASSUME FileOK(list) PROVE Sound(s)
  <2>1. Distinct(list) /\ \A i \in 1..Len(list) : list[i].id \in IdsTo(Len(list))
    BY <1>6 DEF FileOK
  <2>2. c = Len(list) /\ Len(list) \in Nat
    BY <1>1, <2>1, CountNames DEF c
  <2>3. \A i \in 1..Len(list) : m[list[i].name] = list[i].id
    BY <2>1, InfoFound DEF m
  <2>4. Len(s.frames) = 0 /\ s.count = Len(s.db) + 0
    BY <1>3, <2>2
  <2> QED
    BY <1>1, <1>3, <2>1, <2>2, <2>3, <2>4 DEF Sound
<1> QED
  BY <1>3, <1>4, <1>5, <1>6 DEF s

\* Whatever is read is a list of infos.
LEMMA LoadsTyped ==
  ASSUME NEW f, f.infos \in Seq(Infos), NEW list \in Loads(f)
  PROVE  list \in Seq(Infos) /\ (~f.torn => list = f.infos)
<1> DEFINE infos == f.infos
           n == Len(infos)
<1>1. infos \in Seq(Infos) /\ n \in Nat
  OBVIOUS
<1>2. CASE ~f.torn
  BY <1>2 DEF Loads
<1>3. ASSUME NEW k \in 0..n PROVE SubSeq(infos, 1, k) \in Seq(Infos)
  <2> HIDE DEF infos
  <2> QED
    BY <1>1
<1>4. ASSUME NEW k \in 1..n PROVE Append(SubSeq(infos, 1, k - 1), Cut(infos[k])) \in Seq(Infos)
  <2> HIDE DEF infos
  <2>1. infos[k] \in Infos
    BY <1>1
  <2>2. Cut(infos[k]) \in Infos
    <3> DEFINE i == infos[k]
    <3>1. i \in Infos
      BY <2>1
    <3> HIDE DEF i
    <3>2. <<>> \in Seq(Members)
      OBVIOUS
    <3>3. Cut(i) \in Infos
      <4> DEFINE none == <<>>
      <4>1. none \in Seq(Members) /\ Cut(i) = [i EXCEPT !.extent = 0, !.members = none]
        BY <3>2 DEF Cut
      <4>2. /\ i.id \in Nat /\ i.name \in AllNames /\ i.flag \in {"user", "vector"}
            /\ i = [id |-> i.id, name |-> i.name, extent |-> i.extent, members |-> i.members, flag |-> i.flag]
        BY <3>1 DEF Infos
      <4> HIDE DEF none
      <4>3. Cut(i) = [id |-> i.id, name |-> i.name, extent |-> 0, members |-> none, flag |-> i.flag]
        BY <4>1, <4>2
      <4> QED
        BY <4>1, <4>2, <4>3 DEF Infos
    <3> QED
      BY <3>3 DEF i
  <2>3. SubSeq(infos, 1, k - 1) \in Seq(Infos)
    BY <1>1
  <2> QED
    BY <2>2, <2>3
<1>5. CASE f.torn /\ list \in {SubSeq(infos, 1, k) : k \in 0..n}
  BY <1>3, <1>5
<1>6. CASE f.torn /\ list \in {Append(SubSeq(infos, 1, k - 1), Cut(infos[k])) : k \in 1..n}
  BY <1>4, <1>6
<1> QED
  BY <1>2, <1>5, <1>6 DEF Loads

-----------------------------------------------------------------------------
(* The invariants.                                                         *)

ProcOK(s) ==
  /\ s \in Process
  /\ s.pc # "idle" => \E u \in Units : InContext(s, u)
  /\ s.pc \in {"write", "done"} => s.unit = <<>> /\ s.frames = <<>>

TypeInv ==
  /\ proc \in [Procs -> Process] /\ \A p \in Procs : ProcOK(proc[p])
  /\ file \in [infos : Seq(Infos), torn : BOOLEAN, mixed : BOOLEAN, writers : SUBSET Procs]
  /\ file.writers = {p \in Procs : proc[p].pc = "write"}
  /\ objects \subseteq Codes
  /\ causes \subseteq {"overlap", "torn", "unstored"}
  /\ crashes \in 0..MaxCrashes

\* As long as nobody has read half a file.
SoundInv == "torn" \notin causes => FileOK(file.infos) /\ \A p \in Procs : Sound(proc[p])

\* The state r of a process that was in the state s.
Keeps(s, r) == r \in Process /\ (\E u \in Units : InContext(r, u)) /\ (Sound(s) => Sound(r))

\* Only the state of the process changes.
LEMMA PcKeeps ==
  ASSUME NEW s \in Process, NEW u \in Units, InContext(s, u),
         NEW pc \in {"idle", "run", "write", "done", "crashed"}
  PROVE  LET r == [s EXCEPT !.pc = pc] IN
         /\ Keeps(s, r) /\ r.pc = pc /\ r.unit = s.unit /\ r.frames = s.frames
<1> DEFINE r == [s EXCEPT !.pc = pc]
<1>1. /\ r \in Process /\ r.pc = pc /\ r.unit = s.unit /\ r.names = s.names /\ r.db = s.db
      /\ r.map = s.map /\ r.count = s.count /\ r.frames = s.frames
  BY DEF Process
<1> HIDE DEF r
<1>2. InContext(r, u)
  BY <1>1 DEF InContext
<1>3. Len(s.frames) \in Nat
  BY ProcessFields
<1>4. Sound(s) => Sound(r)
  BY <1>1, <1>3, SoundSame
<1>5. Keeps(s, r)
  BY <1>1, <1>2, <1>4 DEF Keeps
<1> QED
  BY <1>1, <1>5 DEF r

\* The next type of the unit may be asked for.
LEMMA TypeAsked ==
  ASSUME NEW u \in Units, NEW s \in Process, InContext(s, u), s.frames = <<>>, s.unit # <<>>
  PROVE  Asked(s, u, Head(s.unit)) /\ Awaits(s)
<1> DEFINE t == Head(s.unit)
<1>1. s.unit \in Seq(Types)
  BY ProcessFields
<1>2. 1 \in 1..Len(s.unit) /\ t = s.unit[1]
  BY <1>1
<1>3. t \in Needed(u) /\ t \in Types
  BY <1>2, NeededParts DEF InContext
<1> QED
  BY <1>3 DEF Asked, Awaits

\* So may the next member of a struct, unless it is one with the struct's name.
LEMMA MemberAsked ==
  ASSUME NEW u \in Units, NEW s \in Process, InContext(s, u), s.frames # <<>>, MembersLeft(s)
  PROVE  LET f == Innermost(s)
             t == Desc[f.type].members[Len(f.ids) + 1].type
         IN  /\ Awaits(s) /\ t \in Types /\ f.id \in Nat
             /\ f.type \in Types /\ Desc[f.type].kind = "struct"
             /\ ~(Desc[t].kind = "struct" /\ Name(s, t) = Name(s, f.type)) => Asked(s, u, t)
<1> DEFINE d == Len(s.frames)
           f == Innermost(s)
           ms == Desc[f.type].members
           k == Len(f.ids) + 1
           t == ms[k].type
<1>1. s.frames \in Seq(Frames) /\ s.unit # <<>>
  BY ProcessFields DEF InContext
<1>2. d \in 1..d /\ f = s.frames[d] /\ f \in Frames /\ Len(f.ids) < Len(ms)
  <2>1. d \in 1..d
    BY <1>1
  <2> QED
    BY <1>1, <2>1 DEF Innermost, MembersLeft
<1>3. f.type \in Needed(u) /\ Desc[f.type].kind = "struct" /\ f.id \in Nat /\ f.ids \in Seq(Nat)
  BY <1>2 DEF InContext, Frames
<1>4. t \in Types /\ (t \in Composite => t \in MemberTypes(f.type))
  <2> DEFINE M == [offset : Nat, type : Types, count : Nat]
  <2>1. ms \in Seq(M)
    BY <1>3, NeededParts, TypesAssumption
  <2> HIDE DEF ms, M, f
  <2>2. k \in 1..Len(ms) /\ k \in DOMAIN ms
    BY <1>2, <1>3, <2>1
  <2> HIDE DEF k
  <2>3. ms[k] \in M
    BY <2>1, <2>2
  <2>4. t \in Types
    BY <2>3 DEF M
  <2>5. t \in Composite => t \in MemberTypes(f.type)
    BY <1>3, <2>2 DEF MemberTypes, ms
  <2> QED
    BY <2>4, <2>5
<1> HIDE DEF k
<1>5. Awaits(s)
  BY <1>1, <1>2 DEF Awaits, MemberCount
<1> HIDE DEF t
<1>6. ASSUME ~(Desc[t].kind = "struct" /\ Name(s, t) = Name(s, f.type)) PROVE Asked(s, u, t)
  <2>1. ASSUME t \in Composite PROVE t \in Needed(u)
    BY <1>3, <1>4, <2>1, NeededParts
  <2>2. ASSUME t \in Composite, Sound(s), NEW i \in 1..d
        PROVE  Meets(s, s.frames[i].type, t)
    <3>1. Desc[t].kind = "vector" \/ Name(s, t) # Name(s, f.type)
      BY <1>6, <2>2 DEF Composite
    <3>2. CASE i = d
      BY <1>2, <1>3, <1>4, <2>2, <3>1, <3>2, MeetsMember
    <3>3. CASE i # d
      <4>1. i \in 1..(d - 1) /\ i \in 1..Len(s.frames)
        BY <1>2, <3>3
      <4>2. Meets(s, s.frames[i].type, f.type)
        BY <1>2, <2>2, <4>1 DEF Sound
      <4>3. s.frames[i].type \in Needed(u)
        BY <4>1 DEF InContext
      <4> QED
        BY <1>3, <1>4, <2>2, <4>2, <4>3, MeetsMember
    <3> QED
      BY <3>2, <3>3
  <2> QED
    BY <1>4, <2>1, <2>2 DEF Asked
<1>7. f.type \in Types
  BY <1>3, NeededParts
<1> QED
  BY <1>3, <1>4, <1>5, <1>6, <1>7 DEF t, k

\* A running process registers a type, a member or a struct.
LEMMA RegistrationKeeps ==
  ASSUME TypeInv, NEW p \in Procs, AskType(p) \/ AskMember(p) \/ EndStruct(p)
  PROVE  \E r : /\ proc' = [proc EXCEPT ![p] = r] /\ proc[p].pc = "run" /\ r.pc = "run"
                /\ Keeps(proc[p], r) /\ UNCHANGED <<file, objects, causes, crashes>>
<1> DEFINE s == proc[p]
<1>1. s \in Process /\ s.pc = "run"
  BY DEF TypeInv, AskType, AskMember, EndStruct, Running
<1>2. PICK u \in Units : InContext(s, u)
  BY <1>1 DEF TypeInv, ProcOK
<1> HIDE DEF s
<1>3. CASE AskType(p)
  <2> DEFINE t == Head(s.unit)
             r == getOrRegisterType(s, t)
  <2>1. /\ s.frames = <<>> /\ s.unit # <<>> /\ UNCHANGED <<file, objects, causes, crashes>>
        /\ proc' = [proc EXCEPT ![p] = r]
    BY <1>3 DEF AskType, s
  <2>2. Asked(s, u, t) /\ Awaits(s)
    BY <1>1, <1>2, <2>1, TypeAsked
  <2> HIDE DEF t
  <2>3. r \in Process /\ InContext(r, u) /\ r.pc = s.pc /\ (Sound(s) => Sound(r))
    BY <1>1, <1>2, <2>2, RegisterKeeps
  <2> HIDE DEF r
  <2> QED
    BY <1>1, <2>1, <2>3 DEF Keeps, s
<1>4. CASE AskMember(p)
  <2> DEFINE f == Innermost(s)
             t == Desc[f.type].members[Len(f.ids) + 1].type
             loop == Desc[t].kind = "struct" /\ Name(s, t) = Name(s, f.type)
             r == IF loop THEN Answer(s, f.id) ELSE getOrRegisterType(s, t)
  <2>1. /\ s.frames # <<>> /\ MembersLeft(s) /\ UNCHANGED <<file, objects, causes, crashes>>
        /\ proc' = [proc EXCEPT ![p] = r]
    BY <1>4 DEF AskMember, s
  <2>2. Awaits(s) /\ t \in Types /\ f.id \in Nat /\ (~loop => Asked(s, u, t))
    BY <1>1, <1>2, <2>1, MemberAsked
  <2> HIDE DEF f, t
  <2>3. CASE loop
    <3>1. LET a == Answer(s, f.id) IN
          a \in Process /\ InContext(a, u) /\ a.pc = s.pc /\ (Sound(s) => Sound(a))
      BY <1>1, <1>2, <2>2, AnswerKeeps DEF Awaits
    <3>2. r = Answer(s, f.id)
      BY <2>3
    <3> HIDE DEF r
    <3> QED
      BY <1>1, <1>2, <2>1, <3>1, <3>2 DEF Keeps, s
  <2>4. CASE ~loop
    <3>1. LET a == getOrRegisterType(s, t) IN
          a \in Process /\ InContext(a, u) /\ a.pc = s.pc /\ (Sound(s) => Sound(a))
      BY <1>1, <1>2, <2>2, <2>4, RegisterKeeps
    <3>2. r = getOrRegisterType(s, t)
      BY <2>4
    <3> HIDE DEF r
    <3> QED
      BY <1>1, <2>1, <3>1, <3>2 DEF Keeps, s
  <2> QED
    BY <2>3, <2>4
<1>5. CASE EndStruct(p)
  <2> DEFINE f == Innermost(s)
             popped == [s EXCEPT !.frames = SubSeq(s.frames, 1, Len(s.frames) - 1)]
             r == Answer(Registered(popped, StructInfo(s, f)), f.id)
  <2>1. /\ s.frames # <<>> /\ ~MembersLeft(s) /\ UNCHANGED <<file, objects, causes, crashes>>
        /\ proc' = [proc EXCEPT ![p] = r]
    BY <1>5 DEF EndStruct, s
  <2>2. r \in Process /\ InContext(r, u) /\ r.pc = s.pc /\ (Sound(s) => Sound(r))
    BY <1>1, <1>2, <2>1, StructKeeps
  <2> HIDE DEF r
  <2> QED
    BY <1>1, <2>1, <2>2 DEF Keeps, s
<1> QED
  BY <1>3, <1>4, <1>5

\* The process that finished has a database that a file can hold.
LEMMA FinishedOK ==
  ASSUME NEW s \in Process, Sound(s), s.frames = <<>>
  PROVE  FileOK(s.db)
<1>1. Len(s.db) \in Nat /\ Len(s.frames) = 0
  BY ProcessFields
<1>2. s.count = Len(s.db) + Len(s.frames)
  BY DEF Sound
<1>3. s.count = Len(s.db)
  BY <1>1, <1>2
<1> QED
  BY <1>3 DEF Sound, FileOK

\* At first there is no file and nothing is registered.
LEMMA InvInit == Init => TypeInv /\ SoundInv
<1> SUFFICES ASSUME Init PROVE TypeInv /\ SoundInv
  OBVIOUS
<1> USE DEF Init
<1>1. NewProcess \in Process
  <2> DEFINE none == <<>>
  <2>1. none \in Seq(Types) /\ none \in Namings /\ none \in Seq(Infos) /\ none \in Seq(Frames)
    BY DEF Namings
  <2>2. none \in Maps
    <3>1. none \in [{} -> Nat]
      OBVIOUS
    <3>2. {} \in SUBSET AllNames
      OBVIOUS
    <3> QED
      BY <3>1, <3>2 DEF Maps
  <2>3. NewProcess = [pc |-> "idle", unit |-> none, names |-> none, db |-> none, map |-> none,
                      count |-> 0, frames |-> none, code |-> {}]
    BY DEF NewProcess
  <2> HIDE DEF none
  <2> QED
    BY <2>1, <2>2, <2>3 DEF Process
<1>2. TypeInv
  <2>1. \A p \in Procs : proc[p] = NewProcess /\ NewProcess.pc = "idle"
    BY DEF NewProcess
  <2>2. NoFile \in [infos : Seq(Infos), torn : BOOLEAN, mixed : BOOLEAN, writers : SUBSET Procs]
    <3>1. <<>> \in Seq(Infos)
      OBVIOUS
    <3> QED
      BY <3>1 DEF NoFile
  <2>3. {p \in Procs : proc[p].pc = "write"} = NoFile.writers
    BY <2>1 DEF NoFile
  <2> QED
    BY <1>1, <2>1, <2>2, <2>3, TypesAssumption DEF TypeInv, ProcOK
<1>3. Sound(NewProcess)
  <2>1. /\ NewProcess.db = <<>> /\ NewProcess.frames = <<>> /\ NewProcess.count = 0
        /\ DOMAIN NewProcess.map = {} /\ NamesIn(<<>>) = {}
    BY DEF NewProcess, NamesIn
  <2> QED
    BY <2>1 DEF Sound, Distinct
<1>4. FileOK(file.infos)
  BY DEF NoFile, FileOK, Distinct
<1> QED
  BY <1>2, <1>3, <1>4 DEF SoundInv

\* One process takes a state that is typed, and sound if it can be.
LEMMA ProcChanges ==
  ASSUME TypeInv, SoundInv, NEW p \in Procs, NEW r,
         proc' = [proc EXCEPT ![p] = r], ProcOK(r), causes \subseteq causes',
         "torn" \notin causes' => Sound(r) /\ FileOK(file'.infos)
  PROVE  /\ proc' \in [Procs -> Process] /\ (\A q \in Procs : ProcOK(proc'[q]))
         /\ SoundInv' /\ proc'[p] = r /\ \A q \in Procs : q # p => proc'[q] = proc[q]
<1>1. r \in Process /\ proc \in [Procs -> Process]
  BY DEF ProcOK, TypeInv
<1>2. proc' \in [Procs -> Process] /\ proc'[p] = r /\ \A q \in Procs : q # p => proc'[q] = proc[q]
  BY <1>1
<1>3. \A q \in Procs : ProcOK(proc'[q])
  BY <1>2 DEF TypeInv
<1>4. SoundInv'
  BY <1>2 DEF SoundInv
<1> QED
  BY <1>2, <1>3, <1>4

\* The steps keep the invariants.
LEMMA InvNext == TypeInv /\ SoundInv /\ [Next]_vars => TypeInv' /\ SoundInv'
<1> SUFFICES ASSUME TypeInv, SoundInv, [Next]_vars PROVE TypeInv' /\ SoundInv'
  OBVIOUS
<1> DEFINE File == [infos : Seq(Infos), torn : BOOLEAN, mixed : BOOLEAN, writers : SUBSET Procs]
<1>0. /\ proc \in [Procs -> Process] /\ file \in File
      /\ file.infos \in Seq(Infos) /\ file.torn \in BOOLEAN /\ file.mixed \in BOOLEAN
      /\ file.writers = {q \in Procs : proc[q].pc = "write"}
      /\ \A p \in Procs : ProcOK(proc[p]) /\ proc[p] \in Process
  BY DEF TypeInv, ProcOK
<1>1. ASSUME NEW p \in Procs, doInitialization(p) PROVE TypeInv' /\ SoundInv'
  <2>1. PICK u \in Units, list \in Loads(file) : proc' = [proc EXCEPT ![p] = Loaded(list, u)]
    BY <1>1 DEF doInitialization
  <2> DEFINE r == Loaded(list, u)
  <2>2. list \in Seq(Infos) /\ (~file.torn => list = file.infos)
    BY <1>0, LoadsTyped
  <2>3. r \in Process /\ InContext(r, u) /\ r.pc = "run" /\ (FileOK(list) => Sound(r))
    BY <2>2, LoadedKeeps
  <2>4. /\ proc[p].pc = "idle" /\ UNCHANGED <<file, objects, crashes>>
        /\ causes \subseteq causes' /\ causes' \subseteq causes \cup {"overlap", "torn"}
        /\ file.torn => "torn" \in causes'
    BY <1>1 DEF doInitialization
  <2> HIDE DEF r
  <2>5. "torn" \notin causes' => Sound(r) /\ FileOK(file'.infos)
    BY <2>2, <2>3, <2>4 DEF SoundInv
  <2>6. ProcOK(r)
    BY <2>3 DEF ProcOK
  <2>7. /\ proc' \in [Procs -> Process] /\ (\A q \in Procs : ProcOK(proc'[q]))
        /\ SoundInv' /\ proc'[p] = r /\ \A q \in Procs : q # p => proc'[q] = proc[q]
    BY <2>1, <2>4, <2>5, <2>6, ProcChanges DEF r
  <2>8. file'.writers = {q \in Procs : proc'[q].pc = "write"}
    BY <1>0, <2>3, <2>4, <2>7
  <2> QED
    BY <2>4, <2>7, <2>8 DEF TypeInv
<1>2. ASSUME NEW p \in Procs, AskType(p) \/ AskMember(p) \/ EndStruct(p) PROVE TypeInv' /\ SoundInv'
  <2>1. PICK r : /\ proc' = [proc EXCEPT ![p] = r] /\ proc[p].pc = "run" /\ r.pc = "run"
                 /\ Keeps(proc[p], r) /\ UNCHANGED <<file, objects, causes, crashes>>
    BY <1>2, RegistrationKeeps
  <2>2. ProcOK(r) /\ (Sound(proc[p]) => Sound(r))
    BY <2>1 DEF ProcOK, Keeps
  <2>3. /\ proc' \in [Procs -> Process] /\ (\A q \in Procs : ProcOK(proc'[q]))
        /\ SoundInv' /\ proc'[p] = r /\ \A q \in Procs : q # p => proc'[q] = proc[q]
    BY <2>1, <2>2, ProcChanges DEF SoundInv
  <2>4. file'.writers = {q \in Procs : proc'[q].pc = "write"}
    BY <1>0, <2>1, <2>3
  <2> QED
    BY <2>1, <2>3, <2>4 DEF TypeInv
<1>3. ASSUME NEW p \in Procs, NEW pc \in {"write", "done", "crashed"},
             proc[p].pc \in {"run", "write"},
             proc[p].pc = "run" /\ pc # "crashed" => Finished(p),
             proc' = [proc EXCEPT ![p].pc = pc],
             causes \subseteq causes', causes' \subseteq causes \cup {"unstored"},
             "torn" \notin causes => FileOK(file'.infos),
             file' \in File,
             file'.writers = IF pc = "write" THEN file.writers \cup {p} ELSE file.writers \ {p},
             objects' \subseteq objects \cup proc[p].code, crashes' \in 0..MaxCrashes
      PROVE  TypeInv' /\ SoundInv'
  <2> DEFINE s == proc[p]
             r == [s EXCEPT !.pc = pc]
  <2>1. s \in Process /\ proc' = [proc EXCEPT ![p] = r]
    BY <1>0, <1>3
  <2>2. PICK u \in Units : InContext(s, u)
    BY <1>0, <1>3 DEF ProcOK
  <2>3. Keeps(s, r) /\ r.pc = pc /\ r.unit = s.unit /\ r.frames = s.frames
    <3>1. pc \in {"idle", "run", "write", "done", "crashed"}
      OBVIOUS
    <3> HIDE DEF s
    <3> QED
      BY <2>1, <2>2, <3>1, PcKeeps
  <2>4. pc # "crashed" => s.unit = <<>> /\ s.frames = <<>>
    BY <1>0, <1>3 DEF ProcOK, Finished
  <2>5. s.code \subseteq Codes
    BY <2>1, ProcessFields
  <2> HIDE DEF r
  <2>6. ProcOK(r) /\ (Sound(s) => Sound(r))
    BY <2>3, <2>4 DEF ProcOK, Keeps
  <2>7. "torn" \notin causes' => Sound(r) /\ FileOK(file'.infos)
    BY <1>3, <2>6 DEF SoundInv
  <2>8. /\ proc' \in [Procs -> Process] /\ (\A q \in Procs : ProcOK(proc'[q]))
        /\ SoundInv' /\ proc'[p] = r /\ \A q \in Procs : q # p => proc'[q] = proc[q]
    BY <1>3, <2>1, <2>6, <2>7, ProcChanges
  <2>9. file'.writers = {q \in Procs : proc'[q].pc = "write"}
    BY <1>0, <1>3, <2>3, <2>8
  <2> QED
    BY <1>3, <2>5, <2>8, <2>9 DEF TypeInv
<1>4. ASSUME NEW p \in Procs, OpenStore(p) PROVE TypeInv' /\ SoundInv'
  <2>1. /\ Finished(p) /\ proc[p].pc = "run" /\ proc[p].frames = <<>>
        /\ proc' = [proc EXCEPT ![p].pc = "write"]
        /\ file' = [infos |-> proc[p].db, torn |-> TRUE,
                    mixed |-> file.writers # {}, writers |-> file.writers \cup {p}]
        /\ UNCHANGED <<objects, causes, crashes>>
    BY <1>4 DEF OpenStore, Finished, Running
  <2>2. proc[p].db \in Seq(Infos)
    BY <1>0, ProcessFields
  <2>3. "torn" \notin causes => FileOK(file'.infos)
    BY <1>0, <2>1, FinishedOK DEF SoundInv
  <2>4. file' \in File /\ file'.writers = file.writers \cup {p}
    BY <1>0, <2>1, <2>2
  <2>5. crashes' \in 0..MaxCrashes
    BY <2>1 DEF TypeInv
  <2> HIDE DEF File
  <2> QED
    BY <1>3, <2>1, <2>3, <2>4, <2>5
<1>5. ASSUME NEW p \in Procs, CloseStore(p) PROVE TypeInv' /\ SoundInv'
  <2>1. PICK list \in {proc[p].db} \cup {l \in {file.infos} : file.mixed},
             torn \in {file.writers # {p}} \cup {file.mixed} :
          file' = [file EXCEPT !.infos = list, !.torn = torn,
                               !.mixed = file.mixed /\ file.writers # {p},
                               !.writers = file.writers \ {p}]
    BY <1>5 DEF CloseStore
  <2>2. /\ proc[p].pc = "write" /\ proc' = [proc EXCEPT ![p].pc = "done"]
        /\ objects' = objects \cup proc[p].code /\ UNCHANGED <<causes, crashes>>
    BY <1>5 DEF CloseStore
  <2>3. list \in Seq(Infos) /\ torn \in BOOLEAN
    BY <1>0, ProcessFields
  <2> DEFINE mixed == file.mixed /\ file.writers # {p}
             writers == file.writers \ {p}
  <2>4. file' \in File /\ file'.writers = writers /\ file'.infos = list
    <3>1. mixed \in BOOLEAN /\ writers \in SUBSET Procs
      BY <1>0
    <3> HIDE DEF mixed, writers
    <3>2. file' = [file EXCEPT !.infos = list, !.torn = torn, !.mixed = mixed, !.writers = writers]
      BY <2>1 DEF mixed, writers
    <3> QED
      BY <1>0, <2>3, <3>1, <3>2
  <2>5. "torn" \notin causes => FileOK(file'.infos)
    <3>1. proc[p].frames = <<>>
      BY <1>0, <2>2 DEF ProcOK
    <3> QED
      BY <1>0, <2>4, <3>1, FinishedOK DEF SoundInv
  <2>6. crashes' \in 0..MaxCrashes
    BY <2>2 DEF TypeInv
  <2> HIDE DEF File
  <2> QED
    BY <1>3, <2>2, <2>4, <2>5, <2>6
<1>6. ASSUME NEW p \in Procs, StoreFails(p) PROVE TypeInv' /\ SoundInv'
  <2>1. /\ Finished(p) /\ proc[p].pc = "run" /\ proc' = [proc EXCEPT ![p].pc = "done"]
        /\ objects' = objects \cup proc[p].code /\ causes' = causes \cup {"unstored"}
        /\ UNCHANGED <<file, crashes>>
    BY <1>6 DEF StoreFails, Finished, Running
  <2>2. file.writers \ {p} = file.writers
    BY <1>0, <2>1
  <2>3. crashes' \in 0..MaxCrashes /\ ("torn" \notin causes => FileOK(file'.infos))
    BY <2>1 DEF TypeInv, SoundInv
  <2> HIDE DEF File
  <2> QED
    BY <1>0, <1>3, <2>1, <2>2, <2>3
<1>7. ASSUME NEW p \in Procs, Crash(p) PROVE TypeInv' /\ SoundInv'
  <2>1. /\ proc[p].pc \in {"run", "write"} /\ proc' = [proc EXCEPT ![p].pc = "crashed"]
        /\ file' = [file EXCEPT !.writers = file.writers \ {p}]
        /\ crashes < MaxCrashes /\ crashes' = crashes + 1 /\ UNCHANGED <<objects, causes>>
    BY <1>7 DEF Crash, Active
  <2>2. crashes' \in 0..MaxCrashes
    BY <2>1, TypesAssumption DEF TypeInv
  <2>3. file' \in File /\ file'.writers = file.writers \ {p} /\ file'.infos = file.infos
    <3> DEFINE w == file.writers \ {p}
    <3>1. w \in SUBSET Procs /\ file' = [file EXCEPT !.writers = w]
      BY <1>0, <2>1
    <3> HIDE DEF w
    <3>2. file' \in File /\ file'.writers = w /\ file'.infos = file.infos
      BY <1>0, <3>1
    <3> QED
      BY <3>2 DEF w
  <2>4. "torn" \notin causes => FileOK(file'.infos)
    BY <2>3 DEF SoundInv
  <2> HIDE DEF File
  <2> QED
    BY <1>3, <2>1, <2>2, <2>3, <2>4
<1>8. CASE UNCHANGED vars
  BY <1>8 DEF vars, TypeInv, SoundInv
<1> QED
  BY <1>1, <1>2, <1>4, <1>5, <1>6, <1>7, <1>8 DEF Next, Compile

LEMMA InvHolds == Spec => [](TypeInv /\ SoundInv)
  BY InvInit, InvNext, PTL DEF Spec

\* The state of the compilers and of the type file has its type.
THEOREM TypeCorrect == Spec => []TypeOK
<1>1. TypeInv => TypeOK
  <2> SUFFICES ASSUME TypeInv PROVE TypeOK
    OBVIOUS
  <2>1. ASSUME NEW p \in Procs
        PROVE  /\ proc[p].pc \in {"idle", "run", "write", "done", "crashed"}
               /\ proc[p].unit \in Seq(Types) /\ proc[p].count \in Nat
               /\ proc[p].pc \in {"write", "done"} => proc[p].unit = <<>> /\ proc[p].frames = <<>>
               /\ \A i \in DOMAIN proc[p].frames : proc[p].frames[i].type \in Types
               /\ \A i \in DOMAIN proc[p].db : proc[p].db[i].id \in Nat
    <3> DEFINE s == proc[p]
    <3>1. s \in Process /\ (s.pc \in {"write", "done"} => s.unit = <<>> /\ s.frames = <<>>)
      BY DEF TypeInv, ProcOK
    <3> HIDE DEF s
    <3>2. /\ s.pc \in {"idle", "run", "write", "done", "crashed"}
          /\ s.unit \in Seq(Types) /\ s.count \in Nat
          /\ s.frames \in Seq(Frames) /\ s.db \in Seq(Infos)
      BY <3>1, ProcessFields
    <3>3. \A i \in DOMAIN s.frames : s.frames[i] \in Frames
      BY <3>2
    <3>4. \A i \in DOMAIN s.db : s.db[i] \in Infos
      BY <3>2
    <3>5. /\ \A i \in DOMAIN s.frames : s.frames[i].type \in Types
          /\ \A i \in DOMAIN s.db : s.db[i].id \in Nat
      BY <3>3, <3>4 DEF Frames, Infos
    <3> QED
      BY <3>1, <3>2, <3>5 DEF s
  <2> QED
    BY <2>1 DEF TypeInv, TypeOK
<1> QED
  BY <1>1, InvHolds, PTL

\* Unless somebody has read half a file, an id that is handed out is never one
\* that another type already has: each registered name leads to its description.
THEOREM NamesLead == Spec => []NamesResolve
<1>1. TypeInv /\ SoundInv => NamesResolve
  <2> SUFFICES ASSUME TypeInv, SoundInv, "torn" \notin causes, NEW p \in Procs,
                      NEW n \in DOMAIN proc[p].map
               PROVE  /\ proc[p].map[n] \in Ids(proc[p].db)
                      /\ InfoOf(proc[p].db, proc[p].map[n]).name = n
    BY DEF NamesResolve
  <2> DEFINE s == proc[p]
  <2>1. s \in Process /\ Sound(s)
    BY DEF TypeInv, SoundInv
  <2> HIDE DEF s
  <2>2. s.db \in Seq(Infos) /\ DOMAIN s.db = 1..Len(s.db) /\ Distinct(s.db)
    BY <2>1, ProcessFields DEF Sound
  <2>3. n \in NamesIn(s.db)
    BY <2>1 DEF Sound, s
  <2>4. PICK i \in 1..Len(s.db) : s.db[i].name = n
    BY <2>2, <2>3 DEF NamesIn
  <2>5. s.map[n] = s.db[i].id
    BY <2>1, <2>4 DEF Sound
  <2>6. s.db[i].id \in Ids(s.db) /\ InfoOf(s.db, s.db[i].id) = s.db[i]
    BY <2>2, InfoFound
  <2> QED
    BY <2>4, <2>5, <2>6 DEF s
<1> QED
  BY <1>1, InvHolds, PTL

-----------------------------------------------------------------------------
(* What the infos describe, and what the ids stand for.                    *)

\* Ids that are given out, each with its name: those of a list, those of the open
\* activations.
Pairs(list) == {<<list[i].id, list[i].name>> : i \in 1..Len(list)}
Opened(s)   == {<<s.frames[i].id, Name(s, s.frames[i].type)>> : i \in 1..Len(s.frames)}
Given(s)    == Pairs(s.db) \cup Opened(s)

MemberType(t, k) == Desc[t].members[k].type

\* The id is an answer for the type t, under the names that o has.
Refers(given, o, t, id) ==
  IF Desc[t].kind = "builtin" THEN id = get_builtin_typeid(t)
  ELSE id = UnknownType \/ (t \in Composite /\ <<id, Name(o, t)>> \in given)

\* The info is a description of t, a part of the type of o.
Describes(given, o, t, info) ==
  /\ t \in Parts(o.type) \cap Composite
  /\ info.name = Name(o, t) /\ SameShape(info, t)
  /\ Desc[t].kind = "struct" =>
       \A k \in DOMAIN Desc[t].members : Refers(given, o, MemberType(t, k), info.members[k].type)
  /\ Desc[t].kind = "vector" =>
       /\ Len(info.members) > 0 /\ info.members[1].offset = 0
       /\ \A k \in 1..Len(info.members) : isBuiltinType(info.members[k].type)

Traced(given, list, os) ==
  \A i \in 1..Len(list) : \E o \in os, t \in Types : Describes(given, o, t, list[i])

\* The id that an object file or a process has for a type is an answer.
Coded(given, os) == \A o \in os : o.id # UnknownType /\ Refers(given, o, o.type, o.id)

\* The types that somebody asked for: these, those in the code of the process and
\* the one it works on.
Source == [type : Types, names : Namings]
Origins(os) == {[type |-> o.type, names |-> o.names] : o \in os}
Working(s) == {[type |-> Head(s.unit), names |-> s.names] : i \in 1..Len(s.frames)}
Sources(s, base) == base \cup Origins(s.code) \cup Working(s)

\* The type that the activation i, or the unit, waits for.
Wanted(s, i) ==
  IF i = 0 THEN Head(s.unit) ELSE MemberType(s.frames[i].type, Len(s.frames[i].ids) + 1)

Described(s, os) ==
  /\ Traced(Given(s), s.db, os)
  /\ \A i \in 1..Len(s.frames) :
       /\ s.frames[i].type = Wanted(s, i - 1)
       /\ \E o \in os : o.names = s.names /\ s.frames[i].type \in Parts(o.type)
       /\ \A k \in 1..Len(s.frames[i].ids) :
            Refers(Given(s), s, MemberType(s.frames[i].type, k), s.frames[i].ids[k])

ProcTraced(s, base) == Described(s, Sources(s, base)) /\ Coded(Given(s), s.code)

\* An answer stays one when more ids are given out.
LEMMA RefersMore ==
  ASSUME NEW given, NEW more, given \subseteq more
  PROVE  /\ \A o, r, t, id : o.names = r.names /\ Refers(given, o, t, id) => Refers(more, r, t, id)
         /\ \A o, t, info : Describes(given, o, t, info) => Describes(more, o, t, info)
         /\ \A os : Coded(given, os) => Coded(more, os)
<1>1. \A o, r, t : o.names = r.names => Name(o, t) = Name(r, t)
  BY DEF Name
<1>2. \A o, r, t, id : o.names = r.names /\ Refers(given, o, t, id) => Refers(more, r, t, id)
  BY <1>1 DEF Refers
<1>3. \A o, t, info : Describes(given, o, t, info) => Describes(more, o, t, info)
  BY <1>2 DEF Describes
<1>4. \A os : Coded(given, os) => Coded(more, os)
  BY <1>2 DEF Coded
<1> QED
  BY <1>2, <1>3, <1>4

LEMMA TracedMore ==
  ASSUME NEW given, NEW more, given \subseteq more, NEW os, NEW os2, os \subseteq os2,
         NEW list, Traced(given, list, os)
  PROVE  Traced(more, list, os2)
  BY RefersMore DEF Traced

\* The state of the process that these properties speak of.
LEMMA TracedSame ==
  ASSUME NEW s, NEW r, r.unit = s.unit, r.names = s.names, r.db = s.db, r.frames = s.frames,
         r.code = s.code, NEW base, ProcTraced(s, base)
  PROVE  ProcTraced(r, base) /\ Given(r) = Given(s)
<1>1. \A t : Name(r, t) = Name(s, t)
  BY DEF Name
<1>2. Given(r) = Given(s) /\ Sources(r, base) = Sources(s, base)
  BY <1>1 DEF Given, Opened, Sources, Working
<1>3. \A i : Wanted(r, i) = Wanted(s, i)
  BY DEF Wanted
<1>4. \A g, t, id : Refers(g, s, t, id) => Refers(g, r, t, id)
  BY <1>1 DEF Refers
<1> QED
  BY <1>2, <1>3, <1>4 DEF ProcTraced, Described

\* What a lookup returns is an answer.
LEMMA KnownRefers ==
  ASSUME NEW s \in Process, Sound(s), NEW t \in Types, KnownID(s, t) # NoId
  PROVE  Refers(Given(s), s, t, KnownID(s, t))
<1>1. ASSUME NEW n \in DOMAIN s.map PROVE <<s.map[n], n>> \in Given(s)
  <2>1. PICK i \in 1..Len(s.db) : s.db[i].name = n
    <3>1. DOMAIN s.db = 1..Len(s.db)
      BY ProcessFields
    <3> QED
      BY <3>1 DEF Sound, NamesIn
  <2>2. s.map[n] = s.db[i].id
    BY <2>1 DEF Sound
  <2> QED
    BY <2>1, <2>2 DEF Given, Pairs
<1>2. CASE Desc[t].kind = "struct"
  <2>1. KnownID(s, t) = StructID(s, t) /\ t \in Composite
    BY <1>2 DEF KnownID, Composite
  <2> QED
    BY <1>1, <1>2, <2>1 DEF StructID, Refers
<1>3. CASE Desc[t].kind = "vector"
  <2>1. KnownID(s, t) = VectorID(s, t) /\ t \in Composite /\ Name(s, t) = Desc[t].name
    BY <1>3 DEF KnownID, Composite, Name, Literals
  <2> QED
    BY <1>1, <1>3, <2>1 DEF VectorID, Refers
<1>4. CASE Desc[t].kind = "builtin"
  BY <1>4 DEF KnownID, Refers
<1>5. CASE Desc[t].kind = "other"
  BY <1>5 DEF KnownID, Refers
<1> QED
  BY <1>2, <1>3, <1>4, <1>5, TypesAssumption

\* What an answer changes.
LEMMA AnswerShape ==
  ASSUME NEW s \in Process, NEW id \in Nat
  PROVE  LET r == Answer(s, id)
             d == Len(s.frames)
         IN  /\ r.names = s.names /\ r.db = s.db
             /\ s.frames = <<>> =>
                  /\ r.frames = s.frames
                  /\ r.code = s.code \cup {[type |-> Head(s.unit), id |-> id, names |-> s.names] :
                                              k \in {id} \ {UnknownType}}
             /\ s.frames # <<>> =>
                  /\ r.unit = s.unit /\ r.code = s.code /\ Len(r.frames) = d /\ d \in 1..d
                  /\ \A i \in 1..(d - 1) : r.frames[i] = s.frames[i]
                  /\ r.frames[d].type = s.frames[d].type /\ r.frames[d].id = s.frames[d].id
                  /\ r.frames[d].ids = Append(s.frames[d].ids, id)
<1> DEFINE r == Answer(s, id)
           d == Len(s.frames)
           f == s.frames[d]
           f2 == [f EXCEPT !.ids = Append(f.ids, id)]
           fs == [s.frames EXCEPT ![d] = f2]
<1>1. s.frames \in Seq(Frames) /\ d \in Nat
  BY ProcessFields
<1>2. CASE s.frames # <<>>
  <2>1. d \in 1..d /\ d > 0 /\ f \in Frames
    BY <1>1, <1>2
  <2>2. f2.type = f.type /\ f2.id = f.id /\ f2.ids = Append(f.ids, id)
    <3> HIDE DEF f
    <3> QED
      BY <2>1 DEF Frames
  <2>3. r = [s EXCEPT !.frames = fs]
    BY <2>1, Zenon DEF Answer
  <2> HIDE DEF f2
  <2>4. Len(fs) = d /\ fs[d] = f2 /\ \A i \in 1..(d - 1) : fs[i] = s.frames[i]
    BY <1>1, <2>1
  <2> HIDE DEF fs, r
  <2>5. r.frames = fs /\ r.names = s.names /\ r.db = s.db /\ r.unit = s.unit /\ r.code = s.code
    BY <2>3 DEF Process
  <2>6. r.frames[d].type = f.type /\ r.frames[d].id = f.id /\ r.frames[d].ids = Append(f.ids, id)
    BY <2>2, <2>4, <2>5
  <2>7. Len(r.frames) = d /\ \A i \in 1..(d - 1) : r.frames[i] = s.frames[i]
    BY <2>4, <2>5
  <2> QED
    BY <1>2, <2>1, <2>5, <2>6, <2>7 DEF r
<1>3. CASE s.frames = <<>>
  <2> DEFINE new == {[type |-> Head(s.unit), id |-> id, names |-> s.names] : k \in {id} \ {UnknownType}}
  <2>1. r = [s EXCEPT !.unit = Tail(s.unit), !.code = s.code \cup new]
    BY <1>3 DEF Answer
  <2> HIDE DEF new, r
  <2>2. /\ r.frames = s.frames /\ r.names = s.names /\ r.db = s.db
        /\ r.code = s.code \cup new
    BY <2>1 DEF Process
  <2> QED
    BY <1>3, <2>2 DEF new, r
<1> QED
  BY <1>2, <1>3

\* Nobody's question is lost, and one that got an id is in the code.
LEMMA AnswerSources ==
  ASSUME NEW s \in Process, NEW id \in Nat, NEW base
  PROVE  LET r == Answer(s, id) IN
         /\ Sources(s, base) \subseteq Sources(r, base)
         /\ s.frames # <<>> \/ id # UnknownType =>
              [type |-> Head(s.unit), names |-> s.names] \in Sources(r, base)
<1> DEFINE r == Answer(s, id)
           head == [type |-> Head(s.unit), names |-> s.names]
<1>1. s.frames \in Seq(Frames)
  BY ProcessFields
<1>2. CASE s.frames # <<>>
  <2>1. /\ r.unit = s.unit /\ r.code = s.code /\ r.names = s.names
        /\ Len(r.frames) = Len(s.frames) /\ Len(s.frames) \in 1..Len(s.frames)
    BY <1>2, AnswerShape
  <2> HIDE DEF r
  <2>2. Working(s) = Working(r) /\ head \in Working(r)
    BY <2>1 DEF Working
  <2> QED
    BY <2>1, <2>2 DEF Sources, r
<1>3. CASE s.frames = <<>>
  <2> DEFINE new == {[type |-> Head(s.unit), id |-> id, names |-> s.names] : k \in {id} \ {UnknownType}}
  <2>1. r.code = s.code \cup new
    BY <1>3, AnswerShape
  <2>2. Working(s) = {}
    BY <1>3 DEF Working
  <2>3. ASSUME id # UnknownType PROVE head \in Origins(new)
    <3> DEFINE c == [type |-> Head(s.unit), id |-> id, names |-> s.names]
    <3>1. c \in new /\ head = [type |-> c.type, names |-> c.names]
      BY <2>3
    <3> HIDE DEF new, c, head
    <3> QED
      BY <3>1 DEF Origins
  <2> HIDE DEF new, r, head
  <2>4. Origins(r.code) = Origins(s.code) \cup Origins(new)
    BY <2>1 DEF Origins
  <2> QED
    BY <1>3, <2>2, <2>3, <2>4 DEF Sources, r, head
<1> QED
  BY <1>2, <1>3

\* A right answer is returned.
LEMMA AnswerTraced ==
  ASSUME NEW s \in Process, NEW id \in Nat, NEW base, NEW os,
         Described(s, os), Coded(Given(s), s.code),
         Refers(Given(s), s, Wanted(s, Len(s.frames)), id),
         os \subseteq Sources(Answer(s, id), base)
  PROVE  ProcTraced(Answer(s, id), base) /\ Given(Answer(s, id)) = Given(s)
<1> DEFINE r == Answer(s, id)
           d == Len(s.frames)
<1>1. s.frames \in Seq(Frames) /\ d \in Nat
  BY ProcessFields
<1>2. r.names = s.names /\ r.db = s.db
  BY AnswerShape
<1>3. s.frames = <<>> =>
        /\ r.frames = s.frames
        /\ r.code = s.code \cup {[type |-> Head(s.unit), id |-> id, names |-> s.names] :
                                    k \in {id} \ {UnknownType}}
  BY AnswerShape
<1>4. s.frames # <<>> =>
        /\ r.unit = s.unit /\ r.code = s.code /\ Len(r.frames) = d /\ d \in 1..d
        /\ \A i \in 1..(d - 1) : r.frames[i] = s.frames[i]
        /\ r.frames[d].type = s.frames[d].type /\ r.frames[d].id = s.frames[d].id
        /\ r.frames[d].ids = Append(s.frames[d].ids, id)
  BY AnswerShape
<1> HIDE DEF r
<1>5. \A t : Name(r, t) = Name(s, t)
  BY <1>2 DEF Name
<1>6. /\ Len(r.frames) = d
      /\ \A i \in 1..d : r.frames[i].type = s.frames[i].type /\ r.frames[i].id = s.frames[i].id
  BY <1>1, <1>3, <1>4
<1>7. Given(r) = Given(s)
  BY <1>2, <1>5, <1>6 DEF Given, Opened
<1>8. \A g, t, i : Refers(g, s, t, i) <=> Refers(g, r, t, i)
  BY <1>5 DEF Refers
<1>9. Traced(Given(r), r.db, Sources(r, base))
  BY <1>2, <1>7, TracedMore DEF Described, r
<1>10. ASSUME NEW i \in 1..d
       PROVE  /\ r.frames[i].type = Wanted(r, i - 1)
              /\ \E o \in Sources(r, base) : o.names = r.names /\ r.frames[i].type \in Parts(o.type)
              /\ \A k \in 1..Len(r.frames[i].ids) :
                   Refers(Given(r), r, MemberType(r.frames[i].type, k), r.frames[i].ids[k])
  <2>1. s.frames # <<>>
    BY <1>1
  <2>2. /\ s.frames[i].type = Wanted(s, i - 1)
        /\ \E o \in os : o.names = s.names /\ s.frames[i].type \in Parts(o.type)
        /\ \A k \in 1..Len(s.frames[i].ids) :
             Refers(Given(s), s, MemberType(s.frames[i].type, k), s.frames[i].ids[k])
    BY DEF Described
  <2>3. Wanted(r, i - 1) = Wanted(s, i - 1)
    <3>1. CASE i = 1
      BY <1>4, <2>1, <3>1 DEF Wanted
    <3>2. CASE i # 1
      <4>1. i - 1 \in 1..(d - 1) /\ i - 1 # 0
        BY <1>1, <3>2
      <4> QED
        BY <1>4, <2>1, <4>1 DEF Wanted
    <3> QED
      BY <3>1, <3>2
  <2>4. ASSUME NEW k \in 1..Len(r.frames[i].ids)
        PROVE  Refers(Given(s), s, MemberType(s.frames[i].type, k), r.frames[i].ids[k])
    <3>1. CASE i # d
      <4>1. i \in 1..(d - 1)
        BY <1>1, <3>1
      <4>2. r.frames[i] = s.frames[i]
        BY <1>4, <2>1, <4>1
      <4> QED
        BY <2>2, <4>2
    <3>2. CASE i = d
      <4> DEFINE ids == s.frames[d].ids
      <4>1. ids \in Seq(Nat) /\ Len(ids) \in Nat
        <5>1. s.frames[d] \in Frames
          BY <1>1, <3>2
        <5>2. ids \in Seq(Nat)
          BY <5>1 DEF Frames
        <5> HIDE DEF ids
        <5> QED
          BY <5>2
      <4>2. r.frames[i].ids = Append(ids, id)
        BY <1>4, <2>1, <3>2
      <4>3. Refers(Given(s), s, MemberType(s.frames[i].type, Len(ids) + 1), id)
        BY <1>1, <2>1, <3>2 DEF Wanted
      <4> HIDE DEF ids
      <4>4. k \in 1..Len(ids) \/ k = Len(ids) + 1
        BY <4>1, <4>2
      <4>5. CASE k \in 1..Len(ids)
        <5>1. r.frames[i].ids[k] = ids[k]
          BY <4>1, <4>2, <4>5
        <5> QED
          BY <2>2, <3>2, <4>5, <5>1 DEF ids
      <4>6. CASE k = Len(ids) + 1
        <5>1. r.frames[i].ids[k] = id
          BY <4>1, <4>2, <4>6
        <5> QED
          BY <4>3, <4>6, <5>1
      <4> QED
        BY <4>4, <4>5, <4>6
    <3> QED
      BY <3>1, <3>2
  <2>5. \E o \in Sources(r, base) : o.names = r.names /\ r.frames[i].type \in Parts(o.type)
    BY <1>2, <1>6, <2>2 DEF r
  <2> QED
    BY <1>6, <1>7, <1>8, <2>2, <2>3, <2>4, <2>5
<1>11. Coded(Given(r), r.code)
  <2>1. CASE s.frames # <<>>
    BY <1>4, <1>7, <2>1
  <2>2. CASE s.frames = <<>>
    <3> DEFINE c == [type |-> Head(s.unit), id |-> id, names |-> s.names]
    <3>1. Refers(Given(s), s, Head(s.unit), id)
      BY <2>2 DEF Wanted
    <3>2. \A t : Name(c, t) = Name(s, t)
      BY DEF Name
    <3>3. Refers(Given(s), c, c.type, c.id)
      BY <3>1, <3>2 DEF Refers
    <3>4. r.code = s.code \cup {c : k \in {id} \ {UnknownType}} /\ c.id = id
      BY <1>3, <2>2
    <3> HIDE DEF c
    <3> QED
      BY <1>7, <3>3, <3>4 DEF Coded
  <2> QED
    BY <2>1, <2>2
<1>12. Described(r, Sources(r, base))
  BY <1>6, <1>9, <1>10 DEF Described
<1> QED
  BY <1>7, <1>11, <1>12 DEF ProcTraced, r

\* Where a type that is about to be registered comes from.
Origin(s, os, t) == \E o \in os : o.names = s.names /\ t \in Parts(o.type)

\* A vector is described.
LEMMA VectorDescribed ==
  ASSUME NEW u \in Units, NEW s \in Process, InContext(s, u), Sound(s),
         NEW t, Asked(s, u, t), Desc[t].kind = "vector", Name(s, t) \notin DOMAIN s.map,
         get_builtin_typeid(Desc[t].elem) # UnknownType,
         NEW os, NEW os2, os \subseteq os2, Described(s, os), Origin(s, os2, t)
  PROVE  LET next == reserveNextId(s)
             r == Registered(next.s, VectorInfo(s, t, next.id))
         IN  /\ Described(r, os2) /\ Given(s) \subseteq Given(r) /\ <<next.id, Name(s, t)>> \in Given(r)
             /\ r.unit = s.unit /\ r.names = s.names /\ r.frames = s.frames /\ r.code = s.code
<1> DEFINE next == reserveNextId(s)
           q == next.s
           info == VectorInfo(s, t, next.id)
           r == Registered(q, info)
           n == Len(s.db)
<1>1. t \in Types /\ t \in Composite
  BY DEF Asked, Composite
<1>2. /\ next.id \in Nat /\ isStructType(next.id)
      /\ next.id \notin IdsTo(s.count)
      /\ q \in Process /\ q.unit = s.unit /\ q.names = s.names
      /\ q.db = s.db /\ q.map = s.map /\ q.frames = s.frames /\ q.code = s.code
  BY NextId
<1>3. info \in Infos /\ info.id = next.id /\ info.name = Name(s, t)
  BY <1>1, <1>2, VectorInfoTyped
<1>4. /\ info.extent = Desc[t].bytes /\ info.flag = "vector"
      /\ Len(info.members) > 0 /\ info.members[1].offset = 0
      /\ \A k \in 1..Len(info.members) : isBuiltinType(info.members[k].type)
  <2> DEFINE v == Desc[t]
             used == v.count * Desc[v.elem].size
             elems == [offset |-> 0, type |-> get_builtin_typeid(v.elem), count |-> v.count]
             padding == [offset |-> used, type |-> 0, count |-> v.bytes - used]
             ms == IF v.bytes > used THEN <<elems, padding>> ELSE <<elems>>
  <2>1. info = Info(next.id, v.name, v.bytes, ms, "vector")
    BY DEF VectorInfo
  <2>2. elems.offset = 0 /\ isBuiltinType(elems.type) /\ isBuiltinType(padding.type)
    BY DEF get_builtin_typeid, BuiltinIds, isBuiltinType, BuiltinSizes
  <2> HIDE DEF elems, padding, used
  <2>3. Len(ms) > 0 /\ ms[1].offset = 0 /\ \A k \in 1..Len(ms) : isBuiltinType(ms[k].type)
    BY <2>2
  <2> HIDE DEF ms, info, next
  <2> QED
    BY <2>1, <2>3 DEF Info
<1> HIDE DEF next, q, info
<1>5. n \in Nat /\ DOMAIN s.db = 1..n
  BY ProcessFields
<1>6. info.id \notin Ids(s.db) /\ info.name \notin NamesIn(s.db)
  <2>1. DOMAIN s.map = NamesIn(s.db) /\ \A i \in 1..n : s.db[i].id \in IdsTo(s.count)
    BY DEF Sound
  <2> QED
    BY <1>2, <1>3, <1>5, <2>1 DEF Ids
<1>7. /\ Len(r.db) = n + 1 /\ r.db[n + 1] = info /\ \A i \in 1..n : r.db[i] = s.db[i]
      /\ r.unit = s.unit /\ r.names = s.names /\ r.frames = s.frames /\ r.code = s.code
  <2>1. /\ Distinct(q.db) /\ DOMAIN q.map = NamesIn(q.db)
        /\ \A i \in 1..Len(q.db) : q.map[q.db[i].name] = q.db[i].id
        /\ info.id \notin Ids(q.db) /\ info.name \notin NamesIn(q.db) /\ isStructType(info.id)
    BY <1>2, <1>3, <1>6 DEF Sound
  <2>2. /\ Len(r.db) = Len(q.db) + 1 /\ r.db[Len(q.db) + 1] = info
        /\ \A i \in 1..Len(q.db) : r.db[i] = q.db[i]
    BY <1>2, <1>3, <2>1, RegisteredSound
  <2>3. r.unit = q.unit /\ r.names = q.names /\ r.frames = q.frames /\ r.code = q.code
    BY <1>2, <1>3, RegisteredKeeps
  <2> HIDE DEF r
  <2> QED
    BY <1>2, <2>2, <2>3
<1> HIDE DEF r
<1>8. \A x : Name(r, x) = Name(s, x)
  BY <1>7 DEF Name
<1>9. Given(s) \subseteq Given(r) /\ <<next.id, Name(s, t)>> \in Given(r)
  <2>1. Opened(r) = Opened(s)
    BY <1>7, <1>8 DEF Opened
  <2>2. \A i \in 1..n : i \in 1..(n + 1)
    BY <1>5
  <2>3. Pairs(s.db) \subseteq Pairs(r.db)
    BY <1>7, <2>2 DEF Pairs
  <2>4. n + 1 \in 1..(n + 1)
    BY <1>5
  <2>5. <<next.id, Name(s, t)>> \in Pairs(r.db)
    BY <1>3, <1>7, <2>4 DEF Pairs
  <2> QED
    BY <2>1, <2>3, <2>5 DEF Given
<1>10. ASSUME NEW i \in 1..(n + 1)
       PROVE  \E o \in os2, x \in Types : Describes(Given(r), o, x, r.db[i])
  <2>1. CASE i \in 1..n
    <3>1. PICK o \in os, x \in Types : Describes(Given(s), o, x, s.db[i])
      BY <2>1 DEF Described, Traced
    <3>2. Describes(Given(r), o, x, s.db[i])
      BY <1>9, <3>1, RefersMore
    <3> QED
      BY <1>7, <2>1, <3>2
  <2>2. CASE i = n + 1
    <3>1. PICK o \in os2 : o.names = s.names /\ t \in Parts(o.type)
      BY DEF Origin
    <3>2. Name(o, t) = Name(s, t)
      BY <3>1 DEF Name
    <3>3. SameShape(info, t)
      BY <1>4 DEF SameShape
    <3>4. Describes(Given(r), o, t, info)
      BY <1>1, <1>3, <1>4, <3>1, <3>2, <3>3 DEF Describes
    <3> QED
      BY <1>1, <1>7, <2>2, <3>4
  <2> QED
    BY <1>5, <2>1, <2>2
<1>11. ASSUME NEW i \in 1..Len(r.frames)
       PROVE  /\ r.frames[i].type = Wanted(r, i - 1)
              /\ \E o \in os2 : o.names = r.names /\ r.frames[i].type \in Parts(o.type)
              /\ \A k \in 1..Len(r.frames[i].ids) :
                   Refers(Given(r), r, MemberType(r.frames[i].type, k), r.frames[i].ids[k])
  <2>1. \A j : Wanted(r, j) = Wanted(s, j)
    BY <1>7 DEF Wanted
  <2>2. \A x, id : Refers(Given(s), s, x, id) => Refers(Given(r), r, x, id)
    BY <1>7, <1>9, RefersMore
  <2> QED
    BY <1>7, <2>1, <2>2 DEF Described
<1>12. Described(r, os2)
  BY <1>7, <1>10, <1>11 DEF Described, Traced
<1> QED
  BY <1>7, <1>9, <1>12 DEF r, q, info, next

\* An activation is opened.
LEMMA OpenDescribed ==
  ASSUME NEW s \in Process, NEW t \in Types, t = Wanted(s, Len(s.frames)),
         NEW os, NEW os2, os \subseteq os2, Described(s, os), Origin(s, os2, t)
  PROVE  LET next == reserveNextId(s)
             r == [next.s EXCEPT !.frames = Append(s.frames, [type |-> t, id |-> next.id, ids |-> <<>>])]
         IN  /\ Described(r, os2) /\ Given(s) \subseteq Given(r)
             /\ r.unit = s.unit /\ r.names = s.names /\ r.code = s.code
             /\ r.frames = Append(s.frames, [type |-> t, id |-> next.id, ids |-> <<>>])
<1> DEFINE next == reserveNextId(s)
           f == [type |-> t, id |-> next.id, ids |-> <<>>]
           fs == Append(s.frames, f)
           r == [next.s EXCEPT !.frames = fs]
           d == Len(s.frames)
<1>1. /\ next.id \in Nat /\ next.s \in Process /\ next.s.unit = s.unit /\ next.s.names = s.names
      /\ next.s.db = s.db /\ next.s.code = s.code
  BY NextId
<1> HIDE DEF next
<1>2. f \in Frames /\ f.type = t /\ f.id = next.id /\ Len(f.ids) = 0
  BY <1>1 DEF Frames
<1>3. s.frames \in Seq(Frames) /\ d \in Nat
  BY ProcessFields
<1> HIDE DEF f
<1>4. /\ Len(fs) = d + 1 /\ fs[d + 1] = f
      /\ \A i \in 1..d : fs[i] = s.frames[i] /\ i \in 1..(d + 1)
      /\ \A i \in 1..(d + 1) : i \in 1..d \/ i = d + 1
  BY <1>2, <1>3
<1> HIDE DEF fs
<1>5. r.frames = fs /\ r.unit = s.unit /\ r.names = s.names /\ r.db = s.db /\ r.code = s.code
  BY <1>1 DEF Process
<1> HIDE DEF r
<1>6. \A x : Name(r, x) = Name(s, x)
  BY <1>5 DEF Name
<1>7. Given(s) \subseteq Given(r)
  <2>1. Opened(s) \subseteq Opened(r)
    BY <1>4, <1>5, <1>6 DEF Opened
  <2> QED
    BY <1>5, <2>1 DEF Given
<1>8. ASSUME NEW i \in 1..(d + 1)
      PROVE  /\ fs[i].type = Wanted(r, i - 1)
             /\ \E o \in os2 : o.names = r.names /\ fs[i].type \in Parts(o.type)
             /\ \A k \in 1..Len(fs[i].ids) :
                  Refers(Given(r), r, MemberType(fs[i].type, k), fs[i].ids[k])
  <2>1. Wanted(r, i - 1) = Wanted(s, i - 1)
    <3>1. CASE i = 1
      BY <1>5, <3>1 DEF Wanted
    <3>2. CASE i # 1
      <4>1. i - 1 \in 1..d /\ i - 1 # 0
        BY <1>3, <3>2
      <4> QED
        BY <1>4, <1>5, <4>1 DEF Wanted
    <3> QED
      BY <3>1, <3>2
  <2>2. CASE i \in 1..d
    <3>1. \A x, id : Refers(Given(s), s, x, id) => Refers(Given(r), r, x, id)
      BY <1>5, <1>7, RefersMore
    <3>2. fs[i] = s.frames[i]
      BY <1>4, <2>2
    <3> QED
      BY <1>5, <2>1, <2>2, <3>1, <3>2 DEF Described
  <2>3. CASE i = d + 1
    <3>1. i - 1 = d
      BY <1>3, <2>3
    <3>2. \A k \in 1..Len(f.ids) : FALSE
      BY <1>2
    <3> QED
      BY <1>2, <1>4, <1>5, <2>1, <2>3, <3>1, <3>2 DEF Origin
  <2> QED
    BY <1>4, <2>2, <2>3
<1>9. Traced(Given(r), r.db, os2)
  BY <1>5, <1>7, TracedMore DEF Described
<1>10. Described(r, os2)
  BY <1>4, <1>5, <1>8, <1>9 DEF Described
<1> QED
  BY <1>5, <1>7, <1>10 DEF r, fs, f, next

\* The type that is asked for comes from where its activation does.
LEMMA WantedOrigin ==
  ASSUME NEW u \in Units, NEW s \in Process, InContext(s, u), Awaits(s), NEW base \in SUBSET Source,
         Described(s, Sources(s, base)), NEW t, t = Wanted(s, Len(s.frames)), t \in Composite
  PROVE  Origin(s, Sources(s, base) \cup {[type |-> Head(s.unit), names |-> s.names]}, t)
<1> DEFINE d == Len(s.frames)
           head == [type |-> Head(s.unit), names |-> s.names]
<1>1. /\ s.frames \in Seq(Frames) /\ d \in Nat /\ s.unit \in Seq(Types) /\ s.names \in Namings
      /\ s.code \in SUBSET Codes
  BY ProcessFields
<1>2. s.unit # <<>>
  BY DEF Awaits, InContext
<1>3. CASE s.frames = <<>>
  <2>1. t = head.type /\ head.names = s.names
    BY <1>3 DEF Wanted
  <2> HIDE DEF head
  <2> QED
    BY <2>1 DEF Origin, Parts, head
<1>4. CASE s.frames # <<>>
  <2> DEFINE f == s.frames[d]
             k == Len(f.ids) + 1
             ms == Desc[f.type].members
  <2>1. d \in 1..d /\ d # 0 /\ f \in Frames
    BY <1>1, <1>4
  <2>2. f.type \in Needed(u) /\ Desc[f.type].kind = "struct"
    BY <2>1 DEF InContext
  <2>3. k \in DOMAIN ms
    <3> DEFINE M == [offset : Nat, type : Types, count : Nat]
    <3>1. ms \in Seq(M)
      BY <2>2, NeededParts, TypesAssumption
    <3>2. Len(f.ids) < Len(ms)
      BY <1>4 DEF Awaits, Innermost, MemberCount
    <3>3. f.ids \in Seq(Nat)
      BY <2>1 DEF Frames
    <3> HIDE DEF ms, M, f
    <3> QED
      BY <3>1, <3>2, <3>3
  <2>4. t = ms[k].type /\ t \in MemberTypes(f.type)
    BY <2>1, <2>2, <2>3 DEF Wanted, MemberType, MemberTypes
  <2>5. PICK o \in Sources(s, base) : o.names = s.names /\ f.type \in Parts(o.type)
    BY <2>1 DEF Described
  <2>6. o.type \in Types
    <3>1. CASE o \in base
      BY <3>1 DEF Source
    <3>2. CASE o \in Origins(s.code)
      BY <1>1, <3>2 DEF Origins, Codes
    <3>3. CASE o \in Working(s)
      BY <1>1, <1>2, <3>3 DEF Working
    <3> QED
      BY <3>1, <3>2, <3>3 DEF Sources
  <2>7. t \in Parts(o.type)
    BY <2>4, <2>5, <2>6, PartsOfPart
  <2> QED
    BY <2>5, <2>7 DEF Origin
<1> QED
  BY <1>3, <1>4

\* A type is asked for and either known, a vector or the next activation's.
LEMMA RegisterTraced ==
  ASSUME NEW u \in Units, NEW s \in Process, InContext(s, u), Awaits(s), Sound(s),
         NEW t, Asked(s, u, t), t = Wanted(s, Len(s.frames)),
         NEW base \in SUBSET Source, ProcTraced(s, base)
  PROVE  LET r == getOrRegisterType(s, t) IN ProcTraced(r, base) /\ Given(s) \subseteq Given(r)
<1> DEFINE r == getOrRegisterType(s, t)
           next == reserveNextId(s)
           os == Sources(s, base)
           head == [type |-> Head(s.unit), names |-> s.names]
           os2 == os \cup {head}
<1>1. t \in Types /\ Described(s, os) /\ Coded(Given(s), s.code)
  BY DEF Asked, ProcTraced
<1>2. CASE KnownID(s, t) # NoId
  <2> DEFINE id == KnownID(s, t)
  <2>1. id \in Nat /\ r = Answer(s, id) /\ Refers(Given(s), s, t, id)
    BY <1>1, <1>2, KnownIDTyped, KnownRefers DEF getOrRegisterType
  <2> HIDE DEF id
  <2>2. os \subseteq Sources(Answer(s, id), base)
    BY <2>1, AnswerSources
  <2> HIDE DEF os, r
  <2>3. ProcTraced(Answer(s, id), base) /\ Given(Answer(s, id)) = Given(s)
    BY <1>1, <2>1, <2>2, AnswerTraced
  <2> QED
    BY <2>1, <2>3 DEF r
<1>3. CASE KnownID(s, t) = NoId /\ Desc[t].kind = "vector"
  <2> DEFINE q == Registered(next.s, VectorInfo(s, t, next.id))
             a == Answer(q, next.id)
  <2>1. /\ Name(s, t) \notin DOMAIN s.map /\ t \in Composite
        /\ get_builtin_typeid(Desc[t].elem) # UnknownType
    BY <1>1, <1>3, KnownIDTyped
  <2>2. q \in Process /\ next.id \in Nat
    BY <1>3, <2>1, VectorKeeps
  <2>3. next.id # UnknownType
    <3>1. isStructType(next.id)
      BY NextId
    <3> HIDE DEF next
    <3> QED
      BY <2>2, <3>1 DEF isStructType, NumReservedIds, UnknownType
  <2>4. Origin(s, os2, t)
    BY <1>1, <2>1, WantedOrigin
  <2>5. os \subseteq os2
    OBVIOUS
  <2>6. /\ Described(q, os2) /\ Given(s) \subseteq Given(q) /\ <<next.id, Name(s, t)>> \in Given(q)
        /\ q.unit = s.unit /\ q.names = s.names /\ q.frames = s.frames /\ q.code = s.code
    <3> HIDE DEF os, os2
    <3> QED
      BY <1>1, <1>3, <2>1, <2>4, <2>5, VectorDescribed
  <2>7. r = a
    BY <1>3 DEF getOrRegisterType
  <2> HIDE DEF q, next, r
  <2>8. Coded(Given(q), q.code)
    BY <1>1, <2>6, RefersMore
  <2>9. Refers(Given(q), q, Wanted(q, Len(q.frames)), next.id)
    <3>1. Wanted(q, Len(q.frames)) = t /\ Name(q, t) = Name(s, t)
      BY <2>6 DEF Wanted, Name
    <3> QED
      BY <1>3, <2>1, <2>6, <3>1 DEF Refers
  <2>10. os2 \subseteq Sources(a, base)
    <3>1. Sources(q, base) = os
      BY <2>6 DEF Sources, Working
    <3>2. /\ Sources(q, base) \subseteq Sources(a, base)
          /\ [type |-> Head(q.unit), names |-> q.names] \in Sources(a, base)
      BY <2>2, <2>3, AnswerSources
    <3> HIDE DEF a, os
    <3> QED
      BY <2>6, <3>1, <3>2
  <2> HIDE DEF os2
  <2>11. ProcTraced(a, base) /\ Given(a) = Given(q)
    BY <2>2, <2>6, <2>8, <2>9, <2>10, AnswerTraced
  <2> QED
    BY <2>6, <2>7, <2>11 DEF r
<1>4. CASE KnownID(s, t) = NoId /\ Desc[t].kind # "vector"
  <2> DEFINE q == [next.s EXCEPT !.frames = Append(s.frames, [type |-> t, id |-> next.id, ids |-> <<>>])]
  <2>1. t \in Composite
    BY <1>1, <1>4, KnownIDTyped
  <2>2. Origin(s, os2, t)
    BY <1>1, <2>1, WantedOrigin
  <2>3. os \subseteq os2
    OBVIOUS
  <2>4. /\ Described(q, os2) /\ Given(s) \subseteq Given(q)
        /\ q.unit = s.unit /\ q.names = s.names /\ q.code = s.code
        /\ q.frames = Append(s.frames, [type |-> t, id |-> next.id, ids |-> <<>>])
    <3> HIDE DEF os, os2
    <3> QED
      BY <1>1, <2>2, <2>3, OpenDescribed
  <2>5. r = q
    BY <1>4 DEF getOrRegisterType
  <2> HIDE DEF q, r
  <2>6. Coded(Given(q), q.code)
    BY <1>1, <2>4, RefersMore
  <2>7. os2 \subseteq Sources(q, base)
    <3>1. Len(q.frames) = Len(s.frames) + 1 /\ Len(s.frames) \in Nat
      <4> DEFINE e == [type |-> t, id |-> next.id, ids |-> <<>>]
      <4>1. s.frames \in Seq(Frames) /\ q.frames = Append(s.frames, e)
        BY <2>4, ProcessFields
      <4> HIDE DEF e
      <4>2. s.frames \in Seq(Frames \cup {e})
        BY <4>1, SeqMonotonic
      <4> QED
        BY <4>1, <4>2
    <3>2. head \in Working(q) /\ Working(s) \subseteq {head}
      BY <2>4, <3>1 DEF Working
    <3> QED
      BY <2>4, <3>2 DEF Sources
  <2>8. Described(q, Sources(q, base))
    <3> HIDE DEF os2
    <3> QED
      BY <2>4, <2>7, RefersMore DEF Described, Traced
  <2> QED
    BY <2>4, <2>5, <2>6, <2>8 DEF ProcTraced, r
<1> QED
  BY <1>2, <1>3, <1>4

\* The ids that an activation collected are those of its members.
LEMMA StructDescribes ==
  ASSUME NEW u \in Units, NEW s \in Process, InContext(s, u), s.frames # <<>>, ~MembersLeft(s),
         NEW os, Described(s, os)
  PROVE  LET f == Innermost(s) IN
         \E o \in os, t \in Types : Describes(Given(s), o, t, StructInfo(s, f))
<1> DEFINE d == Len(s.frames)
           f == s.frames[d]
           t == f.type
           ms == Desc[t].members
           info == StructInfo(s, f)
<1>1. d \in 1..d /\ f \in Frames /\ Innermost(s) = f
  BY ProcessFields DEF Innermost
<1>2. /\ t \in Needed(u) /\ t \in Types /\ Desc[t].kind = "struct" /\ t \in Composite
      /\ Len(f.ids) <= Len(ms) /\ ~(Len(f.ids) < Len(ms))
  BY <1>1, NeededParts DEF InContext, MemberCount, MembersLeft, Composite
<1>3. PICK o \in os : o.names = s.names /\ t \in Parts(o.type)
  BY <1>1 DEF Described
<1>4. Len(f.ids) = Len(ms) /\ DOMAIN ms = 1..Len(ms)
  <2>1. f.ids \in Seq(Nat)
    BY <1>1 DEF Frames
  <2>2. ms \in Seq([offset : Nat, type : Types, count : Nat])
    BY <1>2, TypesAssumption
  <2> HIDE DEF ms, f
  <2> QED
    BY <1>2, <2>1, <2>2
<1>5. /\ info.name = Name(s, t) /\ info.extent = Desc[t].extent /\ info.flag = "user"
      /\ info.members = [i \in DOMAIN ms |-> [offset |-> ms[i].offset, type |-> f.ids[i], count |-> ms[i].count]]
  BY DEF StructInfo, Info
<1> HIDE DEF info
<1>6. /\ DOMAIN info.members = DOMAIN ms
      /\ \A i \in DOMAIN ms : /\ info.members[i].offset = ms[i].offset
                              /\ info.members[i].count = ms[i].count
                              /\ info.members[i].type = f.ids[i]
  <2> DEFINE l == info.members
             e(i) == [offset |-> ms[i].offset, type |-> f.ids[i], count |-> ms[i].count]
  <2>1. l = [i \in DOMAIN ms |-> e(i)]
    BY <1>5
  <2>2. \A i : e(i).offset = ms[i].offset /\ e(i).count = ms[i].count /\ e(i).type = f.ids[i]
    OBVIOUS
  <2> HIDE DEF f, ms, e, l
  <2>3. DOMAIN l = DOMAIN ms /\ \A i \in DOMAIN ms : l[i] = e(i)
    BY <2>1
  <2> QED
    BY <2>2, <2>3 DEF l
<1>7. SameShape(info, t)
  <2>1. DOMAIN info.members = DOMAIN ms
    BY <1>6
  <2>2. ASSUME NEW i \in DOMAIN ms
        PROVE  info.members[i].offset = ms[i].offset /\ info.members[i].count = ms[i].count
    BY <1>6
  <2> HIDE DEF t
  <2> QED
    BY <1>2, <1>5, <2>1, <2>2 DEF SameShape
<1>8. ASSUME NEW k \in DOMAIN ms PROVE Refers(Given(s), o, MemberType(t, k), info.members[k].type)
  <2>1. Refers(Given(s), s, MemberType(t, k), f.ids[k])
    <3>1. k \in 1..Len(s.frames[d].ids)
      BY <1>4
    <3>2. \A i \in 1..Len(s.frames) : \A j \in 1..Len(s.frames[i].ids) :
            Refers(Given(s), s, MemberType(s.frames[i].type, j), s.frames[i].ids[j])
      BY DEF Described
    <3> QED
      BY <1>1, <3>1, <3>2
  <2>2. info.members[k].type = f.ids[k]
    BY <1>6
  <2>3. \A x, id : Refers(Given(s), s, x, id) => Refers(Given(s), o, x, id)
    BY <1>3, RefersMore
  <2> QED
    BY <2>1, <2>2, <2>3
<1>9. Name(o, t) = Name(s, t)
  BY <1>3 DEF Name
<1>10. Describes(Given(s), o, t, info)
  BY <1>2, <1>3, <1>5, <1>7, <1>8, <1>9 DEF Describes
<1> QED
  BY <1>1, <1>2, <1>10 DEF info

\* A struct is described and its activation returns its id.
LEMMA StructTraced ==
  ASSUME NEW u \in Units, NEW s \in Process, InContext(s, u), Sound(s),
         s.frames # <<>>, ~MembersLeft(s), NEW base, ProcTraced(s, base)
  PROVE  LET f == Innermost(s)
             popped == [s EXCEPT !.frames = SubSeq(s.frames, 1, Len(s.frames) - 1)]
             r == Answer(Registered(popped, StructInfo(s, f)), f.id)
         IN  ProcTraced(r, base) /\ Given(s) \subseteq Given(r)
<1> DEFINE d == Len(s.frames)
           f == Innermost(s)
           fs == SubSeq(s.frames, 1, d - 1)
           q == [s EXCEPT !.frames = fs]
           info == StructInfo(s, f)
           r == Registered(q, info)
           a == Answer(r, f.id)
           os == Sources(s, base)
           n == Len(s.db)
<1>1. /\ s.frames \in Seq(Frames) /\ d \in Nat /\ d > 0 /\ d \in 1..d /\ f = s.frames[d]
      /\ n \in Nat /\ DOMAIN s.db = 1..n
  BY ProcessFields DEF Innermost
<1>2. f \in Frames /\ info \in Infos /\ info.id = f.id /\ info.name = Name(s, f.type) /\ f.id \in Nat
  <2>1. f \in Frames /\ info \in Infos /\ info.id = f.id /\ info.name = Name(s, f.type)
    BY StructInfoTyped
  <2> QED
    BY <2>1 DEF Frames
<1>3. \E o \in os, t \in Types : Describes(Given(s), o, t, info)
  BY StructDescribes DEF ProcTraced
<1> HIDE DEF info
<1>4. /\ fs \in Seq(Frames) /\ Len(fs) = d - 1
      /\ \A i \in 1..(d - 1) : i \in 1..d /\ fs[i] = s.frames[i]
  BY <1>1
<1> HIDE DEF fs
<1>5. /\ q \in Process /\ q.frames = fs /\ q.unit = s.unit /\ q.names = s.names
      /\ q.db = s.db /\ q.map = s.map /\ q.code = s.code
  BY <1>4 DEF Process
<1> HIDE DEF q
<1>6. /\ f.id \in IdsTo(s.count) \ Ids(s.db) /\ Name(s, f.type) \notin NamesIn(s.db)
      /\ f.type = Wanted(s, d - 1) /\ s.count \in Nat
      /\ Desc[f.type].kind = "struct" /\ f.type \in Types
  BY <1>1, ProcessFields, NeededParts DEF Sound, Described, ProcTraced, InContext
<1>7. isStructType(f.id) /\ f.id # UnknownType
  <2> HIDE DEF f
  <2>1. f.id \in NumReservedIds..(NumReservedIds + s.count - 1)
    BY <1>6 DEF IdsTo
  <2>2. f.id >= 256
    BY <1>6, <2>1 DEF NumReservedIds
  <2> QED
    BY <1>2, <2>2 DEF isStructType, NumReservedIds, UnknownType
<1>8. /\ r \in Process /\ Len(r.db) = n + 1 /\ r.db[n + 1] = info /\ \A i \in 1..n : r.db[i] = s.db[i]
      /\ r.unit = s.unit /\ r.names = s.names /\ r.frames = fs /\ r.code = s.code
  <2>1. /\ Distinct(q.db) /\ DOMAIN q.map = NamesIn(q.db)
        /\ \A i \in 1..Len(q.db) : q.map[q.db[i].name] = q.db[i].id
        /\ info.id \notin Ids(q.db) /\ info.name \notin NamesIn(q.db) /\ isStructType(info.id)
    BY <1>2, <1>5, <1>6, <1>7 DEF Sound
  <2>2. /\ Len(r.db) = Len(q.db) + 1 /\ r.db[Len(q.db) + 1] = info
        /\ \A i \in 1..Len(q.db) : r.db[i] = q.db[i]
    BY <1>2, <1>5, <2>1, RegisteredSound
  <2>3. r \in Process /\ r.unit = q.unit /\ r.names = q.names /\ r.frames = q.frames /\ r.code = q.code
    BY <1>2, <1>5, RegisteredKeeps
  <2> HIDE DEF r
  <2> QED
    BY <1>5, <2>2, <2>3
<1> HIDE DEF r
<1>9. \A x : Name(r, x) = Name(s, x)
  BY <1>8 DEF Name
<1>10. Given(s) \subseteq Given(r) /\ <<f.id, Name(r, f.type)>> \in Given(r)
  <2>1. n + 1 \in 1..(n + 1) /\ \A i \in 1..n : i \in 1..(n + 1)
    BY <1>1
  <2>2. <<f.id, Name(s, f.type)>> \in Pairs(r.db)
    BY <1>2, <1>8, <2>1 DEF Pairs
  <2>3. Pairs(s.db) \subseteq Pairs(r.db)
    BY <1>8, <2>1 DEF Pairs
  <2>4. ASSUME NEW i \in 1..d
        PROVE  <<s.frames[i].id, Name(s, s.frames[i].type)>> \in Given(r)
    <3>1. CASE i = d
      BY <1>1, <2>2, <3>1 DEF Given
    <3>2. CASE i # d
      <4>1. i \in 1..(d - 1)
        BY <1>1, <3>2
      <4>2. r.frames[i] = s.frames[i] /\ i \in 1..Len(r.frames)
        BY <1>4, <1>8, <4>1
      <4> QED
        BY <1>9, <4>2 DEF Given, Opened
    <3> QED
      BY <3>1, <3>2
  <2> QED
    BY <1>9, <2>2, <2>3, <2>4 DEF Given, Opened
<1>11. ASSUME NEW i \in 1..(n + 1)
       PROVE  \E o \in os, x \in Types : Describes(Given(r), o, x, r.db[i])
  <2>1. CASE i \in 1..n
    <3>1. PICK o \in os, x \in Types : Describes(Given(s), o, x, s.db[i])
      BY <2>1 DEF ProcTraced, Described, Traced
    <3>2. Describes(Given(r), o, x, s.db[i])
      BY <1>10, <3>1, RefersMore
    <3> QED
      BY <1>8, <2>1, <3>2
  <2>2. CASE i = n + 1
    <3>1. PICK o \in os, x \in Types : Describes(Given(s), o, x, info)
      BY <1>3
    <3>2. Describes(Given(r), o, x, info)
      BY <1>10, <3>1, RefersMore
    <3> QED
      BY <1>8, <2>2, <3>2
  <2> QED
    BY <1>1, <2>1, <2>2
<1>12. ASSUME NEW i \in 1..(d - 1)
       PROVE  /\ fs[i].type = Wanted(r, i - 1)
              /\ \E o \in os : o.names = r.names /\ fs[i].type \in Parts(o.type)
              /\ \A k \in 1..Len(fs[i].ids) :
                   Refers(Given(r), r, MemberType(fs[i].type, k), fs[i].ids[k])
  <2>1. i \in 1..d /\ fs[i] = s.frames[i]
    BY <1>4
  <2>2. Wanted(r, i - 1) = Wanted(s, i - 1)
    <3>1. CASE i = 1
      BY <1>8, <3>1 DEF Wanted
    <3>2. CASE i # 1
      <4>1. i - 1 \in 1..(d - 1) /\ i - 1 # 0
        BY <1>1, <3>2
      <4> QED
        BY <1>4, <1>8, <4>1 DEF Wanted
    <3> QED
      BY <3>1, <3>2
  <2>3. \A x, id : Refers(Given(s), s, x, id) => Refers(Given(r), r, x, id)
    BY <1>8, <1>10, RefersMore
  <2> QED
    BY <1>8, <2>1, <2>2, <2>3 DEF ProcTraced, Described
<1>13. Described(r, os)
  BY <1>4, <1>8, <1>11, <1>12 DEF Described, Traced
<1>14. Coded(Given(r), r.code)
  BY <1>8, <1>10, RefersMore DEF ProcTraced
<1>15. Refers(Given(r), r, Wanted(r, Len(r.frames)), f.id)
  <2>1. Wanted(r, d - 1) = Wanted(s, d - 1)
    <3>1. CASE d = 1
      BY <1>8, <3>1 DEF Wanted
    <3>2. CASE d # 1
      <4>1. d - 1 \in 1..(d - 1) /\ d - 1 # 0
        <5>1. d \in Nat /\ d > 0
          BY <1>1
        <5> HIDE DEF d
        <5> QED
          BY <3>2, <5>1
      <4> QED
        BY <1>4, <1>8, <4>1 DEF Wanted
    <3> QED
      BY <3>1, <3>2
  <2>2. Wanted(r, Len(r.frames)) = f.type
    BY <1>4, <1>6, <1>8, <2>1
  <2> QED
    BY <1>6, <1>10, <2>2 DEF Refers, Composite
<1>16. os \subseteq Sources(a, base)
  <2>1. /\ Sources(r, base) \subseteq Sources(a, base)
        /\ [type |-> Head(r.unit), names |-> r.names] \in Sources(a, base)
    BY <1>2, <1>7, <1>8, AnswerSources
  <2>2. Working(s) \subseteq {[type |-> Head(r.unit), names |-> r.names]}
    BY <1>8 DEF Working
  <2>3. base \cup Origins(s.code) \subseteq Sources(r, base)
    BY <1>8 DEF Sources
  <2> HIDE DEF a
  <2> QED
    BY <2>1, <2>2, <2>3 DEF Sources
<1> HIDE DEF f, os
<1>17. ProcTraced(a, base) /\ Given(a) = Given(r)
  BY <1>2, <1>8, <1>13, <1>14, <1>15, <1>16, AnswerTraced
<1> QED
  BY <1>10, <1>17 DEF a, r, q, fs, d, info, f

\* A step of a registration keeps track of what it describes.
LEMMA RegistrationTraces ==
  ASSUME TypeInv, NEW p \in Procs, AskType(p) \/ AskMember(p) \/ EndStruct(p), Sound(proc[p]),
         NEW base \in SUBSET Source, ProcTraced(proc[p], base)
  PROVE  ProcTraced(proc'[p], base) /\ Given(proc[p]) \subseteq Given(proc'[p])
<1> DEFINE s == proc[p]
<1>0. proc \in [Procs -> Process] /\ s \in Process /\ s.pc = "run"
  BY DEF TypeInv, AskType, AskMember, EndStruct, Running
<1>1. PICK u \in Units : InContext(s, u)
  BY <1>0 DEF TypeInv, ProcOK
<1> HIDE DEF s
<1>2. \A r : proc' = [proc EXCEPT ![p] = r] => proc'[p] = r
  BY <1>0
<1>3. CASE AskType(p)
  <2> DEFINE t == Head(s.unit)
             r == getOrRegisterType(s, t)
  <2>1. /\ s.frames = <<>> /\ s.unit # <<>> /\ proc' = [proc EXCEPT ![p] = r]
    BY <1>3 DEF AskType, s
  <2>2. Asked(s, u, t) /\ Awaits(s)
    BY <1>0, <1>1, <2>1, TypeAsked
  <2>3. t = Wanted(s, Len(s.frames))
    BY <2>1 DEF Wanted
  <2> HIDE DEF t
  <2>4. ProcTraced(r, base) /\ Given(s) \subseteq Given(r)
    BY <1>0, <1>1, <2>2, <2>3, RegisterTraced DEF s
  <2> HIDE DEF r
  <2> QED
    BY <1>2, <2>1, <2>4 DEF s
<1>4. CASE AskMember(p)
  <2> DEFINE f == Innermost(s)
             t == Desc[f.type].members[Len(f.ids) + 1].type
             loop == Desc[t].kind = "struct" /\ Name(s, t) = Name(s, f.type)
             r == IF loop THEN Answer(s, f.id) ELSE getOrRegisterType(s, t)
  <2>1. /\ s.frames # <<>> /\ MembersLeft(s) /\ proc' = [proc EXCEPT ![p] = r]
    BY <1>4 DEF AskMember, s
  <2>2. Awaits(s) /\ t \in Types /\ f.id \in Nat /\ f.type \in Types /\ Desc[f.type].kind = "struct"
        /\ (~loop => Asked(s, u, t))
    BY <1>0, <1>1, <2>1, MemberAsked
  <2>3. s.frames \in Seq(Frames) /\ Len(s.frames) \in 1..Len(s.frames) /\ f = s.frames[Len(s.frames)]
    <3>1. s.frames \in Seq(Frames)
      BY <1>0, ProcessFields
    <3>2. Len(s.frames) \in 1..Len(s.frames)
      BY <2>1, <3>1
    <3> QED
      BY <3>1, <3>2 DEF Innermost
  <2>4. t = Wanted(s, Len(s.frames))
    BY <2>3 DEF Wanted, MemberType
  <2> HIDE DEF f, t
  <2>5. CASE loop
    <3>1. <<f.id, Name(s, f.type)>> \in Given(s)
      BY <2>3 DEF Given, Opened
    <3>2. Refers(Given(s), s, t, f.id)
      BY <2>2, <2>5, <3>1 DEF Refers, Composite
    <3>3. Sources(s, base) \subseteq Sources(Answer(s, f.id), base)
      BY <1>0, <2>2, AnswerSources
    <3>4. ProcTraced(Answer(s, f.id), base) /\ Given(Answer(s, f.id)) = Given(s)
      BY <1>0, <2>2, <2>4, <3>2, <3>3, AnswerTraced DEF ProcTraced, s
    <3>5. r = Answer(s, f.id)
      BY <2>5
    <3> HIDE DEF r
    <3> QED
      BY <1>2, <2>1, <3>4, <3>5 DEF s
  <2>6. CASE ~loop
    <3> DEFINE a == getOrRegisterType(s, t)
    <3>1. ProcTraced(a, base) /\ Given(s) \subseteq Given(a)
      BY <1>0, <1>1, <2>2, <2>4, <2>6, RegisterTraced DEF s
    <3>2. r = a
      BY <2>6
    <3> HIDE DEF r, a
    <3> QED
      BY <1>2, <2>1, <3>1, <3>2 DEF s
  <2> QED
    BY <2>5, <2>6
<1>5. CASE EndStruct(p)
  <2> DEFINE f == Innermost(s)
             popped == [s EXCEPT !.frames = SubSeq(s.frames, 1, Len(s.frames) - 1)]
             r == Answer(Registered(popped, StructInfo(s, f)), f.id)
  <2>1. /\ s.frames # <<>> /\ ~MembersLeft(s) /\ proc' = [proc EXCEPT ![p] = r]
    BY <1>5 DEF EndStruct, s
  <2>2. ProcTraced(r, base) /\ Given(s) \subseteq Given(r)
    BY <1>0, <1>1, <2>1, StructTraced DEF s
  <2> HIDE DEF r
  <2> QED
    BY <1>2, <2>1, <2>2 DEF s
<1> QED
  BY <1>3, <1>4, <1>5

-----------------------------------------------------------------------------
(* The ids in object files and in the type file.                           *)

\* In a serial build without failures the file describes what the finished object
\* files asked for, and so does a running process, together with its own types.
TraceInv ==
  /\ "torn" \notin causes =>
       /\ Traced(Pairs(file.infos), file.infos, Source)
       /\ \A p \in Procs : ProcTraced(proc[p], Source)
  /\ causes = {} =>
       /\ \A p, q \in Procs : Active(p) /\ Active(q) => p = q
       /\ ~file.mixed
       /\ ~file.torn => /\ Traced(Pairs(file.infos), file.infos, Origins(objects))
                        /\ Coded(Pairs(file.infos), objects)
       /\ \A p \in Procs :
            Active(p) => ProcTraced(proc[p], Origins(objects)) /\ Coded(Given(proc[p]), objects)

\* Once nothing is open, what a process describes is all in its database.
LEMMA FinishedTraced ==
  ASSUME NEW s \in Process, s.frames = <<>>, NEW base, ProcTraced(s, base)
  PROVE  /\ Given(s) = Pairs(s.db)
         /\ Traced(Pairs(s.db), s.db, base \cup Origins(s.code))
         /\ base = Source => Traced(Pairs(s.db), s.db, Source)
<1>1. Working(s) = {} /\ Opened(s) = {}
  BY DEF Working, Opened
<1>2. s.code \in SUBSET Codes
  BY ProcessFields
<1>3. Origins(s.code) \subseteq Source
  BY <1>2 DEF Origins, Source, Codes
<1>4. Given(s) = Pairs(s.db) /\ Sources(s, base) = base \cup Origins(s.code)
  BY <1>1 DEF Given, Sources
<1>5. base = Source => Sources(s, base) = Source
  BY <1>3, <1>4
<1> QED
  BY <1>4, <1>5 DEF ProcTraced, Described

\* A process that starts has traced what it read.
LEMMA LoadedTraced ==
  ASSUME NEW u \in Units, NEW list \in Seq(Infos), NEW base, Traced(Pairs(list), list, base)
  PROVE  LET r == Loaded(list, u) IN ProcTraced(r, base) /\ Given(r) = Pairs(list)
<1> DEFINE r == Loaded(list, u)
<1>1. r.db = list /\ r.frames = <<>> /\ r.code = {} /\ r.names = u.names
  BY DEF Loaded, NewProcess
<1> HIDE DEF r
<1>2. Given(r) = Pairs(list) /\ Sources(r, base) = base
  BY <1>1 DEF Given, Opened, Sources, Working, Origins
<1>3. Described(r, base) /\ Coded(Given(r), r.code)
  BY <1>1, <1>2 DEF Described, Coded
<1> QED
  BY <1>2, <1>3 DEF ProcTraced, r

LEMMA TraceInit == Init => TraceInv
<1> SUFFICES ASSUME Init PROVE TraceInv
  OBVIOUS
<1>1. /\ NewProcess.db = <<>> /\ NewProcess.frames = <<>> /\ NewProcess.code = {}
      /\ NewProcess.pc = "idle"
  BY DEF NewProcess
<1>2. ProcTraced(NewProcess, Source)
  BY <1>1 DEF ProcTraced, Described, Traced, Coded
<1>3. file.infos = <<>> /\ ~file.mixed /\ objects = {}
  BY DEF Init, NoFile
<1>4. \A p \in Procs : proc[p] = NewProcess /\ ~Active(p)
  BY <1>1 DEF Init, Active
<1> QED
  BY <1>2, <1>3, <1>4 DEF TraceInv, Traced, Coded

\* A process that only changes its pc keeps its trace.
LEMMA PcTraced ==
  ASSUME TypeInv, NEW p \in Procs, NEW pc, proc' = [proc EXCEPT ![p].pc = pc]
  PROVE  /\ \A q \in Procs : q # p => proc'[q] = proc[q]
         /\ proc'[p].pc = pc
         /\ \A base : ProcTraced(proc[p], base) => ProcTraced(proc'[p], base)
         /\ Given(proc'[p]) = Given(proc[p])
<1> DEFINE s == proc[p]
           r == [s EXCEPT !.pc = pc]
<1>1. proc \in [Procs -> Process] /\ s \in Process
  BY DEF TypeInv
<1>2. proc'[p] = r /\ \A q \in Procs : q # p => proc'[q] = proc[q]
  BY <1>1
<1> HIDE DEF s
<1>3. /\ r.pc = pc /\ r.unit = s.unit /\ r.names = s.names /\ r.db = s.db
      /\ r.frames = s.frames /\ r.code = s.code
  BY <1>1 DEF Process
<1> HIDE DEF r
<1>4. \A base : ProcTraced(s, base) => ProcTraced(r, base)
  BY <1>3, TracedSame
<1>5. Given(r) = Given(s)
  <2>1. \A x : Name(r, x) = Name(s, x)
    BY <1>3 DEF Name
  <2> QED
    BY <1>3, <2>1 DEF Given, Opened
<1> QED
  BY <1>2, <1>3, <1>4, <1>5 DEF s

LEMMA TraceNext == TypeInv /\ SoundInv /\ TraceInv /\ [Next]_vars => TraceInv'
<1> SUFFICES ASSUME TypeInv, SoundInv, TraceInv, [Next]_vars PROVE TraceInv'
  OBVIOUS
<1>0. /\ proc \in [Procs -> Process] /\ \A p \in Procs : ProcOK(proc[p]) /\ proc[p] \in Process
      /\ file \in [infos : Seq(Infos), torn : BOOLEAN, mixed : BOOLEAN, writers : SUBSET Procs]
      /\ file.infos \in Seq(Infos)
      /\ file.writers = {q \in Procs : proc[q].pc = "write"}
      /\ objects \subseteq Codes /\ Origins(objects) \in SUBSET Source
  BY DEF TypeInv, ProcOK, Origins, Source, Codes
<1>1. ASSUME NEW p \in Procs, doInitialization(p) PROVE TraceInv'
  <2>1. PICK u \in Units, list \in Loads(file) : proc' = [proc EXCEPT ![p] = Loaded(list, u)]
    BY <1>1 DEF doInitialization
  <2> DEFINE r == Loaded(list, u)
  <2>2. list \in Seq(Infos) /\ (~file.torn => list = file.infos)
    BY <1>0, LoadsTyped
  <2>3. \A base : Traced(Pairs(list), list, base) => ProcTraced(r, base) /\ Given(r) = Pairs(list)
    BY <2>2, LoadedTraced
  <2>4. /\ proc[p].pc = "idle" /\ UNCHANGED <<file, objects, crashes>>
        /\ causes \subseteq causes' /\ (file.torn => "torn" \in causes')
        /\ (\E q \in Procs : Active(q)) => "overlap" \in causes'
    BY <1>1 DEF doInitialization
  <2> HIDE DEF r
  <2>5. proc'[p] = r /\ \A q \in Procs : q # p => proc'[q] = proc[q]
    BY <1>0, <2>1 DEF r
  <2>6. ASSUME "torn" \notin causes'
        PROVE  /\ Traced(Pairs(file'.infos), file'.infos, Source)
               /\ \A q \in Procs : ProcTraced(proc'[q], Source)
    BY <2>2, <2>3, <2>4, <2>5, <2>6 DEF TraceInv
  <2>7. ASSUME causes' = {}
        PROVE  /\ \A q, q2 \in Procs : Active(q)' /\ Active(q2)' => q = q2
               /\ ~file'.mixed
               /\ ~file'.torn => /\ Traced(Pairs(file'.infos), file'.infos, Origins(objects'))
                                 /\ Coded(Pairs(file'.infos), objects')
               /\ \A q \in Procs :
                    Active(q)' => ProcTraced(proc'[q], Origins(objects')) /\ Coded(Given(proc'[q]), objects')
    <3>1. causes = {} /\ ~file.torn /\ \A q \in Procs : ~Active(q)
      BY <2>4, <2>7
    <3>2. \A q \in Procs : Active(q)' => q = p
      BY <2>5, <3>1 DEF Active
    <3>3. /\ ~file.mixed
          /\ Traced(Pairs(file.infos), file.infos, Origins(objects)) /\ Coded(Pairs(file.infos), objects)
      BY <3>1 DEF TraceInv
    <3>4. ProcTraced(r, Origins(objects)) /\ Coded(Given(r), objects)
      BY <2>2, <2>3, <3>1, <3>3
    <3> QED
      BY <2>4, <2>5, <3>2, <3>3, <3>4
  <2> QED
    BY <2>6, <2>7 DEF TraceInv
<1>2. ASSUME NEW p \in Procs, AskType(p) \/ AskMember(p) \/ EndStruct(p) PROVE TraceInv'
  <2>1. PICK r : /\ proc' = [proc EXCEPT ![p] = r] /\ proc[p].pc = "run" /\ r.pc = "run"
                 /\ UNCHANGED <<file, objects, causes, crashes>>
    BY <1>2, RegistrationKeeps
  <2>2. proc'[p].pc = "run" /\ \A q \in Procs : q # p => proc'[q] = proc[q]
    BY <1>0, <2>1
  <2>3. \A q \in Procs : Active(q)' <=> Active(q)
    BY <2>1, <2>2 DEF Active
  <2>4. ASSUME "torn" \notin causes
        PROVE  /\ \A base \in SUBSET Source : ProcTraced(proc[p], base) => ProcTraced(proc'[p], base)
               /\ ProcTraced(proc[p], Source) /\ Given(proc[p]) \subseteq Given(proc'[p])
    <3>1. Sound(proc[p]) /\ ProcTraced(proc[p], Source)
      BY <2>4 DEF SoundInv, TraceInv
    <3>2. \A base \in SUBSET Source :
            ProcTraced(proc[p], base) =>
              ProcTraced(proc'[p], base) /\ Given(proc[p]) \subseteq Given(proc'[p])
      BY <1>2, <3>1, RegistrationTraces
    <3> QED
      BY <3>1, <3>2
  <2>5. ASSUME "torn" \notin causes
        PROVE  /\ Traced(Pairs(file.infos), file.infos, Source)
               /\ \A q \in Procs : ProcTraced(proc'[q], Source)
    BY <2>2, <2>4, <2>5 DEF TraceInv
  <2>6. ASSUME causes = {}, NEW q \in Procs, Active(q)
        PROVE  ProcTraced(proc'[q], Origins(objects)) /\ Coded(Given(proc'[q]), objects)
    <3>1. ProcTraced(proc[q], Origins(objects)) /\ Coded(Given(proc[q]), objects)
      BY <2>6 DEF TraceInv
    <3>2. CASE q = p
      BY <1>0, <2>4, <2>6, <3>1, <3>2, RefersMore
    <3>3. CASE q # p
      BY <2>2, <3>1, <3>3
    <3> QED
      BY <3>2, <3>3
  <2> QED
    BY <2>1, <2>3, <2>5, <2>6 DEF TraceInv
<1>3. ASSUME NEW p \in Procs, NEW pc \in {"write", "done", "crashed"}, Active(p),
             proc' = [proc EXCEPT ![p].pc = pc], causes \subseteq causes',
             pc = "done" /\ causes' = {} => objects' = objects \cup proc[p].code /\ ~file'.torn,
             pc # "done" => UNCHANGED objects,
             "torn" \notin causes => Traced(Pairs(file'.infos), file'.infos, Source),
             causes = {} => ~file'.mixed,
             causes' = {} /\ ~file'.torn => /\ Traced(Pairs(file'.infos), file'.infos, Origins(objects'))
                                            /\ Coded(Pairs(file'.infos), objects')
      PROVE  TraceInv'
  <2>1. /\ \A q \in Procs : q # p => proc'[q] = proc[q]
        /\ proc'[p].pc = pc
        /\ \A base : ProcTraced(proc[p], base) => ProcTraced(proc'[p], base)
        /\ Given(proc'[p]) = Given(proc[p])
    BY <1>3, PcTraced
  <2>2. \A q \in Procs : Active(q)' => Active(q)
    BY <1>3, <2>1 DEF Active
  <2>3. ASSUME "torn" \notin causes'
        PROVE  /\ Traced(Pairs(file'.infos), file'.infos, Source)
               /\ \A q \in Procs : ProcTraced(proc'[q], Source)
    BY <1>3, <2>1, <2>3 DEF TraceInv
  <2>4. ASSUME causes' = {}, NEW q \in Procs, Active(q)'
        PROVE  ProcTraced(proc'[q], Origins(objects')) /\ Coded(Given(proc'[q]), objects')
    <3>1. causes = {} /\ q = p
      BY <1>3, <2>2, <2>4 DEF TraceInv
    <3>2. pc = "write" /\ objects' = objects
      BY <1>3, <2>1, <2>4, <3>1 DEF Active
    <3>3. ProcTraced(proc[p], Origins(objects)) /\ Coded(Given(proc[p]), objects)
      BY <1>3, <3>1 DEF TraceInv
    <3> QED
      BY <2>1, <3>1, <3>2, <3>3
  <2>5. ASSUME causes' = {}
        PROVE  (\A q, q2 \in Procs : Active(q)' /\ Active(q2)' => q = q2) /\ ~file'.mixed
    <3>1. causes = {}
      BY <1>3, <2>5
    <3> QED
      BY <1>3, <2>2, <3>1 DEF TraceInv
  <2> QED
    BY <1>3, <2>3, <2>4, <2>5 DEF TraceInv
<1>4. ASSUME NEW p \in Procs, OpenStore(p) PROVE TraceInv'
  <2>1. /\ proc[p].pc = "run" /\ proc[p].frames = <<>> /\ proc' = [proc EXCEPT ![p].pc = "write"]
        /\ file' = [infos |-> proc[p].db, torn |-> TRUE,
                    mixed |-> file.writers # {}, writers |-> file.writers \cup {p}]
        /\ UNCHANGED <<objects, causes, crashes>>
    BY <1>4 DEF OpenStore, Finished, Running
  <2>2. file'.infos = proc[p].db /\ file'.torn /\ (file.writers = {} => ~file'.mixed)
    BY <2>1
  <2>3. "torn" \notin causes => Traced(Pairs(file'.infos), file'.infos, Source)
    BY <1>0, <2>1, <2>2, FinishedTraced DEF TraceInv
  <2>4. ASSUME causes = {} PROVE file.writers = {}
    <3>1. \A q \in Procs : proc[q].pc = "write" => q = p
      BY <2>1, <2>4 DEF TraceInv, Active
    <3> QED
      BY <1>0, <2>1, <3>1
  <2>5. Active(p)
    BY <2>1 DEF Active
  <2> QED
    BY <1>3, <2>1, <2>2, <2>3, <2>4, <2>5
<1>5. ASSUME NEW p \in Procs, CloseStore(p) PROVE TraceInv'
  <2>1. PICK list \in {proc[p].db} \cup {l \in {file.infos} : file.mixed},
             torn \in {file.writers # {p}} \cup {file.mixed} :
          file' = [file EXCEPT !.infos = list, !.torn = torn,
                               !.mixed = file.mixed /\ file.writers # {p},
                               !.writers = file.writers \ {p}]
    BY <1>5 DEF CloseStore
  <2>2. /\ proc[p].pc = "write" /\ proc' = [proc EXCEPT ![p].pc = "done"]
        /\ objects' = objects \cup proc[p].code /\ UNCHANGED <<causes, crashes>>
    BY <1>5 DEF CloseStore
  <2>3. proc[p].frames = <<>> /\ Active(p)
    BY <1>0, <2>2 DEF ProcOK, Active
  <2>4. file'.infos = list /\ file'.torn = torn /\ (~file.mixed => ~file'.mixed)
    <3> DEFINE mixed == file.mixed /\ file.writers # {p}
               writers == file.writers \ {p}
    <3>1. file' = [file EXCEPT !.infos = list, !.torn = torn, !.mixed = mixed, !.writers = writers]
      BY <2>1
    <3>2. ~file.mixed => ~mixed
      OBVIOUS
    <3> HIDE DEF mixed, writers
    <3> QED
      BY <1>0, <3>1, <3>2
  <2>5. "torn" \notin causes => Traced(Pairs(file'.infos), file'.infos, Source)
    <3>1. ASSUME "torn" \notin causes, list = proc[p].db
          PROVE  Traced(Pairs(list), list, Source)
      <4>1. ProcTraced(proc[p], Source)
        BY <3>1 DEF TraceInv
      <4> QED
        BY <1>0, <2>3, <3>1, <4>1, FinishedTraced
    <3>2. ASSUME "torn" \notin causes, list = file.infos
          PROVE  Traced(Pairs(list), list, Source)
      BY <3>2 DEF TraceInv
    <3>3. list = proc[p].db \/ list = file.infos
      OBVIOUS
    <3> QED
      BY <2>4, <3>1, <3>2, <3>3
  <2>6. ASSUME causes = {}
        PROVE  /\ ~file'.mixed /\ ~file'.torn
               /\ Traced(Pairs(file'.infos), file'.infos, Origins(objects'))
               /\ Coded(Pairs(file'.infos), objects')
    <3>1. ~file.mixed /\ \A q \in Procs : proc[q].pc = "write" => q = p
      BY <2>3, <2>6 DEF TraceInv, Active
    <3>2. file.writers = {p}
      BY <1>0, <2>2, <3>1
    <3>3. list = proc[p].db /\ ~torn
      BY <3>1, <3>2
    <3>4. ProcTraced(proc[p], Origins(objects)) /\ Coded(Given(proc[p]), objects)
      BY <2>3, <2>6 DEF TraceInv
    <3>5. /\ Given(proc[p]) = Pairs(list)
          /\ Traced(Pairs(list), list, Origins(objects) \cup Origins(proc[p].code))
      BY <1>0, <2>3, <3>3, <3>4, FinishedTraced
    <3>6. Origins(objects') = Origins(objects) \cup Origins(proc[p].code)
      BY <2>2 DEF Origins
    <3>7. Coded(Pairs(list), proc[p].code) /\ Coded(Pairs(list), objects)
      BY <3>4, <3>5 DEF ProcTraced
    <3>8. Coded(Pairs(list), objects')
      BY <2>2, <3>7 DEF Coded
    <3> QED
      BY <2>4, <3>1, <3>3, <3>5, <3>6, <3>8
  <2> QED
    BY <1>3, <2>2, <2>3, <2>5, <2>6
<1>6. ASSUME NEW p \in Procs, StoreFails(p) PROVE TraceInv'
  <2>1. /\ Active(p) /\ proc' = [proc EXCEPT ![p].pc = "done"]
        /\ causes' = causes \cup {"unstored"} /\ UNCHANGED <<file, crashes>>
    BY <1>6 DEF StoreFails, Finished, Running, Active
  <2>2. causes' # {} /\ causes \subseteq causes'
    BY <2>1
  <2>3. /\ "torn" \notin causes => Traced(Pairs(file'.infos), file'.infos, Source)
        /\ causes = {} => ~file'.mixed
    BY <2>1 DEF TraceInv
  <2> QED
    BY <1>3, <2>1, <2>2, <2>3
<1>7. ASSUME NEW p \in Procs, Crash(p) PROVE TraceInv'
  <2>1. /\ Active(p) /\ proc' = [proc EXCEPT ![p].pc = "crashed"]
        /\ file' = [file EXCEPT !.writers = file.writers \ {p}]
        /\ UNCHANGED <<objects, causes>>
    BY <1>7 DEF Crash
  <2>2. file'.infos = file.infos /\ file'.torn = file.torn /\ file'.mixed = file.mixed
    <3> DEFINE w == file.writers \ {p}
    <3>1. file' = [file EXCEPT !.writers = w]
      BY <2>1
    <3> HIDE DEF w
    <3> QED
      BY <1>0, <3>1
  <2>3. /\ "torn" \notin causes => Traced(Pairs(file'.infos), file'.infos, Source)
        /\ causes = {} => ~file'.mixed
        /\ causes' = {} /\ ~file'.torn => /\ Traced(Pairs(file'.infos), file'.infos, Origins(objects'))
                                          /\ Coded(Pairs(file'.infos), objects')
    BY <2>1, <2>2 DEF TraceInv
  <2> QED
    BY <1>3, <2>1, <2>3
<1>8. CASE UNCHANGED vars
  BY <1>8 DEF vars, TraceInv, Active
<1> QED
  BY <1>1, <1>2, <1>4, <1>5, <1>6, <1>7, <1>8 DEF Next, Compile

LEMMA TraceHolds == Spec => [](TypeInv /\ SoundInv /\ TraceInv)
<1>1. Init => TypeInv /\ SoundInv /\ TraceInv
  BY InvInit, TraceInit
<1>2. (TypeInv /\ SoundInv /\ TraceInv) /\ [Next]_vars => (TypeInv /\ SoundInv /\ TraceInv)'
  BY InvNext, TraceNext
<1> QED
  BY <1>1, <1>2, PTL DEF Spec

\* A pair stands for one info of the list.
LEMMA PairFound ==
  ASSUME NEW list \in Seq(Infos), Distinct(list), NEW id, NEW n, <<id, n>> \in Pairs(list)
  PROVE  \E i \in 1..Len(list) :
           list[i].id = id /\ list[i].name = n /\ id \in Ids(list) /\ InfoOf(list, id) = list[i]
<1>1. PICK i \in 1..Len(list) : <<list[i].id, list[i].name>> = <<id, n>>
  BY DEF Pairs
<1>2. list[i].id \in Ids(list) /\ InfoOf(list, list[i].id) = list[i]
  BY InfoFound
<1> QED
  BY <1>1, <1>2

\* The shape of an info is that of every type with its description.
LEMMA ShapeOf ==
  ASSUME NEW info, NEW t, NEW x, SameShape(info, t), Desc[x] = Desc[t]
  PROVE  SameShape(info, x)
  BY DEF SameShape

\* The README's "The runtime library correlates the allocation with the respective
\* type (and layout) during execution": in every serial build without failures in
\* which no two types share a name, the type file has, for the id that an object
\* file passes to the runtime, the layout of the type that was allocated.
THEOREM ObjectsResolve == Spec => []ObjectIdsResolve
<1>1. TypeInv /\ SoundInv /\ TraceInv => ObjectIdsResolve
  <2> SUFFICES ASSUME TypeInv, SoundInv, TraceInv, causes = {}, ~SameName, ~file.torn, NEW o \in objects
               PROVE  /\ o.id # UnknownType /\ Fits(file.infos, o.type, o.id)
                      /\ Desc[o.type].kind = "struct" =>
                           \A i \in DOMAIN Desc[o.type].members :
                             Fits(file.infos, Desc[o.type].members[i].type,
                                  InfoOf(file.infos, o.id).members[i].type)
    BY DEF ObjectIdsResolve
  <2> DEFINE list == file.infos
             given == Pairs(list)
  <2>1. /\ list \in Seq(Infos) /\ Distinct(list)
        /\ Traced(given, list, Origins(objects)) /\ Coded(given, objects)
        /\ \A y \in objects : y.type \in Types
    <3>1. objects \subseteq Codes
      BY DEF TypeInv
    <3> QED
      BY <3>1 DEF TypeInv, SoundInv, FileOK, TraceInv, Codes
  <2>2. o.type \in Types /\ o.id # UnknownType /\ Refers(given, o, o.type, o.id)
    BY <2>1 DEF Coded
  <2> HIDE DEF list
  <2>3. ASSUME NEW z \in objects, NEW t \in Parts(z.type) \cap Composite, NEW id,
               <<id, Name(z, t)>> \in given
        PROVE  /\ id \in Ids(list) /\ SameShape(InfoOf(list, id), t)
               /\ \E y \in objects, x \in Types :
                    Describes(given, y, x, InfoOf(list, id)) /\ Desc[x] = Desc[t]
    <3>1. PICK i \in 1..Len(list) :
            list[i].name = Name(z, t) /\ id \in Ids(list) /\ InfoOf(list, id) = list[i]
      BY <2>1, <2>3, PairFound
    <3>2. PICK r \in Origins(objects), x \in Types : Describes(given, r, x, list[i])
      BY <2>1 DEF Traced
    <3>3. PICK y \in objects : r.type = y.type /\ r.names = y.names
      BY <3>2 DEF Origins
    <3>4. \A w : Name(r, w) = Name(y, w)
      BY <3>3 DEF Name
    <3>5. \A w, m : Refers(given, r, w, m) => Refers(given, y, w, m)
      BY <3>3, RefersMore
    <3>6. Describes(given, y, x, list[i])
      BY <3>2, <3>3, <3>4, <3>5 DEF Describes
    <3>7. x \in Parts(y.type) \cap Composite /\ Name(y, x) = Name(z, t) /\ SameShape(list[i], x)
      BY <3>1, <3>6 DEF Describes
    <3>8. Desc[x] = Desc[t]
      BY <3>7 DEF SameName
    <3>9. SameShape(list[i], t)
      BY <3>7, <3>8, ShapeOf
    <3> QED
      BY <3>1, <3>6, <3>8, <3>9
  <2>4. Fits(list, o.type, o.id)
    <3>1. CASE Desc[o.type].kind = "builtin"
      BY <2>2, <3>1 DEF Refers, Fits
    <3>2. CASE Desc[o.type].kind # "builtin"
      <4>1. o.type \in Parts(o.type) \cap Composite /\ <<o.id, Name(o, o.type)>> \in given
        BY <2>2, <3>2 DEF Refers, Parts
      <4>2. o.id \in Ids(list) /\ SameShape(InfoOf(list, o.id), o.type)
        BY <2>3, <4>1
      <4> QED
        BY <3>2, <4>1, <4>2 DEF Fits
    <3> QED
      BY <3>1, <3>2
  <2>5. ASSUME Desc[o.type].kind = "struct", NEW i \in DOMAIN Desc[o.type].members
        PROVE  Fits(list, Desc[o.type].members[i].type, InfoOf(list, o.id).members[i].type)
    <3> DEFINE info == InfoOf(list, o.id)
               m == MemberType(o.type, i)
               mid == info.members[i].type
    <3>1. o.type \in Parts(o.type) \cap Composite /\ <<o.id, Name(o, o.type)>> \in given
      BY <2>2, <2>5 DEF Refers, Parts, Composite
    <3>2. PICK y \in objects, x \in Types : Describes(given, y, x, info) /\ Desc[x] = Desc[o.type]
      BY <2>3, <3>1
    <3>3. Refers(given, y, m, mid)
      BY <2>5, <3>2 DEF Describes, MemberType
    <3>4. m \in Composite => m \in Parts(y.type)
      <4>1. x \in Parts(y.type) /\ y.type \in Types
        BY <2>1, <3>2 DEF Describes
      <4>2. m \in Composite => m \in MemberTypes(x)
        BY <2>5, <3>2 DEF MemberTypes, MemberType
      <4> QED
        BY <4>1, <4>2, PartsOfPart
    <3> HIDE DEF m, mid
    <3>5. ASSUME Desc[m].kind = "builtin" PROVE Fits(list, m, mid)
      BY <3>3, <3>5 DEF Refers, Fits
    <3>6. ASSUME Desc[m].kind # "builtin", mid # UnknownType PROVE Fits(list, m, mid)
      <4>1. m \in Parts(y.type) \cap Composite /\ <<mid, Name(y, m)>> \in given
        BY <3>3, <3>4, <3>6 DEF Refers
      <4>2. mid \in Ids(list) /\ SameShape(InfoOf(list, mid), m)
        BY <2>3, <4>1
      <4> QED
        BY <3>6, <4>1, <4>2 DEF Fits
    <3>7. ASSUME Desc[m].kind # "builtin", mid = UnknownType PROVE Fits(list, m, mid)
      BY <3>7 DEF Fits
    <3>8. Fits(list, m, mid)
      BY <3>5, <3>6, <3>7
    <3> QED
      BY <3>8 DEF m, mid, MemberType
  <2> QED
    BY <2>2, <2>4, <2>5 DEF list
<1> QED
  BY <1>1, TraceHolds, PTL

\* What TypeResolution takes for granted is what gets stored, in any build in which
\* nobody read half a file: the runtime's walk over a layout finds a size for each
\* member, except for members whose type is unknown.  The hypothesis excludes empty
\* structs, whose size is 0 by definition.
THEOREM StoredSized ==
  ASSUME SizedTypes
  PROVE  Spec => []StoredTypesSized
<1>1. TypeInv /\ SoundInv /\ TraceInv => StoredTypesSized
  <2> DEFINE list == file.infos
             given == Pairs(list)
             d == LayoutsIn(list)
             unknown(i) == /\ list[i].flag = "user"
                           /\ \E k \in DOMAIN list[i].members : list[i].members[k].type = UnknownType
  <2> SUFFICES ASSUME TypeInv, SoundInv, TraceInv, "torn" \notin causes, ~file.torn, NEW i \in DOMAIN list
               PROVE  SoundLayout(d, d[list[i].id]) \/ unknown(i)
    BY DEF StoredTypesSized
  <2> HIDE DEF unknown
  <2>1. /\ list \in Seq(Infos) /\ Distinct(list) /\ Traced(given, list, Source)
        /\ \A j \in 1..Len(list) : list[j].id \in IdsTo(Len(list))
    BY DEF TypeInv, SoundInv, FileOK, TraceInv
  <2> HIDE DEF list
  <2>2. Len(list) \in Nat /\ DOMAIN list = 1..Len(list) /\ \A j \in 1..Len(list) : list[j] \in Infos
    BY <2>1
  <2>3. ASSUME NEW j \in 1..Len(list)
        PROVE  /\ list[j].id \in DOMAIN d
               /\ d[list[j].id] = [extent |-> list[j].extent, members |-> list[j].members]
               /\ TypeSizeIn(d, list[j].id) = list[j].extent
    <3>1. list[j].id \in Ids(list) /\ InfoOf(list, list[j].id) = list[j]
      BY <2>1, InfoFound
    <3>2. list[j].id \in DOMAIN d /\ d[list[j].id] = [extent |-> list[j].extent, members |-> list[j].members]
      BY <3>1 DEF LayoutsIn
    <3>3. ~isReservedType(list[j].id)
      BY <2>1, <2>2 DEF IdsTo, NumReservedIds, isReservedType
    <3> HIDE DEF d
    <3> QED
      BY <3>2, <3>3 DEF TypeSizeIn
  <2> HIDE DEF d
  <2>4. ASSUME NEW j \in 1..Len(list) PROVE list[j].extent > 0
    <3>1. PICK o \in Source, t \in Types : Describes(given, o, t, list[j])
      BY <2>1 DEF Traced
    <3> QED
      BY <3>1 DEF SizedTypes, Describes, SameShape, Composite
  <2>5. PICK o \in Source, t \in Types : Describes(given, o, t, list[i])
    BY <2>1, <2>2 DEF Traced
  <2> DEFINE ms == list[i].members
  <2>6. ms \in Seq(Members) /\ DOMAIN ms = 1..Len(ms)
    BY <2>2 DEF Infos
  <2>7. \A id : isBuiltinType(id) /\ id \in Nat => TypeSizeIn(d, id) > 0
    BY DEF TypeSizeIn, isBuiltinType, isReservedType, NumReservedIds, BuiltinSizes
  <2>8. d[list[i].id].extent > 0 /\ d[list[i].id].members = ms
    <3>1. list[i].extent > 0
      BY <2>2, <2>4
    <3>2. d[list[i].id] = [extent |-> list[i].extent, members |-> list[i].members]
      BY <2>2, <2>3
    <3>3. d[list[i].id].extent = list[i].extent /\ d[list[i].id].members = list[i].members
      BY <3>2
    <3> QED
      BY <3>1, <3>3
  <2>9. CASE Desc[t].kind = "vector"
    <3>1. /\ Len(ms) > 0 /\ ms[1].offset = 0
          /\ \A k \in 1..Len(ms) : isBuiltinType(ms[k].type)
      BY <2>5, <2>9 DEF Describes
    <3> HIDE DEF ms
    <3>2. ASSUME NEW k \in 1..Len(ms) PROVE ms[k].type \in Nat
      <4>1. ms[k] \in Members
        BY <2>6
      <4> QED
        BY <4>1 DEF Members
    <3>3. \A k \in 1..Len(ms) : TypeSizeIn(d, ms[k].type) > 0
      BY <2>7, <3>1, <3>2
    <3> QED
      BY <2>8, <3>1, <3>3 DEF SoundLayout
  <2>10. CASE Desc[t].kind = "struct"
    <3> DEFINE ts == Desc[t].members
    <3>1. /\ DOMAIN ms = DOMAIN ts /\ list[i].flag = "user"
          /\ \A k \in DOMAIN ts : ms[k].offset = ts[k].offset
          /\ \A k \in DOMAIN ts : Refers(given, o, MemberType(t, k), ms[k].type)
      BY <2>5, <2>10 DEF Describes, SameShape
    <3>2. ts \in Seq([offset : Nat, type : Types, count : Nat]) /\ Len(ts) > 0 /\ ts[1].offset = 0
      BY <2>10, TypesAssumption DEF SizedTypes
    <3> HIDE DEF ms, ts
    <3>3. Len(ms) > 0 /\ ms[1].offset = 0 /\ DOMAIN ts = 1..Len(ms)
      BY <2>6, <3>1, <3>2
    <3>4. ASSUME NEW k \in 1..Len(ms), ms[k].type # UnknownType PROVE TypeSizeIn(d, ms[k].type) > 0
      <4>1. Refers(given, o, MemberType(t, k), ms[k].type)
        BY <3>1, <3>3
      <4>2. CASE Desc[MemberType(t, k)].kind = "builtin"
        <5>1. ms[k].type = get_builtin_typeid(MemberType(t, k))
          BY <4>1, <4>2 DEF Refers
        <5>2. isBuiltinType(ms[k].type) /\ ms[k].type \in Nat
          BY <3>4, <5>1 DEF get_builtin_typeid, BuiltinIds, isBuiltinType, BuiltinSizes
        <5> QED
          BY <2>7, <5>2
      <4>3. CASE Desc[MemberType(t, k)].kind # "builtin"
        <5>1. <<ms[k].type, Name(o, MemberType(t, k))>> \in given
          BY <3>4, <4>1, <4>3 DEF Refers
        <5>2. PICK j \in 1..Len(list) : list[j].id = ms[k].type
          BY <2>1, <5>1, PairFound
        <5> QED
          BY <2>3, <2>4, <5>2
      <4> QED
        BY <4>2, <4>3
    <3>5. CASE \E k \in 1..Len(ms) : ms[k].type = UnknownType
      BY <2>6, <3>1, <3>5 DEF unknown, ms
    <3>6. CASE \A k \in 1..Len(ms) : ms[k].type # UnknownType
      BY <2>8, <3>3, <3>4, <3>6 DEF SoundLayout
    <3> QED
      BY <3>5, <3>6
  <2> QED
    BY <2>5, <2>9, <2>10 DEF Describes, Composite
<1> QED
  BY <1>1, TraceHolds, PTL
=============================================================================
