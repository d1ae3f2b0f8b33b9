------------------------------- MODULE TypeDB -------------------------------
(***************************************************************************)
(* The type database (lib/typelib/TypeDB.cpp): type ids, the list of       *)
(* struct descriptions the type file holds, and what both the compiler     *)
(* pass and the runtime ask of it.                                         *)
(***************************************************************************)
EXTENDS Integers, Sequences, FiniteSets

\* Type ids: builtin, unknown, and from here on user-defined or vector types.
UnknownType    == 255
NumReservedIds == 256
BuiltinSizes   == <<1, 2, 4, 8, 2, 4, 8, 16, 16, 16, 8>>

isBuiltinType(id)  == id >= 0 /\ id < Len(BuiltinSizes)
isReservedType(id) == id < NumReservedIds
isStructType(id)   == id >= NumReservedIds

\* A layout has an extent and a sequence of members (offsets, member_types and
\* array_sizes of StructTypeInfo).
Members == [offset : Nat, type : Nat, count : Nat]

\* A StructTypeInfo; flag is "user" (USER_DEFINED) or "vector" (LLVM_VECTOR).
Info(id, name, extent, members, flag) ==
  [id |-> id, name |-> name, extent |-> extent, members |-> members, flag |-> flag]

\* struct_info_vec is a sequence of infos; typeid_to_list_index finds them by id.
Ids(list) == {list[i].id : i \in DOMAIN list}
InfoOf(list, id) == list[CHOOSE i \in DOMAIN list : list[i].id = id]

isValid(list, id) == isBuiltinType(id) \/ id \in Ids(list)

isUserDefinedType(list, id) == id \in Ids(list) /\ InfoOf(list, id).flag = "user"
isVectorType(list, id)      == id \in Ids(list) /\ InfoOf(list, id).flag = "vector"

\* An id that is taken, or not a struct's, is refused.
registerStruct(list, info) ==
  IF isValid(list, info.id) \/ ~isStructType(info.id) THEN list ELSE Append(list, info)

\* The list as the function from ids to layouts that the runtime's queries use.
LayoutsIn(list) ==
  [id \in Ids(list) |-> [extent |-> InfoOf(list, id).extent, members |-> InfoOf(list, id).members]]

\* TypeDB::getTypeSize.
TypeSizeIn(d, id) ==
  IF isReservedType(id)
  THEN IF isBuiltinType(id) THEN BuiltinSizes[id + 1] ELSE 0
  ELSE IF id \in DOMAIN d THEN d[id].extent ELSE 0

\* A layout that starts with a member and whose members have a known size.
SoundLayout(d, l) ==
  /\ l.extent > 0
  /\ Len(l.members) > 0 /\ l.members[1].offset = 0
  /\ \A i \in 1..Len(l.members) : TypeSizeIn(d, l.members[i].type) > 0

\* Every type that occurs is known to the database and occupies memory.
WellFormed(d) == \A id \in DOMAIN d : SoundLayout(d, d[id])

\* The members of a struct follow each other without overlap.
MembersInOrder(d, l) ==
  \A i \in 1..Len(l.members) :
    LET m == l.members[i]
    IN  m.offset + m.count * TypeSizeIn(d, m.type) <=
          IF i = Len(l.members) THEN l.extent ELSE l.members[i + 1].offset

\* Members are in order, and a struct comes after those it contains: the pass
\* registers it when its members are.
LaidOut(d) ==
  /\ IsFiniteSet(DOMAIN d)
  /\ \A id \in DOMAIN d : MembersInOrder(d, d[id])
  /\ \E place \in [DOMAIN d -> 1..Cardinality(DOMAIN d)] :
       \A id \in DOMAIN d : \A i \in 1..Len(d[id].members) :
         LET type == d[id].members[i].type
         IN  type \in DOMAIN d => place[type] < place[id]
=============================================================================
