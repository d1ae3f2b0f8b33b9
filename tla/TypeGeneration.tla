--------------------------- MODULE TypeGeneration ---------------------------
(***************************************************************************)
(* The type file across the compilations of a program.  Each compiler      *)
(* process loads the file (TypeArtPass::doInitialization), gives ids to    *)
(* the types its module allocates (lib/passes/typegen/TypeManager.cpp) and *)
(* rewrites the whole file (doFinalization); the ids stay behind in its    *)
(* object file.  Types are registered recursively: an activation of        *)
(* getOrRegisterStruct is a frame, one step per member.                    *)
(*                                                                         *)
(* Processes may overlap, die while they write, or fail to open the file;  *)
(* causes remembers what of this happened, so that the properties can say  *)
(* what a serial, undisturbed build guarantees.                            *)
(***************************************************************************)
EXTENDS TypeDB

CONSTANTS
  Procs,       \* compiler processes, one per translation unit
  Types,       \* LLVM types
  Desc,        \* what LLVM and its DataLayout say about each type
  Units,       \* translation units: the types each allocates, in order, and the
               \* names that their addresses give to its literal struct types
  MaxCrashes   \* bound: processes that die

Literals == {t \in Types : Desc[t].kind = "struct" /\ Desc[t].name = "literal"}

\* Structs and vectors, which get an id of their own and a name.
Composite == {t \in Types : Desc[t].kind \in {"struct", "vector"}}

\* Those among the members of t, and those at any depth inside of t.
MemberTypes(t) ==
  IF Desc[t].kind = "struct"
  THEN {Desc[t].members[i].type : i \in DOMAIN Desc[t].members} \cap Composite
  ELSE {}

Inside ==
  [t \in Types |->
     LET closed == {S \in SUBSET Composite :
                      MemberTypes(t) \subseteq S /\ \A x \in S : MemberTypes(x) \subseteq S}
     IN  {x \in Composite : \A S \in closed : x \in S}]

Parts(t) == {t} \cup Inside[t]

\* The types a unit registers.
Needed(u) == UNION {Parts(u.types[i]) : i \in DOMAIN u.types}

\* StructTypeHandler::getName: a literal struct type is named after its address
\* in the process, which s.names tells.
Name(s, t) == IF t \in Literals THEN s.names[t] ELSE Desc[t].name

ASSUME TypesAssumption ==
  /\ MaxCrashes \in Nat
  /\ \A u \in Units : u.types \in Seq(Types) /\ DOMAIN u.names \subseteq Literals
  /\ \A t \in Types :
       LET d == Desc[t] IN
       /\ d.kind \in {"builtin", "vector", "struct", "other"}
       /\ d.kind = "builtin" => d.size \in Nat
       /\ d.kind = "vector" =>
            /\ d.elem \in Types /\ Desc[d.elem].kind = "builtin"
            /\ d.count \in Nat /\ d.bytes \in Nat
       /\ d.kind = "struct" =>
            d.extent \in Nat /\ d.members \in Seq([offset : Nat, type : Types, count : Nat])

\* In the LLVM context of a unit every type has its address.  Clang gives a struct
\* no type of the same name as a part; a member of its name (two structs without
\* names) may be one, and is taken for the struct itself.
ASSUME ContextAssumption ==
  \A u \in Units :
    /\ Needed(u) \cap Literals \subseteq DOMAIN u.names
    /\ \A t \in Needed(u) : \A m \in MemberTypes(t) :
         Desc[m].kind = "vector" \/ Name(u, m) # Name(u, t) =>
           \A x \in Parts(m) : Name(u, x) # Name(u, t)

VARIABLES
  proc,     \* the state of each compiler process
  file,     \* the type file
  objects,  \* type and id of the allocations in finished object files
  causes,   \* what disturbed the build
  crashes   \* number of processes that died

vars == <<proc, file, objects, causes, crashes>>

NoId == -1

\* A process: typeDB, structMap, structCount and the open activations of its
\* TypeManager; the types it has yet to ask for and the ids it put in its code.
NewProcess ==
  [pc |-> "idle", unit |-> <<>>, names |-> <<>>, db |-> <<>>, map |-> <<>>,
   count |-> 0, frames |-> <<>>, code |-> {}]

\* A file that does not exist: io::load returns an error and the database is left
\* empty.
NoFile == [infos |-> <<>>, torn |-> FALSE, mixed |-> FALSE, writers |-> {}]

Init ==
  /\ proc = [p \in Procs |-> NewProcess]
  /\ file = NoFile
  /\ objects = {}
  /\ causes = {}
  /\ crashes = 0

-----------------------------------------------------------------------------
(* Loading the file.                                                       *)

\* An info whose text is cut off after its name: the missing keys are an error
\* that ends the input, the element is already in the vector.
Cut(info) == [info EXCEPT !.extent = 0, !.members = <<>>]

\* What `in >> structures` yields: a file that is being written, or whose writer
\* died, is cut off in the text of an info (an error of the scanner: nothing), or
\* between two.  io::load returns no error code for it.
Loads(f) ==
  IF ~f.torn THEN {f.infos}
  ELSE {SubSeq(f.infos, 1, k) : k \in 0..Len(f.infos)}
       \cup {Append(SubSeq(f.infos, 1, k - 1), Cut(f.infos[k])) : k \in 1..Len(f.infos)}

NamesIn(list) == {list[i].name : i \in DOMAIN list}

\* structMap.insert keeps the first id of a name.
StructMapOf(list) ==
  [n \in NamesIn(list) |->
     list[CHOOSE i \in DOMAIN list : /\ list[i].name = n
                                     /\ \A j \in 1..(i - 1) : list[j].name # n].id]

\* Mutant: structCount is left at 0.
LoadedUncounted(list, u) ==
  [NewProcess EXCEPT !.pc = "run", !.unit = u.types, !.names = u.names, !.db = list, !.map = StructMapOf(list)]

\* TypeManager::load after io::load registered the infos of the file.
Loaded(list, u) ==
  [NewProcess EXCEPT !.pc = "run", !.unit = u.types, !.names = u.names, !.db = list,
                     !.map = StructMapOf(list), !.count = Cardinality(DOMAIN StructMapOf(list))]

Active(p) == proc[p].pc \in {"run", "write"}

doInitialization(p) ==
  /\ proc[p].pc = "idle"
  /\ \E u \in Units, list \in Loads(file) :
       proc' = [proc EXCEPT ![p] = Loaded(list, u)]
  /\ causes' = causes \cup {c \in {"overlap"} : \E q \in Procs : Active(q)}
                      \cup {c \in {"torn"} : file.torn}
  /\ UNCHANGED <<file, objects, crashes>>

-----------------------------------------------------------------------------
(* Registering types.                                                      *)

\* Integers of other widths have no id.
BuiltinIds ==
  [i8 |-> 0, i16 |-> 1, i32 |-> 2, i64 |-> 3, half |-> 4, float |-> 5, double |-> 6,
   fp128 |-> 7, x86_fp80 |-> 8, ppc_fp128 |-> 9, ptr |-> 10]
get_builtin_typeid(t) == IF t \in DOMAIN BuiltinIds THEN BuiltinIds[t] ELSE UnknownType

\* StructTypeHandler::getID.
StructID(s, t) ==
  IF Name(s, t) \notin DOMAIN s.map THEN NoId
  ELSE IF isUserDefinedType(s.db, s.map[Name(s, t)]) THEN s.map[Name(s, t)] ELSE UnknownType

\* Mutant: a vector of elements without an id is looked up like any other.
VectorIDUnchecked(s, t) ==
  IF Desc[t].name \notin DOMAIN s.map THEN NoId
  ELSE IF isVectorType(s.db, s.map[Desc[t].name]) THEN s.map[Desc[t].name] ELSE UnknownType

\* VectorTypeHandler::getID.
VectorID(s, t) ==
  IF get_builtin_typeid(Desc[t].elem) = UnknownType THEN UnknownType
  ELSE IF Desc[t].name \notin DOMAIN s.map THEN NoId
  ELSE IF isVectorType(s.db, s.map[Desc[t].name]) THEN s.map[Desc[t].name] ELSE UnknownType

\* The id of a type that is builtin, registered or unsupported, otherwise NoId.
KnownID(s, t) ==
  CASE Desc[t].kind = "builtin" -> get_builtin_typeid(t)
    [] Desc[t].kind = "struct"  -> StructID(s, t)
    [] Desc[t].kind = "vector"  -> VectorID(s, t)
    [] OTHER                    -> UnknownType

\* typeDB.registerStruct and structMap.insert.
Registered(s, info) ==
  [s EXCEPT !.db = registerStruct(s.db, info),
            !.map = IF info.name \in DOMAIN s.map THEN s.map
                    ELSE [n \in DOMAIN s.map \cup {info.name} |->
                            IF n = info.name THEN info.id ELSE s.map[n]]]

reserveNextId(s) == [id |-> NumReservedIds + s.count, s |-> [s EXCEPT !.count = s.count + 1]]

\* A vector is a struct with its elements as one member and the padding behind
\* them as another.
VectorInfo(s, t, id) ==
  LET v == Desc[t]
      used == v.count * Desc[v.elem].size
      elems == [offset |-> 0, type |-> get_builtin_typeid(v.elem), count |-> v.count]
      padding == [offset |-> used, type |-> 0, count |-> v.bytes - used]
  IN  Info(id, v.name, v.bytes, IF v.bytes > used THEN <<elems, padding>> ELSE <<elems>>, "vector")

\* Mutant: the caller asks for the same member again.
AnswerDropped(s, id) ==
  IF s.frames # <<>> THEN s
  ELSE [s EXCEPT !.unit = Tail(s.unit),
                 !.code = s.code \cup {[type |-> Head(s.unit), id |-> id, names |-> s.names] :
                                         k \in {id} \ {UnknownType}}]

\* A returned id is the next member of the innermost activation, or goes into
\* the code of the module; allocations of unknown type are not instrumented.
Answer(s, id) ==
  LET d == Len(s.frames) IN
  IF d > 0 THEN [s EXCEPT !.frames[d].ids = Append(s.frames[d].ids, id)]
  ELSE [s EXCEPT !.unit = Tail(s.unit),
                 !.code = s.code \cup {[type |-> Head(s.unit), id |-> id, names |-> s.names] :
                                         k \in {id} \ {UnknownType}}]

getOrRegisterType(s, t) ==
  LET known == KnownID(s, t)
      next == reserveNextId(s)
  IN  IF known # NoId THEN Answer(s, known)
      ELSE IF Desc[t].kind = "vector"
      THEN Answer(Registered(next.s, VectorInfo(s, t, next.id)), next.id)
      ELSE [next.s EXCEPT !.frames = Append(s.frames, [type |-> t, id |-> next.id, ids |-> <<>>])]

Running(p) == proc[p].pc = "run"
Innermost(s) == s.frames[Len(s.frames)]
MembersLeft(s) == Len(Innermost(s).ids) < Len(Desc[Innermost(s).type].members)

\* The argument collector asks for the type of the next allocation.
AskType(p) ==
  LET s == proc[p] IN
  /\ Running(p) /\ s.frames = <<>> /\ s.unit # <<>>
  /\ proc' = [proc EXCEPT ![p] = getOrRegisterType(s, Head(s.unit))]
  /\ UNCHANGED <<file, objects, causes, crashes>>

\* The loop of getOrRegisterStruct.
AskMember(p) ==
  LET s == proc[p]
      f == Innermost(s)
      t == Desc[f.type].members[Len(f.ids) + 1].type
  IN
  /\ Running(p) /\ s.frames # <<>> /\ MembersLeft(s)
  /\ proc' = [proc EXCEPT ![p] =
                IF Desc[t].kind = "struct" /\ Name(s, t) = Name(s, f.type)
                THEN Answer(s, f.id) ELSE getOrRegisterType(s, t)]
  /\ UNCHANGED <<file, objects, causes, crashes>>

\* getOrRegisterStruct's description of the struct.
StructInfo(s, f) ==
  LET ms == Desc[f.type].members IN
  Info(f.id, Name(s, f.type), Desc[f.type].extent,
       [i \in DOMAIN ms |-> [offset |-> ms[i].offset, type |-> f.ids[i], count |-> ms[i].count]],
       "user")

\* getOrRegisterStruct registers the struct and returns its id.
EndStruct(p) ==
  LET s == proc[p]
      f == Innermost(s)
      popped == [s EXCEPT !.frames = SubSeq(s.frames, 1, Len(s.frames) - 1)]
  IN
  /\ Running(p) /\ s.frames # <<>> /\ ~MembersLeft(s)
  /\ proc' = [proc EXCEPT ![p] = Answer(Registered(popped, StructInfo(s, f)), f.id)]
  /\ UNCHANGED <<file, objects, causes, crashes>>

-----------------------------------------------------------------------------
(* Storing the file.                                                       *)

\* Mutant: the file is stored after each type.
FinishedEarly(p) == Running(p) /\ proc[p].frames = <<>>

Finished(p) == Running(p) /\ proc[p].frames = <<>> /\ proc[p].unit = <<>>

\* io::store: opening the stream truncates the file, its buffer is flushed on
\* the way and when the stream is closed.
OpenStore(p) ==
  /\ Finished(p)
  /\ proc' = [proc EXCEPT ![p].pc = "write"]
  /\ file' = [infos |-> proc[p].db, torn |-> TRUE,
              mixed |-> file.writers # {}, writers |-> file.writers \cup {p}]
  /\ UNCHANGED <<objects, causes, crashes>>

\* Mutant: the process writes the types of its own module.
CloseStoreOwn(p) ==
  /\ proc[p].pc = "write"
  /\ proc' = [proc EXCEPT ![p].pc = "done"]
  /\ file' = [file EXCEPT !.infos = SelectSeq(proc[p].db, LAMBDA i : i.id \in {c.id : c \in proc[p].code}),
                          !.torn = FALSE, !.writers = file.writers \ {p}]
  /\ objects' = objects \cup proc[p].code
  /\ UNCHANGED <<causes, crashes>>

\* Writers that overlap leave the bytes of either, or of both.
CloseStore(p) ==
  /\ proc[p].pc = "write"
  /\ proc' = [proc EXCEPT ![p].pc = "done"]
  /\ \E list \in {proc[p].db} \cup {l \in {file.infos} : file.mixed},
        torn \in {file.writers # {p}} \cup {file.mixed} :
       file' = [file EXCEPT !.infos = list, !.torn = torn,
                            !.mixed = file.mixed /\ file.writers # {p},
                            !.writers = file.writers \ {p}]
  /\ objects' = objects \cup proc[p].code
  /\ UNCHANGED <<causes, crashes>>

\* The file cannot be opened: doFinalization logs it, the object is written.
StoreFails(p) ==
  /\ Finished(p)
  /\ proc' = [proc EXCEPT ![p].pc = "done"]
  /\ objects' = objects \cup proc[p].code
  /\ causes' = causes \cup {"unstored"}
  /\ UNCHANGED <<file, crashes>>

\* The process dies; no object file is left.
Crash(p) ==
  /\ Active(p) /\ crashes < MaxCrashes
  /\ proc' = [proc EXCEPT ![p].pc = "crashed"]
  /\ file' = [file EXCEPT !.writers = file.writers \ {p}]
  /\ crashes' = crashes + 1
  /\ UNCHANGED <<objects, causes>>

\* What a started process does.
Compile(p) ==
  \/ AskType(p)
  \/ AskMember(p)
  \/ EndStruct(p)
  \/ OpenStore(p)
  \/ CloseStore(p)
  \/ StoreFails(p)

Next == \E p \in Procs : doInitialization(p) \/ Compile(p) \/ Crash(p)

Spec == Init /\ [][Next]_vars

\* The operating system runs every started process.
FairSpec == Spec /\ \A p \in Procs : WF_vars(Compile(p))

-----------------------------------------------------------------------------
(* Properties.                                                             *)

TypeOK ==
  /\ \A p \in Procs :
       /\ proc[p].pc \in {"idle", "run", "write", "done", "crashed"}
       /\ proc[p].unit \in Seq(Types) /\ proc[p].count \in Nat
       /\ proc[p].pc \in {"write", "done"} => proc[p].unit = <<>> /\ proc[p].frames = <<>>
       /\ \A i \in DOMAIN proc[p].frames : proc[p].frames[i].type \in Types
       /\ \A i \in DOMAIN proc[p].db : proc[p].db[i].id \in Nat
  /\ file.torn \in BOOLEAN /\ file.mixed \in BOOLEAN
  /\ file.writers = {p \in Procs : proc[p].pc = "write"}
  /\ causes \subseteq {"overlap", "torn", "unstored"}
  /\ crashes \in 0..MaxCrashes

\* In each process a registered name leads to the description of that name: an
\* id handed out is never one that another type already has.  It rests on
\* structCount being the number of names after every load, and fails once a
\* process has read half a file.
NamesResolve ==
  "torn" \notin causes =>
    \A p \in Procs : \A n \in DOMAIN proc[p].map :
      /\ proc[p].map[n] \in Ids(proc[p].db)
      /\ InfoOf(proc[p].db, proc[p].map[n]).name = n

\* Two types of the program that the type manager cannot tell apart.
SameName ==
  \E o1, o2 \in objects : \E t1 \in Parts(o1.type) \cap Composite, t2 \in Parts(o2.type) \cap Composite :
    Name(o1, t1) = Name(o2, t2) /\ Desc[t1] # Desc[t2]

\* The info has the size of t, and its members where those of t are.
SameShape(info, t) ==
  IF Desc[t].kind = "vector" THEN info.extent = Desc[t].bytes /\ info.flag = "vector"
  ELSE LET ms == Desc[t].members IN
       /\ info.extent = Desc[t].extent /\ info.flag = "user"
       /\ DOMAIN info.members = DOMAIN ms
       /\ \A i \in DOMAIN ms :
            info.members[i].offset = ms[i].offset /\ info.members[i].count = ms[i].count

\* The list has the type t under this id; types without an id have UnknownType.
Fits(list, t, id) ==
  IF Desc[t].kind = "builtin" THEN id = get_builtin_typeid(t)
  ELSE id = UnknownType \/ (t \in Composite /\ id \in Ids(list) /\ SameShape(InfoOf(list, id), t))

\* README: "The runtime library correlates the allocation with the respective
\* type (and layout) during execution."  Every id compiled into an object file
\* has, in the type file, the layout of the type it was given for, and its
\* members have ids of theirs, provided no process overlapped another or read
\* half a file, every store worked, and no two types share a name.
ObjectIdsResolve ==
  causes = {} /\ ~SameName /\ ~file.torn =>
    \A o \in objects :
      /\ o.id # UnknownType /\ Fits(file.infos, o.type, o.id)
      /\ Desc[o.type].kind = "struct" =>
           \A i \in DOMAIN Desc[o.type].members :
             Fits(file.infos, Desc[o.type].members[i].type, InfoOf(file.infos, o.id).members[i].type)

\* Types that occupy memory: no struct is empty, its first member is at its start.
SizedTypes ==
  \A t \in Types :
    /\ Desc[t].kind = "vector" => Desc[t].bytes > 0
    /\ Desc[t].kind = "struct" =>
         Desc[t].extent > 0 /\ Len(Desc[t].members) > 0 /\ Desc[t].members[1].offset = 0

\* What TypeResolution takes for granted (WellFormed) is what gets stored: each
\* member of a stored layout has a size, its id is builtin or stored in the same
\* file.  Only user-defined structs may have a member of unknown type.
StoredTypesSized ==
  "torn" \notin causes /\ ~file.torn =>
    LET d == LayoutsIn(file.infos) IN
    \A i \in DOMAIN file.infos :
      \/ SoundLayout(d, d[file.infos[i].id])
      \/ /\ file.infos[i].flag = "user"
         /\ \E m \in DOMAIN file.infos[i].members : file.infos[i].members[m].type = UnknownType

\* Registration ends, however the types are nested.
CompilationsEnd == \A p \in Procs : Active(p) ~> proc[p].pc \in {"done", "crashed"}
=============================================================================
