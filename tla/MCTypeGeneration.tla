-------------------------- MODULE MCTypeGeneration --------------------------
(***************************************************************************)
(* Types and translation units for TLC: nested structs, a struct two       *)
(* units define differently, a struct without a name in another, literal   *)
(* structs, vectors with padding and of elements without an id.            *)
(***************************************************************************)
EXTENDS TypeGeneration, TLC

Builtin(size)      == [kind |-> "builtin", size |-> size, name |-> "builtin"]
Vector(n, e, size) == [kind |-> "vector", name |-> "vec:" \o e, elem |-> e, count |-> n, bytes |-> size]
Struct(n, e, ms)   == [kind |-> "struct", name |-> n, extent |-> e, members |-> ms]
At(o, t, n)        == [offset |-> o, type |-> t, count |-> n]

MCDesc ==
  [i32 |-> Builtin(4),
   float |-> Builtin(4),
   i128 |-> Builtin(16),
   ptr |-> Builtin(8),
   vec |-> Vector(3, "float", 16),
   wide |-> Vector(2, "i128", 32),
   scal |-> [kind |-> "other", name |-> "scal"],
   in |-> Struct("in", 12, <<At(0, "i32", 3)>>),
   out |-> Struct("out", 48, <<At(0, "in", 2), At(32, "vec", 1)>>),
   out2 |-> Struct("out", 24, <<At(0, "ptr", 1), At(8, "in", 1)>>),
   big |-> Struct("big", 32, <<At(0, "i128", 1), At(16, "scal", 1)>>),
   lit |-> Struct("literal", 16, <<At(0, "i32", 1), At(8, "ptr", 1)>>),
   lit2 |-> Struct("literal", 8, <<At(0, "ptr", 1)>>),
   shell |-> Struct("", 8, <<At(0, "core", 1)>>),
   core |-> Struct("", 8, <<At(0, "ptr", 1)>>)]

MCTypes == DOMAIN MCDesc

\* A unit has one definition of a name; an address may be that of one literal
\* struct in this process and of another in the next.
Unit(ts, names) == [types |-> ts, names |-> names]

MCUnits ==
  {Unit(<<"out", "in">>, <<>>), Unit(<<"in", "ptr", "out2">>, <<>>),
   Unit(<<"vec", "wide", "big">>, <<>>),
   Unit(<<"lit", "out">>, "lit" :> "L1"), Unit(<<"lit", "vec">>, "lit" :> "L2"),
   Unit(<<"lit2">>, "lit2" :> "L1"), Unit(<<"shell">>, <<>>)}

\* The hypothesis of the theorem StoredSized.
ASSUME SizedTypes
=============================================================================
