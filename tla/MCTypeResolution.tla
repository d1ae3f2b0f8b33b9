-------------------------- MODULE MCTypeResolution --------------------------
(***************************************************************************)
(* Type databases for TLC: all layouts of one or two members over a choice *)
(* of member types, with array members, empty arrays and padding, nested   *)
(* two and three levels deep.                                              *)
(***************************************************************************)
EXTENDS TypeResolution, TLC

Member(o, t, n) == [offset |-> o, type |-> t, count |-> n]
Layout(e, ms)   == [extent |-> e, members |-> ms]

\* Layouts whose members have a type of DOMAIN size and a count of ns; pads are
\* the bytes of padding between the members and at the end.
LayoutsOf(size, ns, pads) ==
  LET types == DOMAIN size IN
  {Layout(n * size[t] + q, <<Member(0, t, n)>>) : t \in types, n \in ns, q \in pads}
  \cup
  {Layout(n1 * size[t1] + p + n2 * size[t2] + q,
          <<Member(0, t1, n1), Member(n1 * size[t1] + p, t2, n2)>>) :
     t1 \in types, t2 \in types, n1 \in ns, n2 \in ns, p \in pads, q \in pads}

\* int8 (0) and int16 (1); 256 is nested in 257, 257 in 258.
InnerLayouts == LayoutsOf(1 :> 2, {2}, {0, 1})
OuterLayouts(e) == {l \in LayoutsOf(0 :> 1 @@ 256 :> e, {0, 1, 2}, {0, 1}) : l.extent > 0}

Nested == UNION {{256 :> i @@ 257 :> o : o \in OuterLayouts(i.extent)} : i \in InnerLayouts}

Deep == {256 :> i @@
         257 :> Layout(i.extent + 3, <<Member(0, 256, 1), Member(i.extent, 0, 1)>>) @@
         258 :> Layout(2 * i.extent + 8, <<Member(0, 1, 1), Member(2, 257, 2)>>) : i \in InnerLayouts}

KnownTypes == Nested \cup Deep

\* They are what the theorems of TypeResolutionProofs are about.
ASSUME KnownTypesWellFormed == \A d \in KnownTypes : WellFormed(d) /\ LaidOut(d)

\* struct { short a; __int128 b; short c; }: the pass knows no id for b.
UnknownMember == {256 :> Layout(48, <<Member(0, 1, 1), Member(16, 255, 1), Member(32, 1, 1)>>)}
=============================================================================
