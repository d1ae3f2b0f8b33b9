-------------------------- MODULE StackScopesProofs --------------------------
(***************************************************************************)
(* Proofs about the scopes of one thread: a live variable is tracked, also *)
(* when exceptions unwind activations, and a program that only returns     *)
(* leaves no variable behind, for any depth and any number of variables.   *)
(***************************************************************************)
EXTENDS StackScopes, FiniteSums, SequenceTheorems

Frame == [live : SUBSET Nat, block : SUBSET Nat, regs : Nat, counter : Nat, site : {"none", "call", "invoke"}]

\* The entries of stackVars that are an activation's.
Due(f) == f.counter + Cardinality(f.block)

FrameOK(d, f) ==
  /\ f.live \subseteq SlotsAt(d) /\ f.block \subseteq f.live
  /\ Due(f) = f.regs /\ f.regs <= MaxRegs

StackTypeOK ==
  /\ frames \in Seq(Frame) /\ Depth <= MaxDepth
  /\ \A d \in 1..Depth : FrameOK(d, frames[d])
  /\ stackVars \in Seq(Nat)
  /\ tracked \subseteq 1..(MaxDepth * Slots)
  /\ throws \in BOOLEAN /\ unwinding \in BOOLEAN

\* An exception has a handler.
Handled == unwinding => throws /\ \E d \in 1..Depth : frames[d].site = "invoke"

\* Entry lo is the last one below those of the activation f at depth d, and hi
\* the last one below those of the activation that f called.  The entries above
\* lo are variables of depth d or deeper; between lo and hi there are more than
\* f's callbacks account for only after exceptions.
Segment(d, lo, hi, f, entries, exceptions) ==
  /\ lo + Due(f) <= hi
  /\ \A i \in 1..Len(entries) : i > lo => entries[i] > (d - 1) * Slots
  /\ ~exceptions =>
       /\ lo + Due(f) = hi
       /\ \A v \in f.live : \E i \in 1..Len(entries) : i > lo /\ i <= hi /\ entries[i] = v

Segments(b) ==
  /\ b[Depth + 1] = Len(stackVars)
  /\ ~throws => b[1] = 0
  /\ \A d, e \in 1..(Depth + 1) : d <= e => b[d] <= b[e]
  /\ \A d \in 1..Depth : Segment(d, b[d], b[d + 1], frames[d], stackVars, throws)

Bases == \E b \in [1..(Depth + 1) -> Nat] : Segments(b)

Kept == StackTypeOK /\ Bases /\ LiveVarsTracked /\ ReturnsUntrack

ScopeInv == Kept /\ Handled

-----------------------------------------------------------------------------
(* Addresses and activations.                                              *)

LEMMA SlotOrder ==
  ASSUME NEW d \in Nat, NEW e \in Nat, d <= e
  PROVE  d * Slots \in Nat /\ e * Slots \in Nat /\ d * Slots <= e * Slots
<1>1. Slots \in Nat
  BY ScopeBounds
<1>2. PICK k \in Nat : e = d + k
  <2>1. e - d \in Nat /\ e = d + (e - d)
    OBVIOUS
  <2> QED
    BY <2>1
<1>3. d * Slots \in Nat /\ k * Slots \in Nat /\ e * Slots = d * Slots + k * Slots
  BY <1>1, <1>2
<1> QED
  BY <1>3

\* The variables of an activation are finitely many, apart from those of others.
LEMMA SlotsRange ==
  ASSUME NEW d \in Nat \ {0}
  PROVE  /\ SlotsAt(d) \subseteq Nat /\ IsFiniteSet(SlotsAt(d))
         /\ \A v \in SlotsAt(d) : v > (d - 1) * Slots
         /\ \A e \in Nat : e >= d => \A v \in SlotsAt(d) : v <= e * Slots
<1>1. d - 1 \in Nat /\ Slots \in Nat
  BY ScopeBounds
<1>2. (d - 1) * Slots \in Nat /\ d * Slots \in Nat
  BY <1>1, SlotOrder
<1>3. IsFiniteSet(SlotsAt(d))
  BY <1>2, FS_Interval DEF SlotsAt
<1>4. ASSUME NEW e \in Nat, e >= d, NEW v \in SlotsAt(d) PROVE v <= e * Slots
  <2>1. d * Slots <= e * Slots /\ e * Slots \in Nat
    BY <1>4, SlotOrder
  <2> QED
    BY <1>2, <1>4, <2>1 DEF SlotsAt
<1> QED
  BY <1>2, <1>3, <1>4 DEF SlotsAt

LEMMA DueType ==
  ASSUME NEW d \in Nat \ {0}, NEW f \in Frame, FrameOK(d, f)
  PROVE  /\ IsFiniteSet(f.block) /\ Cardinality(f.block) \in Nat /\ f.counter \in Nat /\ Due(f) \in Nat
         /\ f.live \subseteq Nat
<1>1. IsFiniteSet(f.block)
  BY SlotsRange, FS_Subset DEF FrameOK
<1> QED
  BY <1>1, FS_CardinalityType DEF Frame, Due

\* Activations 1 to n have the variables and the entries they had.
Agree(n) ==
  \A d \in 1..n : /\ frames'[d] \in Frame /\ FrameOK(d, frames'[d])
                  /\ frames'[d].live = frames[d].live /\ Due(frames'[d]) = Due(frames[d])

\* The innermost activation is replaced.
LEMMA TopReplaced ==
  ASSUME StackTypeOK, Depth > 0, NEW f \in Frame, NEW s, s = [frames EXCEPT ![Depth] = f]
  PROVE  /\ Depth \in Nat \ {0} /\ Depth \in 1..Depth
         /\ s \in Seq(Frame) /\ Len(s) = Depth /\ s[Depth] = f
         /\ \A d \in 1..Depth : d # Depth => s[d] = frames[d]
<1>1. frames \in Seq(Frame) /\ Depth = Len(frames)
  BY DEF StackTypeOK, Depth
<1> QED
  BY <1>1

LEMMA TopType ==
  ASSUME StackTypeOK, Depth > 0
  PROVE  /\ Depth \in Nat \ {0} /\ Depth \in 1..Depth /\ Top \in Frame /\ FrameOK(Depth, Top) /\ Top = frames[Depth]
         /\ Depth <= MaxDepth
<1>1. frames \in Seq(Frame) /\ Depth = Len(frames)
  BY DEF StackTypeOK, Depth
<1> QED
  BY <1>1 DEF StackTypeOK, Top

\* What EndOfBlock does not change.
LEMMA EndOfBlockDue ==
  ASSUME NEW d \in Nat \ {0}, NEW f \in Frame, FrameOK(d, f)
  PROVE  /\ EndOfBlock(f) \in Frame /\ FrameOK(d, EndOfBlock(f))
         /\ EndOfBlock(f).live = f.live /\ Due(EndOfBlock(f)) = Due(f)
         /\ EndOfBlock(f).counter = Due(f)
<1> DEFINE g == EndOfBlock(f)
<1>1. Cardinality(f.block) \in Nat /\ f.counter \in Nat
  BY DueType
<1>2. /\ g.live = f.live /\ g.block = {} /\ g.regs = f.regs /\ g.site = f.site
      /\ g.counter = f.counter + Cardinality(f.block)
  BY DEF EndOfBlock, Frame
<1>3. g \in Frame
  <2>1. PICK k \in Nat : k = f.counter + Cardinality(f.block)
    BY <1>1
  <2>2. g = [f EXCEPT !.counter = k, !.block = {}]
    BY <2>1 DEF EndOfBlock
  <2>3. {} \in SUBSET Nat
    OBVIOUS
  <2> HIDE DEF g
  <2> QED
    BY <2>2, <2>3 DEF Frame
<1>4. Cardinality({}) = 0
  BY FS_EmptySet
<1>5. Due(g) = Due(f)
  BY <1>1, <1>2, <1>4 DEF Due
<1> QED
  BY <1>2, <1>3, <1>5 DEF FrameOK, Due

LEMMA SiteDue ==
  ASSUME NEW d \in Nat \ {0}, NEW f \in Frame, FrameOK(d, f), NEW c \in {"none", "call", "invoke"}
  PROVE  LET g == [f EXCEPT !.site = c] IN
         g \in Frame /\ FrameOK(d, g) /\ g.live = f.live /\ Due(g) = Due(f) /\ g.site = c
<1> DEFINE g == [f EXCEPT !.site = c]
<1>1. /\ g \in Frame /\ g.live = f.live /\ g.block = f.block /\ g.regs = f.regs /\ g.counter = f.counter
      /\ g.site = c
  BY DEF Frame
<1> HIDE DEF g
<1>2. FrameOK(d, g) /\ Due(g) = Due(f)
  BY <1>1 DEF FrameOK, Due
<1> QED
  BY <1>1, <1>2 DEF g

-----------------------------------------------------------------------------
(* The steps, by what they do to the activations.                          *)

\* No activation comes or goes.
LEMMA SameScopes ==
  ASSUME Kept, frames' \in Seq(Frame), Len(frames') = Depth, Agree(Depth),
         UNCHANGED <<tracked, stackVars, throws>>, unwinding' \in BOOLEAN
  PROVE  Kept'
<1>1. Depth' = Depth
  BY DEF Depth
<1>2. StackTypeOK'
  BY <1>1 DEF Kept, StackTypeOK, Agree, FrameOK, Due, SlotsAt
<1>3. Live' = Live
  BY <1>1 DEF Live, Agree
<1>4. PICK b \in [1..(Depth + 1) -> Nat] : Segments(b)
  BY DEF Kept, Bases
<1>5. ASSUME NEW d \in 1..Depth
      PROVE  Segment(d, b[d], b[d + 1], frames'[d], stackVars, throws)
  <2>1. Segment(d, b[d], b[d + 1], frames[d], stackVars, throws)
    BY <1>4 DEF Segments
  <2>2. Due(frames'[d]) = Due(frames[d]) /\ frames'[d].live = frames[d].live
    BY DEF Agree
  <2> QED
    BY <2>1, <2>2 DEF Segment
<1>6. Segments(b)'
  BY <1>1, <1>4, <1>5 DEF Segments
<1> QED
  BY <1>1, <1>2, <1>3, <1>4, <1>6 DEF Kept, Bases, LiveVarsTracked, ReturnsUntrack, DeadVarsUntracked

\* An activation is entered; its caller stays as it is.
LEMMA ScopeEntered ==
  ASSUME Kept, NEW caller \in Frame, EnterFunction(caller), FrameOK(Depth, caller),
         caller.live = Top.live, Due(caller) = Due(Top)
  PROVE  Kept' /\ Len(frames') = Depth + 1
<1> DEFINE s == [frames EXCEPT ![Depth] = caller]
<1>0. Depth > 0 /\ Depth < MaxDepth /\ StackTypeOK /\ UNCHANGED <<tracked, stackVars, throws, unwinding>>
  BY DEF EnterFunction, Running, Kept
<1>1. /\ Depth \in Nat \ {0} /\ Depth \in 1..Depth /\ s \in Seq(Frame) /\ Len(s) = Depth /\ s[Depth] = caller
      /\ \A d \in 1..Depth : d # Depth => s[d] = frames[d]
  BY <1>0, TopReplaced
<1>n. /\ NewFrame \in Frame /\ NewFrame.live = {} /\ NewFrame.block = {} /\ NewFrame.regs = 0
      /\ Due(NewFrame) = 0
  BY FS_EmptySet DEF NewFrame, Frame, Due
<1>2. /\ frames' \in Seq(Frame) /\ Len(frames') = Depth + 1 /\ frames'[Depth + 1] = NewFrame
      /\ \A d \in 1..Depth : frames'[d] = s[d]
  <2>1. frames' = Append(s, NewFrame)
    BY DEF EnterFunction
  <2> HIDE DEF s
  <2> QED
    BY <1>1, <1>n, <2>1, AppendProperties
<1>3. Depth' = Depth + 1
  BY <1>2 DEF Depth
<1>4. ASSUME NEW d \in 1..Depth
      PROVE  /\ frames'[d] \in Frame /\ FrameOK(d, frames'[d])
             /\ frames'[d].live = frames[d].live /\ Due(frames'[d]) = Due(frames[d])
  <2>1. CASE d = Depth
    BY <1>1, <1>2, <2>1 DEF Top
  <2>2. CASE d # Depth
    <3>1. frames'[d] = frames[d] /\ frames[d] \in Frame /\ FrameOK(d, frames[d])
      <4>1. frames \in Seq(Frame) /\ d \in 1..Len(frames)
        BY <1>0 DEF StackTypeOK, Depth
      <4>2. frames[d] \in Frame
        BY <4>1
      <4> HIDE DEF s
      <4> QED
        BY <1>0, <1>1, <1>2, <2>2, <4>2 DEF StackTypeOK
    <3> QED
      BY <3>1
  <2> QED
    BY <2>1, <2>2
<1>5. FrameOK(Depth + 1, NewFrame)
  BY <1>n, ScopeBounds DEF FrameOK
<1>6. \A d \in 1..(Depth + 1) : d \in 1..Depth \/ d = Depth + 1
  BY <1>1
<1>7. StackTypeOK'
  <2>1. \A d \in 1..(Depth + 1) : FrameOK(d, frames'[d])
    BY <1>2, <1>4, <1>5, <1>6
  <2>2. Depth + 1 <= MaxDepth
    BY <1>0, <1>1, ScopeBounds
  <2> QED
    BY <1>0, <1>2, <1>3, <2>1, <2>2 DEF StackTypeOK, FrameOK, Due, SlotsAt
<1>8. Live' = Live
  <2>1. \A d \in 1..(Depth + 1) : frames'[d].live = IF d = Depth + 1 THEN {} ELSE frames[d].live
    BY <1>2, <1>4, <1>6, <1>n
  <2>2. \A d \in 1..Depth : d # Depth + 1 /\ d \in 1..(Depth + 1)
    BY <1>1
  <2> QED
    BY <1>3, <1>6, <2>1, <2>2 DEF Live
<1>9. Bases'
  <2>1. PICK b \in [1..(Depth + 1) -> Nat] : Segments(b)
    BY DEF Kept, Bases
  <2>l. Len(stackVars) \in Nat
    BY <1>0 DEF StackTypeOK
  <2>2. PICK c \in [1..(Depth + 2) -> Nat] :
          c[Depth + 2] = Len(stackVars) /\ \A d \in 1..(Depth + 1) : c[d] = b[d]
    <3> DEFINE c == [d \in 1..(Depth + 2) |-> IF d = Depth + 2 THEN Len(stackVars) ELSE b[d]]
    <3>1. \A d \in 1..(Depth + 2) : d # Depth + 2 => d \in 1..(Depth + 1)
      BY <1>1
    <3>2. c \in [1..(Depth + 2) -> Nat]
      BY <2>l, <3>1
    <3>3. Depth + 2 \in 1..(Depth + 2) /\ \A d \in 1..(Depth + 1) : d # Depth + 2 /\ d \in 1..(Depth + 2)
      BY <1>1
    <3> QED
      BY <3>2, <3>3
  <2>3. Depth + 1 + 1 = Depth + 2
    BY <1>1
  <2>4. ASSUME NEW d \in 1..Depth
        PROVE  Segment(d, c[d], c[d + 1], frames'[d], stackVars, throws)
    <3>1. c[d] = b[d] /\ c[d + 1] = b[d + 1]
      BY <1>1, <2>2
    <3>2. Due(frames'[d]) = Due(frames[d]) /\ frames'[d].live = frames[d].live
      BY <1>4
    <3>3. Segment(d, b[d], b[d + 1], frames[d], stackVars, throws)
      BY <2>1 DEF Segments
    <3> QED
      BY <3>1, <3>2, <3>3 DEF Segment
  <2>5. Segment(Depth + 1, c[Depth + 1], c[Depth + 2], NewFrame, stackVars, throws)
    <3>1. c[Depth + 1] = Len(stackVars) /\ c[Depth + 2] = Len(stackVars)
      BY <1>1, <2>1, <2>2 DEF Segments
    <3> QED
      BY <1>n, <2>l, <3>1 DEF Segment
  <2>6. Segments(c)'
    <3>1. \A d \in 1..(Depth + 1) : Segment(d, c[d], c[d + 1], frames'[d], stackVars, throws)
      BY <1>2, <1>6, <2>3, <2>4, <2>5
    <3>2. ASSUME NEW d \in 1..(Depth + 2), NEW e \in 1..(Depth + 2), d <= e
          PROVE  c[d] <= c[e]
      <4>1. CASE e = Depth + 2
        <5>1. CASE d = Depth + 2
          BY <2>l, <2>2, <4>1, <5>1
        <5>2. CASE d # Depth + 2
          <6>1. d \in 1..(Depth + 1) /\ Depth + 1 \in 1..(Depth + 1)
            BY <1>1, <5>2
          <6>2. b[d] <= b[Depth + 1] /\ b[Depth + 1] = Len(stackVars) /\ c[d] = b[d]
            BY <2>1, <2>2, <6>1 DEF Segments
          <6> QED
            BY <2>2, <4>1, <6>2
        <5> QED
          BY <5>1, <5>2
      <4>2. CASE e # Depth + 2
        <5>1. d \in 1..(Depth + 1) /\ e \in 1..(Depth + 1)
          BY <1>1, <3>2, <4>2
        <5> QED
          BY <2>1, <2>2, <3>2, <5>1 DEF Segments
      <4> QED
        BY <4>1, <4>2
    <3>3. ~throws => c[1] = 0
      <4>1. c[1] = b[1]
        BY <1>1, <2>2
      <4> QED
        BY <2>1, <4>1 DEF Segments
    <3> QED
      BY <1>0, <1>3, <2>2, <2>3, <3>1, <3>2, <3>3 DEF Segments
  <2> QED
    BY <1>3, <2>2, <2>3, <2>6 DEF Bases
<1> QED
  BY <1>0, <1>2, <1>7, <1>8, <1>9 DEF Kept, LiveVarsTracked, ReturnsUntrack, DeadVarsUntracked

\* The last n entries go.
LEMMA EntriesLeft ==
  ASSUME stackVars \in Seq(Nat), NEW n \in Nat, n <= Len(stackVars), LeaveScope(n)
  PROVE  /\ stackVars' \in Seq(Nat) /\ Len(stackVars') = Len(stackVars) - n
         /\ \A i \in 1..Len(stackVars') : stackVars'[i] = stackVars[i]
         /\ tracked' = tracked \ {stackVars[i] : i \in (Len(stackVars) - n + 1)..Len(stackVars)}
<1> DEFINE size == Len(stackVars)
<1>1. size \in Nat /\ \A i \in 1..size : stackVars[i] \in Nat
  OBVIOUS
<1>2. /\ stackVars' = SubSeq(stackVars, 1, size - n)
      /\ tracked' = tracked \ {stackVars[i] : i \in (size - n + 1)..size}
  <2>1. ~(n > size)
    BY <1>1
  <2> QED
    BY <2>1 DEF LeaveScope
<1>3. \A i \in 1..(size - n) : stackVars[i] \in Nat
  BY <1>1
<1>4. /\ SubSeq(stackVars, 1, size - n) \in Seq(Nat)
      /\ Len(SubSeq(stackVars, 1, size - n)) = IF 1 <= size - n THEN size - n - 1 + 1 ELSE 0
      /\ \A i \in 1..(size - n - 1 + 1) : SubSeq(stackVars, 1, size - n)[i] = stackVars[1 + i - 1]
  BY <1>1, <1>3, SubSeqProperties
<1>5. Len(stackVars') = size - n
  <2>1. size - n \in Nat /\ Len(stackVars') = Len(SubSeq(stackVars, 1, size - n))
    BY <1>1, <1>2
  <2>2. PICK m \in Nat : m = size - n
    BY <2>1
  <2>3. Len(stackVars') = IF 1 <= m THEN m - 1 + 1 ELSE 0
    BY <1>4, <2>1, <2>2
  <2> QED
    BY <2>2, <2>3
<1>6. \A i \in 1..(size - n) : i \in 1..(size - n - 1 + 1) /\ 1 + i - 1 = i
  BY <1>1
<1> QED
  BY <1>2, <1>4, <1>5, <1>6

\* The innermost activation is left with at most the entries that are its own,
\* and with all of them in a program without exceptions.
LEMMA ScopeLeft ==
  ASSUME Kept, Depth > 0, NEW n \in Nat, n <= Due(Top), ~throws => n = Due(Top), LeaveScope(n),
         frames' \in Seq(Frame), Len(frames') = Depth - 1, Agree(Depth - 1),
         UNCHANGED <<throws, unwinding>>
  PROVE  Kept'
<1>0. /\ Depth \in Nat \ {0} /\ Depth \in 1..Depth /\ Top \in Frame /\ FrameOK(Depth, Top)
      /\ Top = frames[Depth] /\ Depth <= MaxDepth
  BY TopType DEF Kept
<1>t. StackTypeOK /\ stackVars \in Seq(Nat) /\ Len(stackVars) \in Nat
  BY DEF Kept, StackTypeOK
<1>1. PICK b \in [1..(Depth + 1) -> Nat] : Segments(b)
  BY DEF Kept, Bases
<1>2. /\ b[Depth + 1] = Len(stackVars) /\ b[Depth] \in Nat
      /\ Segment(Depth, b[Depth], b[Depth + 1], Top, stackVars, throws)
  BY <1>0, <1>1 DEF Segments
<1>3. /\ Due(Top) \in Nat /\ b[Depth] + n <= Len(stackVars) /\ n <= Len(stackVars)
      /\ ~throws => b[Depth] + n = Len(stackVars)
  <2>1. Due(Top) \in Nat
    BY <1>0, DueType
  <2> QED
    BY <1>t, <1>2, <2>1 DEF Segment
<1>4. /\ stackVars' \in Seq(Nat) /\ Len(stackVars') = Len(stackVars) - n
      /\ \A i \in 1..Len(stackVars') : stackVars'[i] = stackVars[i]
      /\ tracked' = tracked \ {stackVars[i] : i \in (Len(stackVars) - n + 1)..Len(stackVars)}
  BY <1>t, <1>3, EntriesLeft
<1>5. Depth' = Depth - 1
  BY DEF Depth
<1>6. ASSUME NEW d \in 1..(Depth - 1)
      PROVE  /\ d \in 1..Depth /\ d # Depth /\ d \in Nat \ {0} /\ d <= Depth - 1
             /\ frames'[d] \in Frame /\ FrameOK(d, frames'[d])
             /\ frames'[d].live = frames[d].live /\ Due(frames'[d]) = Due(frames[d])
  <2>1. d \in 1..Depth /\ d # Depth /\ d \in Nat \ {0} /\ d <= Depth - 1
    BY <1>0
  <2> QED
    BY <2>1 DEF Agree
<1>7. StackTypeOK'
  <2>1. tracked' \subseteq 1..(MaxDepth * Slots)
    BY <1>t, <1>4 DEF StackTypeOK
  <2>2. Depth - 1 <= MaxDepth
    BY <1>0, ScopeBounds
  <2> QED
    BY <1>t, <1>4, <1>5, <1>6, <2>1, <2>2 DEF StackTypeOK, FrameOK, Due, SlotsAt
\* What is left behind becomes the caller's.
<1>8. Bases'
  <2>1. PICK c \in [1..Depth -> Nat] :
          c[Depth] = Len(stackVars') /\ \A d \in 1..(Depth - 1) : c[d] = b[d]
    <3> DEFINE c == [d \in 1..Depth |-> IF d = Depth THEN Len(stackVars') ELSE b[d]]
    <3>1. Len(stackVars') \in Nat
      BY <1>4
    <3>2. \A d \in 1..Depth : d \in 1..(Depth + 1)
      BY <1>0
    <3>3. c \in [1..Depth -> Nat]
      BY <3>1, <3>2
    <3> QED
      BY <1>0, <1>6, <3>3
  <2>2. ASSUME NEW d \in 1..(Depth - 1)
        PROVE  Segment(d, c[d], c[d + 1], frames'[d], stackVars', throws)
    <3>1. Segment(d, b[d], b[d + 1], frames[d], stackVars, throws) /\ c[d] = b[d] /\ d + 1 \in 1..Depth
      BY <1>0, <1>1, <1>6, <2>1 DEF Segments
    <3>2. /\ b[d] \in Nat /\ b[d + 1] \in Nat /\ Due(frames[d]) \in Nat
          /\ c[d + 1] \in Nat /\ b[d + 1] <= c[d + 1]
          /\ ~throws => c[d + 1] = b[d + 1]
      <4>1. b[d] \in Nat /\ b[d + 1] \in Nat
        BY <1>0, <1>6, <3>1
      <4>2. Due(frames[d]) \in Nat
        BY <1>6, DueType
      <4>3. CASE d + 1 = Depth
        BY <1>t, <1>3, <1>4, <2>1, <4>1, <4>2, <4>3
      <4>4. CASE d + 1 # Depth
        <5>1. d + 1 \in 1..(Depth - 1)
          BY <1>0, <1>6, <4>4
        <5>2. c[d + 1] = b[d + 1]
          BY <2>1, <5>1
        <5> QED
          BY <4>1, <4>2, <5>2
      <4> QED
        BY <4>3, <4>4
    <3>3. \A i \in 1..Len(stackVars') : i \in 1..Len(stackVars)
      BY <1>t, <1>4
    <3>4. Due(frames'[d]) = Due(frames[d]) /\ frames'[d].live = frames[d].live
      BY <1>6
    <3>5. ASSUME ~throws, NEW v \in frames[d].live
          PROVE  \E i \in 1..Len(stackVars') : i > c[d] /\ i <= c[d + 1] /\ stackVars'[i] = v
      <4>1. PICK i \in 1..Len(stackVars) : i > b[d] /\ i <= b[d + 1] /\ stackVars[i] = v
        BY <3>1, <3>5 DEF Segment
      <4>2. b[d + 1] <= b[Depth]
        <5>1. d + 1 \in 1..(Depth + 1) /\ Depth \in 1..(Depth + 1) /\ d + 1 <= Depth
          BY <1>0, <1>6
        <5> QED
          BY <1>1, <5>1 DEF Segments
      <4>3. i \in 1..Len(stackVars')
        <5>1. b[Depth] <= Len(stackVars') /\ Len(stackVars') \in Nat
          BY <1>t, <1>2, <1>3, <1>4
        <5> QED
          BY <1>2, <3>2, <4>1, <4>2, <5>1
      <4>4. c[d] = b[d] /\ c[d + 1] = b[d + 1]
        BY <3>1, <3>2, <3>5
      <4>5. stackVars'[i] = v
        BY <1>4, <4>1, <4>3
      <4> QED
        BY <4>1, <4>3, <4>4, <4>5
    <3> QED
      BY <1>4, <3>1, <3>2, <3>3, <3>4, <3>5 DEF Segment
  <2>3. ASSUME NEW d \in 1..Depth, NEW e \in 1..Depth, d <= e
        PROVE  c[d] <= c[e]
    <3>1. /\ d \in 1..(Depth + 1) /\ e \in 1..(Depth + 1) /\ Depth \in 1..(Depth + 1)
          /\ b[d] \in Nat /\ b[e] \in Nat
      BY <1>0
    <3>2. b[d] <= b[e] /\ b[d] <= b[Depth]
      BY <1>0, <1>1, <2>3, <3>1 DEF Segments
    <3>3. b[Depth] <= Len(stackVars')
      BY <1>t, <1>2, <1>3, <1>4
    <3>4. d = Depth \/ d \in 1..(Depth - 1)
      BY <1>0
    <3>5. e = Depth \/ e \in 1..(Depth - 1)
      BY <1>0
    <3>6. d = Depth => e = Depth
      BY <1>0, <2>3
    <3>7. c[d] \in Nat /\ Len(stackVars') \in Nat
      BY <1>4, <2>1
    <3> QED
      BY <1>2, <2>1, <3>1, <3>2, <3>3, <3>4, <3>5, <3>6, <3>7
  <2>4. Depth - 1 + 1 = Depth
    BY <1>0
  <2>6. ~throws => c[1] = 0
    <3>1. ~throws => b[1] = 0
      BY <1>1 DEF Segments
    <3>2. CASE Depth = 1
      BY <1>2, <1>3, <1>4, <1>t, <2>1, <3>1, <3>2
    <3>3. CASE Depth # 1
      <4>1. 1 \in 1..(Depth - 1)
        BY <1>0, <3>3
      <4> QED
        BY <2>1, <3>1, <4>1
    <3> QED
      BY <3>2, <3>3
  <2>5. Segments(c)'
    BY <1>5, <2>1, <2>2, <2>3, <2>4, <2>6 DEF Segments
  <2> QED
    BY <1>5, <2>1, <2>4, <2>5 DEF Bases
\* What is erased are the variables of this activation, or of deeper ones.
<1>9. ASSUME NEW d \in 1..(Depth - 1), NEW v \in frames[d].live, NEW i \in (Len(stackVars) - n + 1)..Len(stackVars)
      PROVE  stackVars[i] # v
  <2>1. v <= (Depth - 1) * Slots
    <3>1. v \in SlotsAt(d)
      BY <1>6 DEF FrameOK
    <3>2. Depth - 1 \in Nat
      BY <1>0
    <3> QED
      BY <1>6, <3>1, <3>2, SlotsRange
  <2>2. stackVars[i] > (Depth - 1) * Slots
    <3>1. i \in 1..Len(stackVars) /\ i > b[Depth]
      BY <1>t, <1>2, <1>3
    <3> QED
      BY <1>2, <3>1 DEF Segment
  <2>3. (Depth - 1) * Slots \in Nat /\ stackVars[i] \in Nat /\ v \in Nat
    <3>1. i \in 1..Len(stackVars) /\ Depth - 1 \in Nat
      BY <1>0, <1>t, <1>3
    <3>2. v \in Nat
      BY <1>6, SlotsRange DEF FrameOK
    <3>3. (Depth - 1) * Slots \in Nat
      BY <3>1, SlotOrder
    <3>4. stackVars[i] \in Nat
      BY <1>t, <3>1
    <3> QED
      BY <3>2, <3>3, <3>4
  <2> HIDE DEF Due
  <2> QED
    BY <2>1, <2>2, <2>3
<1>10. \A d \in 1..Depth : d \in 1..(Depth - 1) \/ d = Depth
  BY <1>0
<1>11. Live' = UNION {frames[d].live : d \in 1..(Depth - 1)}
  BY <1>5, <1>6 DEF Live
<1>12. LiveVarsTracked'
  <2>1. UNION {frames[d].live : d \in 1..(Depth - 1)} \subseteq tracked
    BY <1>6 DEF Kept, LiveVarsTracked, Live
  <2> QED
    BY <1>4, <1>9, <1>11, <2>1 DEF LiveVarsTracked
<1>13. ReturnsUntrack'
  <2>1. SUFFICES ASSUME ~throws, NEW v \in tracked' PROVE v \in Live'
    BY DEF ReturnsUntrack, DeadVarsUntracked
  <2>2. v \in tracked /\ v \in Live
    BY <1>4, <2>1 DEF Kept, ReturnsUntrack, DeadVarsUntracked
  <2>3. ASSUME v \in Top.live PROVE FALSE
    <3>1. PICK i \in 1..Len(stackVars) : i > b[Depth] /\ stackVars[i] = v
      BY <1>2, <2>1, <2>3 DEF Segment
    <3>2. i \in (Len(stackVars) - n + 1)..Len(stackVars)
      BY <1>t, <1>2, <1>3, <2>1, <3>1
    <3> QED
      BY <1>4, <2>1, <3>1, <3>2
  <2>4. PICK d \in 1..Depth : v \in frames[d].live
    BY <2>2 DEF Live
  <2>5. d # Depth
    BY <1>0, <2>3, <2>4
  <2> QED
    BY <1>10, <1>11, <2>4, <2>5
<1> QED
  BY <1>7, <1>8, <1>12, <1>13 DEF Kept

\* A variable is allocated.
LEMMA VariableAllocated ==
  ASSUME Kept, AllocStack
  PROVE  Kept' /\ \A d \in 1..Depth : frames'[d].site = frames[d].site
<1>0. /\ Depth > 0 /\ Depth \in Nat \ {0} /\ Depth \in 1..Depth /\ Top \in Frame /\ FrameOK(Depth, Top)
      /\ Top = frames[Depth] /\ Depth <= MaxDepth
  BY TopType DEF Kept, AllocStack, Running
<1>t. StackTypeOK /\ stackVars \in Seq(Nat) /\ Len(stackVars) \in Nat
  BY DEF Kept, StackTypeOK
<1>1. PICK v \in SlotsAt(Depth) \ Top.block :
        /\ SetTop([Top EXCEPT !.live = Top.live \cup {v}, !.block = Top.block \cup {v},
                              !.regs = Top.regs + 1])
        /\ tracked' = tracked \cup {v} /\ stackVars' = Append(stackVars, v)
        /\ Top.regs < MaxRegs
  BY DEF AllocStack
<1>u. UNCHANGED <<unwinding, throws>>
  BY DEF AllocStack
<1>v. v \in Nat /\ v > (Depth - 1) * Slots /\ v <= MaxDepth * Slots /\ v >= 1
  <2>1. v \in Nat /\ v > (Depth - 1) * Slots /\ v <= MaxDepth * Slots
    BY <1>0, SlotsRange, ScopeBounds
  <2>2. (Depth - 1) * Slots \in Nat
    BY <1>0, SlotOrder
  <2> QED
    BY <2>1, <2>2
<1> DEFINE f == [Top EXCEPT !.live = Top.live \cup {v}, !.block = Top.block \cup {v}, !.regs = Top.regs + 1]
<1>2. /\ f \in Frame /\ f.live = Top.live \cup {v} /\ f.block = Top.block \cup {v} /\ f.regs = Top.regs + 1
      /\ f.counter = Top.counter /\ f.site = Top.site
  <2>1. Top.live \cup {v} \in SUBSET Nat /\ Top.block \cup {v} \in SUBSET Nat /\ Top.regs + 1 \in Nat
    BY <1>0, <1>v DEF Frame
  <2>2. PICK x \in SUBSET Nat, y \in SUBSET Nat, r \in Nat :
          x = Top.live \cup {v} /\ y = Top.block \cup {v} /\ r = Top.regs + 1
    BY <2>1
  <2>3. f = [Top EXCEPT !.live = x, !.block = y, !.regs = r]
    BY <2>2
  <2> HIDE DEF f
  <2> QED
    BY <1>0, <2>2, <2>3 DEF Frame
<1>c. frames' = [frames EXCEPT ![Depth] = f]
  BY <1>1 DEF SetTop
<1> HIDE DEF f
<1>3. Due(f) = Due(Top) + 1 /\ Due(Top) \in Nat
  <2>1. IsFiniteSet(Top.block) /\ Due(Top) \in Nat /\ Top.counter \in Nat /\ Cardinality(Top.block) \in Nat
    BY <1>0, DueType
  <2>2. Cardinality(Top.block \cup {v}) = Cardinality(Top.block) + 1
    BY <2>1, FS_AddElement
  <2> QED
    BY <1>2, <2>1, <2>2 DEF Due
<1>4. FrameOK(Depth, f)
  BY <1>0, <1>1, <1>2, <1>3, ScopeBounds DEF FrameOK, Frame
<1>5. /\ frames' \in Seq(Frame) /\ Len(frames') = Depth /\ frames'[Depth] = f
      /\ \A d \in 1..Depth : d # Depth => frames'[d] = frames[d]
  <2>g. PICK g \in Frame : g = f
    BY <1>2
  <2> DEFINE s == [frames EXCEPT ![Depth] = g]
  <2>1. /\ s \in Seq(Frame) /\ Len(s) = Depth /\ s[Depth] = g
        /\ \A d \in 1..Depth : d # Depth => s[d] = frames[d]
    <3>1. StackTypeOK /\ Depth > 0
      BY <1>0, <1>t
    <3> QED
      BY <3>1, TopReplaced
  <2>2. frames' = s
    BY <1>c, <2>g
  <2> HIDE DEF s
  <2> QED
    BY <2>g, <2>1, <2>2
<1>6. Depth' = Depth
  BY <1>5 DEF Depth
<1>7. /\ stackVars' \in Seq(Nat) /\ Len(stackVars') = Len(stackVars) + 1
      /\ stackVars'[Len(stackVars) + 1] = v
      /\ \A i \in 1..Len(stackVars) : stackVars'[i] = stackVars[i]
  BY <1>t, <1>1, <1>v, AppendProperties
<1>8. StackTypeOK'
  <2>1. \A d \in 1..Depth : FrameOK(d, frames'[d])
    BY <1>t, <1>4, <1>5 DEF StackTypeOK
  <2>2. tracked' \subseteq 1..(MaxDepth * Slots)
    <3>1. MaxDepth * Slots \in Nat
      BY ScopeBounds, SlotOrder
    <3>2. v \in 1..(MaxDepth * Slots)
      BY <1>v, <3>1
    <3> QED
      BY <1>t, <1>1, <3>2 DEF StackTypeOK
  <2> QED
    BY <1>t, <1>u, <1>5, <1>6, <1>7, <2>1, <2>2 DEF StackTypeOK, FrameOK, Due, SlotsAt
<1>9. Live' = Live \cup {v}
  <2>1. \A d \in 1..Depth : frames'[d].live = IF d = Depth THEN frames[d].live \cup {v} ELSE frames[d].live
    BY <1>0, <1>2, <1>5
  <2> QED
    BY <1>0, <1>6, <2>1 DEF Live
<1>10. Bases'
  <2>1. PICK b \in [1..(Depth + 1) -> Nat] : Segments(b)
    BY DEF Kept, Bases
  <2>c. PICK c : c = [b EXCEPT ![Depth + 1] = Len(stackVars) + 1]
    OBVIOUS
  <2>2. /\ c \in [1..(Depth + 1) -> Nat] /\ c[Depth + 1] = Len(stackVars) + 1
        /\ b[Depth + 1] = Len(stackVars)
        /\ \A d \in 1..Depth : c[d] = b[d] /\ d \in 1..(Depth + 1) /\ d + 1 \in 1..(Depth + 1)
                               /\ d # Depth + 1 /\ b[d] \in Nat /\ b[d] <= Len(stackVars)
    <3>1. b[Depth + 1] = Len(stackVars) /\ \A d \in 1..(Depth + 1) : b[d] \in Nat /\ b[d] <= b[Depth + 1]
      <4>1. Depth + 1 \in 1..(Depth + 1) /\ \A d \in 1..(Depth + 1) : d <= Depth + 1
        BY <1>0
      <4> QED
        BY <2>1, <4>1 DEF Segments
    <3>2. Depth + 1 \in 1..(Depth + 1) /\ Len(stackVars) + 1 \in Nat
      BY <1>0, <1>t
    <3>3. \A d \in 1..Depth : d \in 1..(Depth + 1) /\ d + 1 \in 1..(Depth + 1) /\ d # Depth + 1
      BY <1>0
    <3> QED
      BY <2>c, <3>1, <3>2, <3>3
  <2>3. ASSUME NEW d \in 1..(Depth + 1), NEW e \in 1..(Depth + 1), d <= e
        PROVE  c[d] <= c[e]
    <3>1. (d = Depth + 1 \/ d \in 1..Depth) /\ (e = Depth + 1 \/ e \in 1..Depth)
      BY <1>0
    <3>2. CASE e = Depth + 1
      BY <1>t, <2>2, <3>1, <3>2
    <3>3. CASE e \in 1..Depth
      <4>1. d \in 1..Depth
        BY <1>0, <2>3, <3>3
      <4> QED
        BY <2>1, <2>2, <2>3, <3>3, <4>1 DEF Segments
    <3> QED
      BY <3>1, <3>2, <3>3
  \* The new entry is a variable of the deepest activation.
  <2>4. ASSUME NEW d \in 1..Depth
        PROVE  \A i \in 1..Len(stackVars') : i > b[d] => stackVars'[i] > (d - 1) * Slots
    <3>1. \A i \in 1..Len(stackVars) : i > b[d] => stackVars[i] > (d - 1) * Slots
      BY <2>1 DEF Segments, Segment
    <3>2. v > (d - 1) * Slots
      <4>1. d - 1 \in Nat /\ Depth - 1 \in Nat /\ d - 1 <= Depth - 1
        BY <1>0
      <4>2. (d - 1) * Slots \in Nat /\ (Depth - 1) * Slots \in Nat /\ (d - 1) * Slots <= (Depth - 1) * Slots
        BY <4>1, SlotOrder
      <4> QED
        BY <1>v, <4>2
    <3>3. \A i \in 1..Len(stackVars') : i \in 1..Len(stackVars) \/ i = Len(stackVars) + 1
      BY <1>t, <1>7
    <3> QED
      BY <1>7, <3>1, <3>2, <3>3
  <2>5. \A i \in 1..Len(stackVars) : i \in 1..Len(stackVars')
    BY <1>t, <1>7
  <2>6. ASSUME NEW d \in 1..Depth
        PROVE  Segment(d, c[d], c[d + 1], frames'[d], stackVars', throws)
    <3>0. Segment(d, b[d], b[d + 1], frames[d], stackVars, throws)
      BY <2>1 DEF Segments
    <3>1. CASE d # Depth
      <4>1. c[d] = b[d] /\ c[d + 1] = b[d + 1] /\ frames'[d] = frames[d]
        <5>1. d + 1 \in 1..Depth
          BY <1>0, <3>1
        <5> QED
          BY <1>5, <2>2, <3>1, <5>1
      <4>2. \A w \in frames[d].live :
              (\E i \in 1..Len(stackVars) : i > b[d] /\ i <= b[d + 1] /\ stackVars[i] = w) =>
              (\E i \in 1..Len(stackVars') : i > b[d] /\ i <= b[d + 1] /\ stackVars'[i] = w)
        BY <1>7, <2>5
      <4> QED
        BY <2>4, <3>0, <4>1, <4>2 DEF Segment
    <3>2. CASE d = Depth
      <4>1. /\ c[d] = b[d] /\ c[d + 1] = b[d + 1] + 1 /\ b[d + 1] = Len(stackVars) /\ b[d] \in Nat
            /\ b[d] <= Len(stackVars) /\ frames'[d] = f /\ frames[d] = Top
        BY <1>0, <1>5, <2>2, <3>2
      <4>2. c[d] + Due(f) <= c[d + 1] /\ (~throws => c[d] + Due(f) = c[d + 1])
        BY <1>t, <1>3, <3>0, <4>1 DEF Segment
      <4>3. ASSUME ~throws, NEW w \in f.live
            PROVE  \E i \in 1..Len(stackVars') : i > c[d] /\ i <= c[d + 1] /\ stackVars'[i] = w
        <5>1. CASE w = v
          <6>1. Len(stackVars) + 1 \in 1..Len(stackVars')
            BY <1>t, <1>7
          <6>2. Len(stackVars) + 1 > c[d] /\ Len(stackVars) + 1 <= c[d + 1]
            BY <1>t, <4>1
          <6> QED
            BY <1>7, <5>1, <6>1, <6>2
        <5>2. CASE w \in Top.live
          <6>1. PICK i \in 1..Len(stackVars) : i > b[d] /\ i <= b[d + 1] /\ stackVars[i] = w
            BY <3>0, <4>1, <4>3, <5>2 DEF Segment
          <6>2. i \in 1..Len(stackVars') /\ i > c[d] /\ i <= c[d + 1] /\ stackVars'[i] = w
            BY <1>t, <1>7, <2>5, <4>1, <6>1
          <6> QED
            BY <6>2
        <5> QED
          BY <1>2, <4>3, <5>1, <5>2
      <4> QED
        BY <2>4, <4>1, <4>2, <4>3 DEF Segment
    <3> QED
      BY <3>1, <3>2
  <2>7. ~throws => c[1] = 0
    <3>1. c[1] = b[1]
      BY <1>0, <2>2
    <3> QED
      BY <2>1, <3>1 DEF Segments
  <2>8. Segments(c)'
    BY <1>6, <1>7, <1>u, <2>2, <2>3, <2>6, <2>7 DEF Segments
  <2> QED
    BY <1>6, <2>2, <2>8 DEF Bases
<1>11. LiveVarsTracked' /\ ReturnsUntrack'
  BY <1>1, <1>9, <1>u DEF Kept, LiveVarsTracked, ReturnsUntrack, DeadVarsUntracked
<1>12. \A d \in 1..Depth : frames'[d].site = frames[d].site
  BY <1>0, <1>2, <1>5
<1> QED
  BY <1>8, <1>10, <1>11, <1>12 DEF Kept

-----------------------------------------------------------------------------
(* The actions.                                                            *)

LEMMA TopSet ==
  ASSUME StackTypeOK, Depth > 0, NEW f \in Frame, SetTop(f),
         FrameOK(Depth, f), f.live = Top.live, Due(f) = Due(Top)
  PROVE  /\ frames' \in Seq(Frame) /\ Len(frames') = Depth /\ Agree(Depth)
         /\ \A d \in 1..Depth : d # Depth => frames'[d] = frames[d]
<1> DEFINE s == [frames EXCEPT ![Depth] = f]
<1>1. /\ Depth \in Nat \ {0} /\ Depth \in 1..Depth
      /\ s \in Seq(Frame) /\ Len(s) = Depth /\ s[Depth] = f
      /\ \A d \in 1..Depth : d # Depth => s[d] = frames[d]
  BY TopReplaced
<1>2. frames' = s
  BY DEF SetTop
<1> HIDE DEF s
<1>3. Top = frames[Depth]
  BY DEF Top
<1>4. ASSUME NEW d \in 1..Depth
      PROVE  /\ frames'[d] \in Frame /\ FrameOK(d, frames'[d])
             /\ frames'[d].live = frames[d].live /\ Due(frames'[d]) = Due(frames[d])
  <2>1. CASE d = Depth
    BY <1>1, <1>2, <1>3, <2>1
  <2>2. CASE d # Depth
    <3>1. frames \in Seq(Frame) /\ d \in 1..Len(frames)
      BY DEF StackTypeOK, Depth
    <3>2. frames[d] \in Frame /\ FrameOK(d, frames[d])
      BY <3>1 DEF StackTypeOK
    <3>3. frames'[d] = frames[d]
      BY <1>1, <1>2, <2>2
    <3> QED
      BY <3>2, <3>3
  <2> QED
    BY <2>1, <2>2
<1>5. Agree(Depth)
  BY <1>4 DEF Agree
<1> QED
  BY <1>1, <1>2, <1>5

\* The innermost activation is gone.
LEMMA FramesPopped ==
  ASSUME StackTypeOK, Depth > 0, PopFrame \/ frames' = SubSeq(frames, 1, Depth - 1)
  PROVE  /\ frames' \in Seq(Frame) /\ Len(frames') = Depth - 1 /\ Agree(Depth - 1)
         /\ frames' = SubSeq(frames, 1, Depth - 1) => \A d \in 1..(Depth - 1) : frames'[d] = frames[d]
<1> DEFINE s == SubSeq(frames, 1, Depth - 1)
<1>0. /\ frames \in Seq(Frame) /\ Depth = Len(frames) /\ Depth \in Nat \ {0}
      /\ \A d \in 1..Depth : frames[d] \in Frame /\ FrameOK(d, frames[d])
  BY DEF StackTypeOK, Depth
<1>1. s \in Seq(Frame) /\ Len(s) = Depth - 1 /\ \A d \in 1..(Depth - 1) : s[d] = frames[d]
  <2>1. PICK m \in Nat : m = Depth - 1
    BY <1>0
  <2>2. \A d \in 1..m : frames[d] \in Frame
    BY <1>0, <2>1
  <2>3. /\ SubSeq(frames, 1, m) \in Seq(Frame)
        /\ Len(SubSeq(frames, 1, m)) = IF 1 <= m THEN m - 1 + 1 ELSE 0
        /\ \A d \in 1..(m - 1 + 1) : SubSeq(frames, 1, m)[d] = frames[1 + d - 1]
    BY <2>2, SubSeqProperties
  <2>4. Len(SubSeq(frames, 1, m)) = m
    BY <2>3
  <2>5. \A d \in 1..m : SubSeq(frames, 1, m)[d] = frames[d]
    BY <2>3
  <2>6. s = SubSeq(frames, 1, m)
    BY <2>1
  <2> HIDE DEF s
  <2> QED
    BY <2>1, <2>3, <2>4, <2>5, <2>6
<1> HIDE DEF s
<1>2. CASE frames' = s
  <2>1. \A d \in 1..(Depth - 1) : d \in 1..Depth
    BY <1>0
  <2>2. Agree(Depth - 1)
    BY <1>0, <1>1, <1>2, <2>1 DEF Agree
  <2> QED
    BY <1>1, <1>2, <2>2
<1>3. CASE PopFrame /\ Depth = 1
  <2>1. frames' = <<>>
    BY <1>3 DEF PopFrame
  <2>2. frames' \in Seq(Frame) /\ Len(frames') = 0 /\ 1..(Depth - 1) = {}
    BY <1>3, <2>1
  <2> QED
    BY <1>3, <2>2 DEF Agree
<1>4. CASE PopFrame /\ Depth # 1
  <2>1. PICK m \in Nat \ {0} : m = Depth - 1
    BY <1>0, <1>4
  <2>2. s \in Seq(Frame) /\ Len(s) = m /\ m \in 1..m /\ s[m] \in Frame /\ s[m] = frames[m] /\ m \in 1..Depth
    BY <1>0, <1>1, <2>1
  <2> DEFINE g == [s[m] EXCEPT !.site = "none"]
             r == [s EXCEPT ![m] = g]
  <2>3. frames' = r
    BY <1>4, <2>1 DEF PopFrame, s
  <2>4. /\ g \in Frame /\ FrameOK(m, g) /\ g.live = frames[m].live /\ Due(g) = Due(frames[m])
    BY <1>0, <2>2, SiteDue
  <2> HIDE DEF g
  <2>5. /\ r \in Seq(Frame) /\ Len(r) = m /\ r[m] = g /\ \A d \in 1..m : d # m => r[d] = s[d]
    BY <2>2, <2>4
  <2> HIDE DEF r
  <2>6. ASSUME NEW d \in 1..m
        PROVE  /\ r[d] \in Frame /\ FrameOK(d, r[d]) /\ r[d].live = frames[d].live /\ Due(r[d]) = Due(frames[d])
    <3>1. CASE d = m
      BY <2>4, <2>5, <3>1
    <3>2. CASE d # m
      <4>1. r[d] = frames[d] /\ d \in 1..Depth
        BY <1>0, <1>1, <2>1, <2>5, <3>2
      <4> QED
        BY <1>0, <4>1
    <3> QED
      BY <3>1, <3>2
  <2>7. Agree(Depth - 1)
    BY <2>1, <2>3, <2>6 DEF Agree
  <2>8. ASSUME frames' = SubSeq(frames, 1, Depth - 1)
        PROVE  \A d \in 1..(Depth - 1) : frames'[d] = frames[d]
    BY <1>1, <2>8 DEF s
  <2> QED
    BY <2>1, <2>3, <2>5, <2>7, <2>8
<1> QED
  BY <1>2, <1>3, <1>4 DEF s

LEMMA ScopeNext == ScopeInv /\ [Next]_vars => ScopeInv'
<1> SUFFICES ASSUME ScopeInv, [Next]_vars PROVE ScopeInv'
  OBVIOUS
<1> USE DEF ScopeInv
<1>t. Kept /\ StackTypeOK
  BY DEF Kept
<1>f. ASSUME Depth > 0
      PROVE  /\ Depth \in Nat \ {0} /\ Depth \in 1..Depth /\ Top \in Frame /\ FrameOK(Depth, Top)
             /\ Top = frames[Depth]
             /\ EndOfBlock(Top) \in Frame /\ FrameOK(Depth, EndOfBlock(Top))
             /\ EndOfBlock(Top).live = Top.live /\ Due(EndOfBlock(Top)) = Due(Top)
             /\ EndOfBlock(Top).counter = Due(Top)
             /\ Top.counter \in Nat /\ Due(Top) \in Nat /\ Top.counter <= Due(Top)
  <2>1. /\ Depth \in Nat \ {0} /\ Depth \in 1..Depth /\ Top \in Frame /\ FrameOK(Depth, Top)
        /\ Top = frames[Depth]
    BY <1>f, <1>t, TopType
  <2>2. Top.counter \in Nat /\ Due(Top) \in Nat /\ Cardinality(Top.block) \in Nat
    BY <2>1, DueType
  <2>3. Top.counter <= Due(Top)
    BY <2>2 DEF Due
  <2> QED
    BY <2>1, <2>2, <2>3, EndOfBlockDue
<1>1. CASE AllocStack
  <2>1. Handled'
    BY <1>1 DEF AllocStack, Running, Handled
  <2> QED
    BY <1>1, <1>t, <2>1, VariableAllocated
<1>2. CASE EndBlock
  <2>1. Depth > 0 /\ SetTop(EndOfBlock(Top)) /\ ~unwinding
        /\ UNCHANGED <<tracked, stackVars, throws, unwinding>> /\ unwinding \in BOOLEAN
    BY <1>2, <1>t DEF EndBlock, Running, StackTypeOK
  <2>2. frames' \in Seq(Frame) /\ Len(frames') = Depth /\ Agree(Depth)
    BY <1>t, <1>f, <2>1, TopSet
  <2>3. Kept'
    BY <1>t, <2>1, <2>2, SameScopes
  <2> QED
    BY <2>1, <2>3 DEF Handled
<1>3. CASE CallFunction \/ InvokeFunction
  <2>1. Depth > 0 /\ ~unwinding'
    BY <1>3 DEF CallFunction, InvokeFunction, EnterFunction, Running
  <2>2. PICK caller \in Frame : /\ EnterFunction(caller) /\ FrameOK(Depth, caller)
                                /\ caller.live = Top.live /\ Due(caller) = Due(Top)
    <3>1. CASE CallFunction
      <4> DEFINE g == [Top EXCEPT !.site = "call"]
      <4>1. g \in Frame /\ FrameOK(Depth, g) /\ g.live = Top.live /\ Due(g) = Due(Top)
        BY <1>f, <2>1, SiteDue
      <4>2. EnterFunction(g)
        BY <3>1 DEF CallFunction
      <4> HIDE DEF g
      <4> QED
        BY <4>1, <4>2
    <3>2. CASE InvokeFunction
      <4> DEFINE h == EndOfBlock(Top)
                 g == [h EXCEPT !.site = "invoke"]
      <4>0. h \in Frame /\ FrameOK(Depth, h) /\ h.live = Top.live /\ Due(h) = Due(Top)
        BY <1>f, <2>1
      <4>2. EnterFunction(g)
        BY <3>2 DEF InvokeFunction
      <4> HIDE DEF h
      <4>1. g \in Frame /\ FrameOK(Depth, g) /\ g.live = h.live /\ Due(g) = Due(h)
        BY <1>f, <2>1, <4>0, SiteDue
      <4> HIDE DEF g
      <4> QED
        BY <4>0, <4>1, <4>2
    <3> QED
      BY <1>3, <3>1, <3>2
  <2>3. Kept'
    BY <1>t, <2>2, ScopeEntered
  <2> QED
    BY <2>1, <2>3 DEF Handled
<1>4. CASE ReturnFunction
  <2>1. /\ Depth > 0 /\ ~unwinding /\ LeaveScope(EndOfBlock(Top).counter) /\ PopFrame
        /\ UNCHANGED <<throws, unwinding>>
    BY <1>4 DEF ReturnFunction, Running
  <2>2. frames' \in Seq(Frame) /\ Len(frames') = Depth - 1 /\ Agree(Depth - 1)
    BY <1>t, <2>1, FramesPopped
  <2>3. Due(Top) \in Nat /\ EndOfBlock(Top).counter = Due(Top)
    BY <1>f, <2>1
  <2>4. Kept'
    BY <1>t, <2>1, <2>2, <2>3, ScopeLeft
  <2> QED
    BY <2>1, <2>4 DEF Handled
<1>5. CASE Throw
  <2>1. /\ Depth > 0 /\ SetTop([Top EXCEPT !.site = "call"]) /\ throws /\ unwinding'
        /\ UNCHANGED <<tracked, stackVars, throws>> /\ unwinding' \in BOOLEAN
    BY <1>5 DEF Throw, Running
  <2> DEFINE g == [Top EXCEPT !.site = "call"]
  <2>2. g \in Frame /\ FrameOK(Depth, g) /\ g.live = Top.live /\ Due(g) = Due(Top) /\ SetTop(g)
    BY <1>f, <2>1, SiteDue
  <2> HIDE DEF g
  <2>3. /\ frames' \in Seq(Frame) /\ Len(frames') = Depth /\ Agree(Depth)
        /\ \A d \in 1..Depth : d # Depth => frames'[d] = frames[d]
    BY <1>t, <2>1, <2>2, TopSet
  <2>4. Kept'
    BY <1>t, <2>1, <2>3, SameScopes
  <2>5. Handled'
    <3>1. PICK d \in 1..(Depth - 1) : frames[d].site = "invoke"
      BY <1>5 DEF Throw
    <3>2. d \in 1..Depth /\ d # Depth
      BY <1>f, <2>1
    <3>3. frames'[d].site = "invoke" /\ Depth' = Depth
      BY <2>3, <3>1, <3>2 DEF Depth
    <3> QED
      BY <2>1, <3>2, <3>3 DEF Handled
  <2> QED
    BY <2>4, <2>5
<1>6. CASE Unwind
  <2>1. /\ unwinding /\ throws /\ Top.site = "call" /\ LeaveScope(Top.counter)
        /\ frames' = SubSeq(frames, 1, Depth - 1) /\ UNCHANGED <<throws, unwinding>>
    BY <1>6 DEF Unwind, Handled
  <2>2. PICK d \in 1..Depth : frames[d].site = "invoke"
    BY <2>1 DEF Handled
  <2>3. Depth > 0
    <3>1. Depth \in Nat
      BY <1>t DEF StackTypeOK, Depth
    <3> QED
      BY <2>2, <3>1
  <2>4. /\ frames' \in Seq(Frame) /\ Len(frames') = Depth - 1 /\ Agree(Depth - 1)
        /\ \A e \in 1..(Depth - 1) : frames'[e] = frames[e]
    BY <1>t, <2>1, <2>3, FramesPopped
  <2>5. Kept'
    BY <1>t, <1>f, <2>1, <2>3, <2>4, ScopeLeft
  <2>6. Handled'
    <3>1. d # Depth
      BY <1>f, <2>1, <2>2, <2>3
    <3>2. d \in 1..(Depth - 1)
      BY <1>f, <2>3, <3>1
    <3>3. frames'[d].site = "invoke" /\ Depth' = Depth - 1
      BY <2>2, <2>4, <3>2 DEF Depth
    <3> QED
      BY <2>1, <3>2, <3>3 DEF Handled
  <2> QED
    BY <2>5, <2>6
<1>7. CASE Catch
  <2>1. /\ unwinding /\ ~unwinding' /\ unwinding' \in BOOLEAN /\ SetTop([Top EXCEPT !.site = "none"])
        /\ UNCHANGED <<tracked, stackVars, throws>>
    BY <1>7 DEF Catch
  <2>2. Depth > 0
    <3>1. Depth \in Nat /\ \E d \in 1..Depth : frames[d].site = "invoke"
      BY <1>t, <2>1 DEF StackTypeOK, Depth, Handled
    <3> QED
      BY <3>1
  <2> DEFINE g == [Top EXCEPT !.site = "none"]
  <2>3. g \in Frame /\ FrameOK(Depth, g) /\ g.live = Top.live /\ Due(g) = Due(Top) /\ SetTop(g)
    BY <1>f, <2>1, <2>2, SiteDue
  <2> HIDE DEF g
  <2>4. frames' \in Seq(Frame) /\ Len(frames') = Depth /\ Agree(Depth)
    BY <1>t, <2>2, <2>3, TopSet
  <2>5. Kept'
    BY <1>t, <2>1, <2>4, SameScopes
  <2> QED
    BY <2>1, <2>5 DEF Handled
<1>8. CASE Terminated \/ UNCHANGED vars
  <2>1. UNCHANGED vars
    BY <1>8 DEF Terminated
  <2>2. frames' = frames /\ UNCHANGED <<tracked, stackVars, throws, unwinding>>
    BY <2>1 DEF vars
  <2>3. Agree(Depth) /\ frames \in Seq(Frame) /\ Len(frames) = Depth
    BY <1>t, <2>2 DEF Agree, StackTypeOK, Depth
  <2>4. unwinding' \in BOOLEAN
    BY <1>t, <2>2 DEF StackTypeOK
  <2>5. Kept'
    BY <1>t, <2>2, <2>3, <2>4, SameScopes
  <2>6. Handled'
    BY <2>2 DEF Handled, Depth
  <2> QED
    BY <2>5, <2>6
<1> QED
  BY <1>1, <1>2, <1>3, <1>4, <1>5, <1>6, <1>7, <1>8 DEF Next

LEMMA ScopeInit == Init => ScopeInv
<1> SUFFICES ASSUME Init PROVE ScopeInv
  OBVIOUS
<1>n. /\ NewFrame \in Frame /\ NewFrame.live = {} /\ NewFrame.block = {} /\ NewFrame.regs = 0
      /\ Due(NewFrame) = 0
  BY FS_EmptySet DEF NewFrame, Frame, Due
<1>1. /\ frames \in Seq(Frame) /\ Depth = 1 /\ frames[1] = NewFrame
  BY <1>n DEF Init, Depth
<1>2. FrameOK(1, NewFrame)
  BY <1>n, ScopeBounds DEF FrameOK
<1>3. \A d \in 1..Depth : d = 1
  BY <1>1
<1>4. stackVars \in Seq(Nat) /\ Len(stackVars) = 0
  BY DEF Init
<1>5. StackTypeOK /\ Handled
  <2>1. \A d \in 1..Depth : FrameOK(d, frames[d])
    BY <1>1, <1>2, <1>3
  <2>2. tracked = {} /\ throws \in BOOLEAN /\ unwinding = FALSE
    BY ScopeBounds DEF Init
  <2>3. Depth <= MaxDepth
    BY <1>1, ScopeBounds
  <2> QED
    BY <1>1, <1>4, <2>1, <2>2, <2>3 DEF StackTypeOK, Handled
<1>6. Live = {}
  BY <1>1, <1>3, <1>n DEF Live
<1>7. Bases
  <2> DEFINE b == [d \in 1..2 |-> 0]
  <2>1. b \in [1..(Depth + 1) -> Nat] /\ b[1] = 0 /\ b[2] = 0 /\ Depth + 1 = 2
    BY <1>1
  <2> HIDE DEF b
  <2>2. Segment(1, b[1], b[2], NewFrame, stackVars, throws)
    BY <1>n, <1>4, <2>1 DEF Segment
  <2>3. \A d, e \in 1..(Depth + 1) : b[d] <= b[e]
    <3>1. \A d \in 1..(Depth + 1) : d = 1 \/ d = 2
      BY <1>1
    <3> QED
      BY <2>1, <3>1
  <2>4. Segments(b)
    BY <1>1, <1>3, <1>4, <2>1, <2>2, <2>3 DEF Segments
  <2> QED
    BY <2>1, <2>4 DEF Bases
<1> QED
  BY <1>5, <1>6, <1>7 DEF Init, ScopeInv, Kept, LiveVarsTracked, ReturnsUntrack, DeadVarsUntracked

\* The inductive invariant holds.
THEOREM ScopeInvariant == Spec => []ScopeInv
BY ScopeInit, ScopeNext, PTL DEF Spec

\* Type correctness; __ta_alloca_counter stays within the callbacks executed.
THEOREM ScopesTypeCorrect == Spec => []ScopeTypeOK
<1>1. ScopeInv => ScopeTypeOK
  <2> SUFFICES ASSUME ScopeInv PROVE ScopeTypeOK
    OBVIOUS
  <2>1. StackTypeOK
    BY DEF ScopeInv, Kept
  <2>2. ASSUME NEW d \in 1..Depth
        PROVE  /\ frames[d].live \subseteq SlotsAt(d) /\ frames[d].block \subseteq frames[d].live
               /\ frames[d].regs \in 0..MaxRegs /\ frames[d].counter \in 0..MaxRegs
    <3>1. frames[d] \in Frame /\ FrameOK(d, frames[d]) /\ d \in Nat \ {0}
      BY <2>1 DEF StackTypeOK, Depth
    <3>2. frames[d].counter \in Nat /\ Cardinality(frames[d].block) \in Nat
      BY <3>1, DueType
    <3>3. frames[d].regs \in Nat
      BY <3>1 DEF Frame
    <3> QED
      BY <3>1, <3>2, <3>3, ScopeBounds DEF FrameOK, Due
  <2> QED
    BY <2>1, <2>2 DEF ScopeTypeOK, StackTypeOK
<1> QED
  BY <1>1, ScopeInvariant, PTL

\* A variable of an activation that has not been left is tracked, whatever
\* exceptions unwound above it (StackCounter, onLeaveScope).
THEOREM LiveVarsAreTracked == Spec => []LiveVarsTracked
<1>1. ScopeInv => LiveVarsTracked
  BY DEF ScopeInv, Kept
<1> QED
  BY <1>1, ScopeInvariant, PTL

\* A program that leaves its activations by returning leaves no variable behind.
THEOREM ReturnsLeaveNothing == Spec => []ReturnsUntrack
<1>1. ScopeInv => ReturnsUntrack
  BY DEF ScopeInv, Kept
<1> QED
  BY <1>1, ScopeInvariant, PTL
\* The counters of the activations account for stackVars, and for all of it in a
\* program that leaves its activations by returning.
THEOREM CountersAccount == Spec => []CountersMatchStack
<1>1. ScopeInv => CountersMatchStack
  <2> SUFFICES ASSUME Kept PROVE CountersMatchStack
    BY DEF ScopeInv
  <2> DEFINE entries == [d \in 1..Depth |-> frames[d].counter + Cardinality(frames[d].block)]
  <2>1. PICK b \in [1..(Depth + 1) -> Nat] : Segments(b)
    BY DEF Kept, Bases
  <2>2. Depth \in Nat /\ Depth + 1 \in 1..(Depth + 1) /\ 1 \in 1..(Depth + 1)
    BY DEF Kept, StackTypeOK, Depth
  <2>3. ASSUME NEW d \in 1..Depth
        PROVE  /\ entries[d] \in Nat /\ b[d] + entries[d] <= b[d + 1]
               /\ ~throws => b[d] + entries[d] = b[d + 1]
    <3>1. frames[d] \in Frame /\ FrameOK(d, frames[d]) /\ d \in Nat \ {0}
      BY DEF Kept, StackTypeOK, Depth
    <3>2. entries[d] = Due(frames[d]) /\ Due(frames[d]) \in Nat
      BY <3>1, DueType DEF Due
    <3>3. Segment(d, b[d], b[d + 1], frames[d], stackVars, throws)
      BY <2>1 DEF Segments
    <3> QED
      BY <3>2, <3>3 DEF Segment
  <2> HIDE DEF entries
  <2>4. /\ SumFunctionOnSet(entries, 1..Depth) \in Int
        /\ b[1] + SumFunctionOnSet(entries, 1..Depth) <= b[Depth + 1]
        /\ (\A d \in 1..Depth : b[d] + entries[d] = b[d + 1])
             => b[1] + SumFunctionOnSet(entries, 1..Depth) = b[Depth + 1]
    <3>1. \A d \in 1..(Depth + 1) : b[d] \in Int
      OBVIOUS
    <3>2. \A d \in 1..Depth : entries[d] \in Int /\ b[d] + entries[d] <= b[d + 1]
      BY <2>3
    <3> QED
      BY <2>2, <3>1, <3>2, SumTelescopes
  <2>5. b[1] \in Nat /\ b[Depth + 1] = Len(stackVars) /\ Len(stackVars) \in Nat /\ (~throws => b[1] = 0)
    BY <2>1, <2>2 DEF Segments, Kept, StackTypeOK
  <2>6. /\ SumFunctionOnSet(entries, 1..Depth) <= Len(stackVars)
        /\ ~throws => SumFunctionOnSet(entries, 1..Depth) = Len(stackVars)
    BY <2>3, <2>4, <2>5
  <2> QED
    BY <2>5, <2>6 DEF CountersMatchStack, entries
<1> QED
  BY <1>1, ScopeInvariant, PTL
=============================================================================
