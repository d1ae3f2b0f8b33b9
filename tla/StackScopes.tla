----------------------------- MODULE StackScopes -----------------------------
(***************************************************************************)
(* The stack of one thread of an instrumented program: function activations *)
(* whose allocas (or lifetime markers) call __typeart_alloc_stack and that *)
(* leave through __typeart_leave_scope with the counter StackCounter adds  *)
(* (lib/passes/instrumentation/TransformUtil.h).  The counter is advanced  *)
(* by a block's number of callbacks at the END of the block, and the scope *)
(* is left at every escape EscapeEnumerator finds: returns, and a cleanup  *)
(* landing pad for each plain call an exception may come out of.           *)
(*                                                                         *)
(* stackVars is thread local and activations of different threads have     *)
(* disjoint addresses, so one thread is enough; the tracker's operations   *)
(* are atomic here, as AllocationTracker.tla shows they appear.            *)
(***************************************************************************)
EXTENDS Integers, Sequences, FiniteSets, Functions

CONSTANTS
  Slots,        \* number of instrumented variables of an activation
  MaxDepth,     \* bound: nested activations
  MaxRegs,      \* bound: alloc_stack callbacks of an activation
  MaxCalls,     \* bound: calls the thread makes
  Exceptions    \* the kinds of programs: with exceptions (TRUE) or without

ASSUME ScopeBounds ==
  /\ Slots \in Nat /\ MaxDepth \in Nat \ {0} /\ MaxRegs \in Nat /\ MaxCalls \in Nat
  /\ Exceptions \subseteq BOOLEAN

VARIABLES
  frames,     \* activations, the innermost last
  tracked,    \* stack addresses in the runtime's map
  stackVars,  \* threadData.stackVars
  throws,     \* whether the program throws
  unwinding,  \* an exception is looking for its handler
  ncalls      \* calls made so far

vars == <<frames, tracked, stackVars, throws, unwinding, ncalls>>

Depth == Len(frames)
Top   == frames[Depth]

\* The addresses of the variables of an activation at depth d.  A later
\* activation at the same depth gets the same addresses.
SlotsAt(d) == ((d - 1) * Slots + 1)..(d * Slots)

\* An activation:
\*   live     variables whose lifetime has begun,
\*   block    variables whose callbacks the current block has executed,
\*   regs     callbacks executed so far,
\*   counter  __ta_alloca_counter,
\*   site     the instruction through which it called the next activation.
NewFrame == [live |-> {}, block |-> {}, regs |-> 0, counter |-> 0, site |-> "none"]

Init ==
  /\ frames = <<NewFrame>>
  /\ tracked = {}
  /\ stackVars = <<>>
  /\ throws \in Exceptions /\ unwinding = FALSE
  /\ ncalls = 0

SetTop(f) == frames' = [frames EXCEPT ![Depth] = f]

Running == Depth > 0 /\ ~unwinding

\* An alloca, or a lifetime.start when lifetimes are instrumented (then a loop
\* executes the callback again, and the address is pushed once more).
AllocStack ==
  /\ Running /\ Top.regs < MaxRegs
  /\ \E v \in SlotsAt(Depth) \ Top.block :
       /\ SetTop([Top EXCEPT !.live = Top.live \cup {v}, !.block = Top.block \cup {v},
                             !.regs = Top.regs + 1])
       /\ tracked' = tracked \cup {v}
       /\ stackVars' = Append(stackVars, v)
  /\ UNCHANGED <<unwinding, throws, ncalls>>

\* Mutants: a block's callbacks are counted again at its next execution; a
\* block counts as one callback.
EndOfBlockNoReset(f) == [f EXCEPT !.counter = f.counter + Cardinality(f.block)]
EndOfBlockOnce(f)    == [f EXCEPT !.counter = f.counter + 1, !.block = {}]

\* The block's terminator: counter += callbacks of the block.
EndOfBlock(f) == [f EXCEPT !.counter = f.counter + Cardinality(f.block), !.block = {}]

EndBlock ==
  /\ Running /\ Top.block # {}
  /\ SetTop(EndOfBlock(Top))
  /\ UNCHANGED <<tracked, stackVars, unwinding, throws, ncalls>>

EnterFunction(caller) ==
  /\ Running /\ Depth < MaxDepth /\ ncalls < MaxCalls
  /\ frames' = Append([frames EXCEPT ![Depth] = caller], NewFrame)
  /\ ncalls' = ncalls + 1
  /\ UNCHANGED <<tracked, stackVars, throws, unwinding>>

\* A plain call in the middle of a block.
CallFunction == EnterFunction([Top EXCEPT !.site = "call"])

\* A call in a try block: an invoke is the terminator of its block.
InvokeFunction == EnterFunction([EndOfBlock(Top) EXCEPT !.site = "invoke"])

\* Mutant: the range starts one entry too early.
LeaveScopeOneMore(n) ==
  LET size == Len(stackVars)
      k == IF n >= size THEN size ELSE n + 1 IN
  /\ tracked' = tracked \ {stackVars[i] : i \in (size - k + 1)..size}
  /\ stackVars' = SubSeq(stackVars, 1, size - k)

\* onLeaveScope(n): the last n entries (all of them if there are fewer).
LeaveScope(n) ==
  LET size == Len(stackVars)
      k == IF n > size THEN size ELSE n IN
  /\ tracked' = tracked \ {stackVars[i] : i \in (size - k + 1)..size}
  /\ stackVars' = SubSeq(stackVars, 1, size - k)

PopFrame ==
  frames' = IF Depth = 1 THEN <<>>
            ELSE [SubSeq(frames, 1, Depth - 1) EXCEPT ![Depth - 1].site = "none"]

\* Mutant: the scope is left before the block's increment.
ReturnFunctionEarly ==
  /\ Running
  /\ LeaveScope(Top.counter)
  /\ PopFrame
  /\ UNCHANGED <<unwinding, throws, ncalls>>

ReturnFunction ==
  /\ Running
  /\ LeaveScope(EndOfBlock(Top).counter)
  /\ PopFrame
  /\ UNCHANGED <<unwinding, throws, ncalls>>

\* __cxa_throw is a plain call of the innermost activation.  Without a handler
\* the program is terminated.
Throw ==
  /\ throws /\ Running
  /\ \E d \in 1..(Depth - 1) : frames[d].site = "invoke"
  /\ SetTop([Top EXCEPT !.site = "call"])
  /\ unwinding' = TRUE
  /\ UNCHANGED <<tracked, stackVars, throws, ncalls>>

\* The cleanup landing pad of a plain call: leave the scope with the counter as
\* it is, and resume unwinding in the caller.
Unwind ==
  /\ unwinding /\ Top.site = "call"
  /\ LeaveScope(Top.counter)
  /\ frames' = SubSeq(frames, 1, Depth - 1)
  /\ UNCHANGED <<unwinding, throws, ncalls>>

\* An invoke's handler catches the exception.
Catch ==
  /\ unwinding /\ Top.site = "invoke"
  /\ SetTop([Top EXCEPT !.site = "none"])
  /\ unwinding' = FALSE
  /\ UNCHANGED <<tracked, stackVars, throws, ncalls>>

\* The thread's outermost function has been left.
Terminated == Depth = 0 /\ UNCHANGED vars

Next ==
  \/ AllocStack \/ EndBlock \/ CallFunction \/ InvokeFunction \/ ReturnFunction
  \/ Throw \/ Unwind \/ Catch
  \/ Terminated

Spec == Init /\ [][Next]_vars

-----------------------------------------------------------------------------
(* Properties.                                                             *)

Live == UNION {frames[d].live : d \in 1..Depth}

\* Type correctness; __ta_alloca_counter never exceeds the number of callbacks
\* the activation can have executed.
ScopeTypeOK ==
  /\ \A d \in 1..Depth :
       /\ frames[d].live \subseteq SlotsAt(d)
       /\ frames[d].block \subseteq frames[d].live
       /\ frames[d].regs \in 0..MaxRegs
       /\ frames[d].counter \in 0..MaxRegs
  /\ tracked \subseteq 1..(MaxDepth * Slots)
  /\ unwinding \in BOOLEAN

\* A variable of an activation that has not been left is in the runtime's map,
\* also after exceptions unwound activations it called: what those leave behind
\* on stackVars never makes a later leave_scope remove an outer variable.
LiveVarsTracked == Live \subseteq tracked

\* The map holds no variable of an activation that has been left, nor of an
\* earlier activation at the same depth.
DeadVarsUntracked == tracked \subseteq Live

\* So it is in programs that leave their activations by returning.
ReturnsUntrack == ~throws => DeadVarsUntracked

\* stackVars has the entries that the counters of the activations and the
\* callbacks of their unfinished blocks account for, and no others unless an
\* exception left some.
CountersMatchStack ==
  LET entries == [d \in 1..Depth |-> frames[d].counter + Cardinality(frames[d].block)]
      due == SumFunctionOnSet(entries, 1..Depth) IN
  Len(stackVars) >= due /\ (~throws => Len(stackVars) = due)
=============================================================================
