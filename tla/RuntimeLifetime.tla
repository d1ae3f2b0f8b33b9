--------------------------- MODULE RuntimeLifetime ---------------------------
(***************************************************************************)
(* The runtime system as one object (lib/runtime/Runtime.h, Runtime.cpp):  *)
(* its construction by the first callback or query, the thread local flag  *)
(* rtScope by which RTGuard ignores what the runtime itself allocates, its *)
(* destruction by the thread that calls exit, and the report it prints     *)
(* then.  The checks of the MPI interceptor (lib/mpi_interceptor) are the  *)
(* queries.                                                                *)
(*                                                                         *)
(* What a callback does to the map and the recorder is AllocationTracker's *)
(* subject; here it is two counters that are updated one after the other.  *)
(***************************************************************************)
EXTENDS Integers, Sequences, FiniteSets, SequencesExt

CONSTANTS
  Threads,
  NoThread,   \* "nobody calls exit"
  MaxCalls,   \* bound: callbacks, queries and MPI calls of a thread
  MaxChecks,  \* bound: checks and calls the interceptor has counted
  MaxNest     \* bound: calls of the runtime inside of each other

ASSUME LifetimeAssumption ==
  /\ IsFiniteSet(Threads) /\ NoThread \notin Threads
  /\ MaxCalls \in Nat /\ MaxChecks \in Nat /\ MaxNest \in Nat

VARIABLES
  instance,       \* the static object in RuntimeSystem::get()
  rtScope,        \* rtScope[t]: thread local
  rtScopeWasSet,  \* of RTScopeInitializer
  calls,          \* calls[t]: calls of the runtime, innermost last
  ncalls,         \* calls made so far
  recorder,       \* figures of the recorder
  report,         \* what the destructor read of them
  mpi,            \* mpi[t]: buffers an MPI wrapper has yet to check
  counter,        \* CCounter and MPICounter of the interceptor
  exiting,        \* the thread that called exit
  ended,          \* the process is gone
  misuse          \* history: calls that used the object after its destruction

vars == <<instance, rtScope, rtScopeWasSet, calls, ncalls, recorder, report, mpi, counter,
          exiting, ended, misuse>>

\* How the type file is named, and what comes of loading it.
TypeFiles == [name : {"TYPEART_TYPE_FILE", "TA_TYPE_FILE", "types.yaml"}, load : {"ok", "missing", "syntax"}]

\* Buffers of MPI calls; "none" is any with mpi_count <= 0.
Buffers == {"none", "null", "known", "unknown"}

Zero == [send |-> 0, recv |-> 0, send_recv |-> 0, unsupported |-> 0,
         null_count |-> 0, null_buff |-> 0, error |-> 0, passed |-> 0]

Init ==
  /\ instance = "none"
  /\ rtScope = [t \in Threads |-> FALSE] /\ rtScopeWasSet = FALSE
  /\ calls = [t \in Threads |-> <<>>] /\ ncalls = [t \in Threads |-> 0]
  /\ recorder = [heapAllocs |-> 0, heapAlloc |-> 0]
  /\ report = [heapAllocs |-> 0, heapAlloc |-> 0]
  /\ mpi = [t \in Threads |-> <<>>] /\ counter = Zero
  /\ exiting = NoThread /\ ended = FALSE /\ misuse = {}

Top(t) == Last(calls[t])
At(t, place) == ~ended /\ calls[t] # <<>> /\ Top(t).at = place
Moved(t, place) == [calls EXCEPT ![t][Len(calls[t])].at = place]
GoTo(t, place) == calls' = Moved(t, place)

-----------------------------------------------------------------------------
(* RTGuard.                                                                *)

\* Mutant: a callback is tracked wherever it comes from.
shouldTrackAlways(alreadyInRT) == TRUE

shouldTrack(alreadyInRT) == ~alreadyInRT

\* The guard at the start of the call `op`.  A callback that is not to be tracked
\* returns at once; a query does not ask.
EnterRTGuard(t, op) ==
  /\ calls' = [calls EXCEPT ![t] =
       Append(@, [op |-> op, alreadyInRT |-> rtScope[t],
                  at |-> IF op = "query" \/ shouldTrack(rtScope[t]) THEN "get" ELSE "leave"])]
  /\ rtScope' = [rtScope EXCEPT ![t] = TRUE]

\* Mutant: every guard clears the flag.
ScopeAfterGuardClear(t) == FALSE

\* What the guard's destructor leaves.
ScopeAfterGuard(t) == Top(t).alreadyInRT /\ rtScope[t]

\* A callback or query of the program; the destructors of the program's static
\* objects make some after exit was called.
ProgramCall(t, op) ==
  /\ ~ended /\ calls[t] = <<>> /\ mpi[t] = <<>> /\ ncalls[t] < MaxCalls
  /\ ncalls' = [ncalls EXCEPT ![t] = @ + 1]
  /\ EnterRTGuard(t, op)
  /\ UNCHANGED <<instance, rtScopeWasSet, recorder, report, mpi, counter, exiting, ended, misuse>>

\* The runtime's own code allocates, and its report asks for names of types.
Inside == {"load", "body", "heapAlloc", "report"}
NestedCall(t, op) ==
  /\ ~ended /\ calls[t] # <<>> /\ Len(calls[t]) < MaxNest /\ ncalls[t] < MaxCalls
  /\ ncalls' = [ncalls EXCEPT ![t] = @ + 1]
  /\ Top(t).at \in Inside /\ (op = "query" => Top(t).at = "report")
  /\ EnterRTGuard(t, op)
  /\ UNCHANGED <<instance, rtScopeWasSet, recorder, report, mpi, counter, exiting, ended, misuse>>

Leave(t) ==
  /\ At(t, "leave")
  /\ rtScope' = [rtScope EXCEPT ![t] = ScopeAfterGuard(t)]
  /\ calls' = [calls EXCEPT ![t] = Front(@)]
  /\ UNCHANGED <<instance, rtScopeWasSet, ncalls, recorder, report, mpi, counter, exiting, ended, misuse>>

-----------------------------------------------------------------------------
(* RuntimeSystem::get().                                                   *)

\* A call constructs the object, finds it, or waits for it.
Get(t) ==
  /\ At(t, "get") /\ instance \in {"live", "destroyed"}
  /\ GoTo(t, "body")
  /\ misuse' = misuse \cup {m \in {[thread |-> t, op |-> Top(t).op]} : instance = "destroyed"}
  /\ UNCHANGED <<instance, rtScope, rtScopeWasSet, ncalls, recorder, report, mpi, counter, exiting, ended>>

\* RTScopeInitializer is the first member.
Construct(t) ==
  /\ At(t, "get") /\ instance = "none"
  /\ instance' = "constructing"
  /\ rtScopeWasSet' = rtScope[t]
  /\ rtScope' = [rtScope EXCEPT ![t] = TRUE]
  /\ GoTo(t, "load")
  /\ UNCHANGED <<ncalls, recorder, report, mpi, counter, exiting, ended, misuse>>

\* The constructor's body: a file that is named and cannot be read ends the
\* program, a missing default file does not; a syntax error goes unnoticed.
LoadTypes(t) ==
  /\ At(t, "load")
  /\ \E file \in TypeFiles :
       \/ /\ file.name # "types.yaml" /\ file.load = "missing"
          /\ ended' = TRUE /\ UNCHANGED calls
       \/ /\ file.name = "types.yaml" \/ file.load # "missing"
          /\ GoTo(t, "constructed") /\ UNCHANGED ended
  /\ UNCHANGED <<instance, rtScope, rtScopeWasSet, ncalls, recorder, report, mpi, counter, exiting, misuse>>

\* rtScopeInit.reset().
Constructed(t) ==
  /\ At(t, "constructed")
  /\ rtScope' = [rtScope EXCEPT ![t] = rtScopeWasSet]
  /\ instance' = "live"
  /\ GoTo(t, "body")
  /\ UNCHANGED <<rtScopeWasSet, ncalls, recorder, report, mpi, counter, exiting, ended, misuse>>

-----------------------------------------------------------------------------
(* What the calls do.                                                      *)

\* Mutant: the per-type figure is not kept.
AddTotals(field) == IF instance = "destroyed" THEN recorder ELSE [recorder EXCEPT !.heapAllocs = @ + 1]

\* Nothing is said of the recorder once it is destroyed.
Add(field) == IF instance = "destroyed" THEN recorder ELSE [recorder EXCEPT ![field] = @ + 1]

Callback(t) ==
  /\ At(t, "body") /\ Top(t).op = "alloc"
  /\ recorder' = Add("heapAllocs")
  /\ GoTo(t, "heapAlloc")
  /\ UNCHANGED <<instance, rtScope, rtScopeWasSet, ncalls, report, mpi, counter, exiting, ended, misuse>>

CallbackType(t) ==
  /\ At(t, "heapAlloc")
  /\ recorder' = Add("heapAlloc")
  /\ GoTo(t, "leave")
  /\ UNCHANGED <<instance, rtScope, rtScopeWasSet, ncalls, report, mpi, counter, exiting, ended, misuse>>

Query(t) ==
  /\ At(t, "body") /\ Top(t).op = "query"
  /\ GoTo(t, "leave")
  /\ UNCHANGED <<instance, rtScope, rtScopeWasSet, ncalls, recorder, report, mpi, counter, exiting, ended, misuse>>

-----------------------------------------------------------------------------
(* The MPI interceptor.                                                    *)

Check(dir, buf) == [dir |-> dir, buf |-> buf, at |-> "count"]
Inc(field) == counter' = [counter EXCEPT ![field] = @ + 1]
MPIAt(t, place) == ~ended /\ calls[t] = <<>> /\ mpi[t] # <<>> /\ Head(mpi[t]).at = place
MPIGoTo(t, place) == mpi' = [mpi EXCEPT ![t][1].at = place]
Checked(t) == mpi' = [mpi EXCEPT ![t] = Tail(@)]

\* A wrapper is entered: ta_check_send, ta_check_recv, ta_check_send_and_recv or
\* ta_unsupported_mpi_call.
MPICall(t) ==
  /\ ~ended /\ calls[t] = <<>> /\ mpi[t] = <<>> /\ ncalls[t] < MaxCalls /\ exiting # t
  /\ counter.send + counter.recv + counter.unsupported < MaxChecks
  /\ ncalls' = [ncalls EXCEPT ![t] = @ + 1]
  /\ \E buf \in Buffers :
       \/ \E dir \in {"send", "recv"} : mpi' = [mpi EXCEPT ![t] = <<Check(dir, buf)>>] /\ UNCHANGED counter
       \/ mpi' = [mpi EXCEPT ![t] = <<Check("send", buf), Check("recv", "known")>>] /\ Inc("send_recv")
       \/ UNCHANGED mpi /\ Inc("unsupported")
  /\ UNCHANGED <<instance, rtScope, rtScopeWasSet, calls, recorder, report, exiting, ended, misuse>>

CountCheck(t) ==
  /\ MPIAt(t, "count")
  /\ Inc(Head(mpi[t]).dir)
  /\ MPIGoTo(t, "check")
  /\ UNCHANGED <<instance, rtScope, rtScopeWasSet, calls, ncalls, recorder, report, exiting, ended, misuse>>

\* Mutant: a null buffer is not counted.
EarlyCounterNone(buf) == IF buf = "none" THEN "null_count" ELSE "unsupported"

EarlyCounter(buf) == IF buf = "none" THEN "null_count" ELSE "null_buff"

\* ta_check_buffer up to the query.
CheckBuffer(t) ==
  /\ MPIAt(t, "check")
  /\ \/ /\ Head(mpi[t]).buf \in {"none", "null"}
        /\ Inc(EarlyCounter(Head(mpi[t]).buf)) /\ Checked(t)
        /\ UNCHANGED <<calls, rtScope>>
     \/ /\ Head(mpi[t]).buf \notin {"none", "null"}
        /\ EnterRTGuard(t, "query") /\ MPIGoTo(t, "answer")
        /\ UNCHANGED counter
  /\ UNCHANGED <<instance, rtScopeWasSet, ncalls, recorder, report, exiting, ended, misuse>>

\* `passed` counts what the interceptor does not.
CheckStatus(t) ==
  /\ MPIAt(t, "answer")
  /\ Inc(IF Head(mpi[t]).buf = "known" THEN "passed" ELSE "error") /\ Checked(t)
  /\ UNCHANGED <<instance, rtScope, rtScopeWasSet, calls, ncalls, recorder, report, exiting, ended, misuse>>

-----------------------------------------------------------------------------
(* exit().                                                                 *)

\* The destructor runs if the object was constructed.
Exit(t) ==
  /\ ~ended /\ exiting = NoThread /\ calls[t] = <<>> /\ mpi[t] = <<>>
  /\ exiting' = t
  /\ calls' = IF instance # "live" THEN calls
              ELSE [calls EXCEPT ![t] = <<[op |-> "exit", alreadyInRT |-> FALSE, at |-> "destroy"]>>]
  /\ UNCHANGED <<instance, rtScope, rtScopeWasSet, ncalls, recorder, report, mpi, counter, ended, misuse>>

\* Mutant: the flag is left alone.
ScopeOfDestructorUnset(t) == rtScope

ScopeOfDestructor(t) == [rtScope EXCEPT ![t] = TRUE]

\* The destructor: first rtScope, then the figures in the order serialize reads
\* them, then the members.
Destroy(t) ==
  /\ At(t, "destroy")
  /\ rtScope' = ScopeOfDestructor(t)
  /\ report' = [report EXCEPT !.heapAllocs = recorder.heapAllocs]
  /\ GoTo(t, "report")
  /\ UNCHANGED <<instance, rtScopeWasSet, ncalls, recorder, mpi, counter, exiting, ended, misuse>>

ReportTypes(t) ==
  /\ At(t, "report")
  /\ report' = [report EXCEPT !.heapAlloc = recorder.heapAlloc]
  /\ GoTo(t, "members")
  /\ UNCHANGED <<instance, rtScope, rtScopeWasSet, ncalls, recorder, mpi, counter, exiting, ended, misuse>>

Destroyed(t) ==
  /\ At(t, "members")
  /\ instance' = "destroyed"
  /\ calls' = [calls EXCEPT ![t] = <<>>]
  /\ UNCHANGED <<rtScope, rtScopeWasSet, ncalls, recorder, report, mpi, counter, exiting, ended, misuse>>

EndProcess ==
  /\ ~ended /\ exiting # NoThread /\ calls[exiting] = <<>> /\ mpi[exiting] = <<>>
  /\ ended' = TRUE
  /\ UNCHANGED <<instance, rtScope, rtScopeWasSet, calls, ncalls, recorder, report, mpi, counter, exiting, misuse>>

-----------------------------------------------------------------------------
\* What a thread does next inside the runtime or an MPI wrapper.
Proceed(t) ==
  \/ Leave(t)
  \/ Get(t) \/ Construct(t) \/ LoadTypes(t) \/ Constructed(t)
  \/ Callback(t) \/ CallbackType(t) \/ Query(t)
  \/ CountCheck(t) \/ CheckBuffer(t) \/ CheckStatus(t)
  \/ Destroy(t) \/ ReportTypes(t) \/ Destroyed(t)

Ended == ended /\ UNCHANGED vars

Next ==
  \/ \E t \in Threads :
       \/ \E op \in {"alloc", "query"} : ProgramCall(t, op) \/ NestedCall(t, op)
       \/ MPICall(t) \/ Exit(t) \/ Proceed(t)
  \/ EndProcess \/ Ended

Spec == Init /\ [][Next]_vars

\* Threads are scheduled.
FairSpec == Spec /\ \A t \in Threads : WF_vars(Proceed(t))

-----------------------------------------------------------------------------
(* Properties.                                                             *)

\* Outside the runtime rtScope is as it was, however the guards, the constructor
\* and the destructor were nested, so that no allocation of the program is taken
\* for one of the runtime; only the thread that destroyed the runtime keeps it.
ScopeRestored ==
  \A t \in Threads :
    calls[t] = <<>> => (rtScope[t] <=> (t = exiting /\ instance = "destroyed"))

\* The thread that calls exit uses the runtime no more once it is destroyed,
\* whatever its static objects free.  Other threads do, and so do queries.
ExitingThreadStaysOut == [thread |-> exiting, op |-> "alloc"] \notin misuse

\* Every buffer an MPI wrapper counted was found empty, null, unknown or good, or
\* is being checked: the figures printed at MPI_Finalize add up.
ChecksBalance ==
  counter.send + counter.recv =
    counter.null_count + counter.null_buff + counter.error + counter.passed
    + Cardinality({t \in Threads : mpi[t] # <<>> /\ Head(mpi[t]).at # "count"})

\* The report, read while other threads run on, misses a type only for the
\* callbacks that were under way.
ReportCovers ==
  instance = "destroyed" => report.heapAllocs - report.heapAlloc < Cardinality(Threads)

\* A call of the runtime returns, unless the process ends before: no thread waits
\* for the object it constructs itself.
CallsEnd == \A t \in Threads : calls[t] # <<>> ~> (calls[t] = <<>> \/ ended)
=============================================================================
