------------------------ MODULE RuntimeLifetimeProofs ------------------------
(***************************************************************************)
(* Proofs about the runtime system as one object: rtScope is restored, the *)
(* exiting thread stays out of the destroyed object, the report misses only *)
(* callbacks under way, and the interceptor's figures add up, for any      *)
(* number of threads, calls and nesting.                                   *)
(***************************************************************************)
EXTENDS RuntimeLifetime, FiniteSetTheorems, SequenceTheorems, TLAPS

Building   == {"load", "constructed"}
Destroying == {"destroy", "report", "members"}
Places     == {"get", "leave", "body", "heapAlloc"} \cup Building \cup Destroying

Call == [op : {"alloc", "query", "exit"}, alreadyInRT : BOOLEAN, at : Places]

LifeTypeOK ==
  /\ instance \in {"none", "constructing", "live", "destroyed"}
  /\ rtScope \in [Threads -> BOOLEAN] /\ rtScopeWasSet \in BOOLEAN
  /\ calls \in [Threads -> Seq(Call)]
  /\ exiting \in Threads \cup {NoThread}

\* The thread that destroyed the runtime.
Out(t) == t = exiting /\ instance = "destroyed"

\* The i-th call c of thread t.  Its guard found rtScope set exactly if it is
\* nested or t destroyed the runtime, and then a callback does nothing; the
\* constructor and the destructor run in calls of their own.
FrameOK(t, i, c) ==
  /\ c.alreadyInRT <=> (i > 1 \/ Out(t))
  /\ c.op = "alloc" /\ c.at # "leave" => ~c.alreadyInRT
  /\ c.at = "heapAlloc" => c.op = "alloc"
  /\ c.at \in Building => instance = "constructing"
  /\ c.op = "exit" <=> c.at \in Destroying
  /\ c.op = "exit" => i = 1 /\ t = exiting /\ instance = "live"

FramesOK ==
  \A t \in Threads : \A i \in 1..Len(calls[t]) :
    /\ FrameOK(t, i, calls[t][i])
    /\ i < Len(calls[t]) => calls[t][i].at \in Inside

\* One call at most constructs the object.
OneBuilder ==
  \A t, u \in Threads : \A i \in 1..Len(calls[t]), j \in 1..Len(calls[u]) :
    calls[t][i].at \in Building /\ calls[u][j].at \in Building => t = u /\ i = j

\* Inside the runtime rtScope is set.
ScopeSet ==
  \A t \in Threads : calls[t] # <<>> /\ calls[t][Len(calls[t])].at # "destroy" => rtScope[t]

ObjectOK ==
  /\ instance # "none" => rtScopeWasSet
  /\ instance = "destroyed" => exiting # NoThread
  /\ misuse # {} => instance = "destroyed"

CallsInv == LifeTypeOK /\ FramesOK /\ OneBuilder /\ ScopeSet /\ ScopeRestored

LifeInv == CallsInv /\ ObjectOK /\ ExitingThreadStaysOut

-----------------------------------------------------------------------------
(* The three ways in which the calls of a thread change.                   *)

\* The innermost call goes on to another place.
LEMMA MovedCalls ==
  ASSUME LifeTypeOK, NEW t \in Threads, calls[t] # <<>>, NEW to \in Places, calls' = Moved(t, to)
  PROVE  /\ calls' \in [Threads -> Seq(Call)]
         /\ Len(calls[t]) \in Nat \ {0} /\ Len(calls'[t]) = Len(calls[t]) /\ calls'[t] # <<>>
         /\ calls'[t][Len(calls[t])].op = Top(t).op /\ calls'[t][Len(calls[t])].at = to
         /\ calls'[t][Len(calls[t])].alreadyInRT = Top(t).alreadyInRT
         /\ Top(t) = calls[t][Len(calls[t])] /\ Top(t) \in Call
         /\ \A i \in 1..(Len(calls[t]) - 1) : calls'[t][i] = calls[t][i]
         /\ \A u \in Threads \ {t} : calls'[u] = calls[u]
<1> DEFINE s == calls[t]
           n == Len(calls[t])
           top == [s[n] EXCEPT !.at = to]
           r == [s EXCEPT ![n] = top]
<1>1. s \in Seq(Call) /\ n \in Nat \ {0} /\ n \in 1..n
  BY DEF LifeTypeOK
<1>2. s[n] \in Call /\ top \in Call
  <2>1. s[n] \in Call
    BY <1>1
  <2> HIDE DEF s, n
  <2> QED
    BY <2>1 DEF Call
<1>3. calls' = [calls EXCEPT ![t] = r]
  BY DEF Moved
<1>4. r \in Seq(Call) /\ Len(r) = n /\ r[n] = top /\ \A i \in 1..(n - 1) : r[i] = s[i]
  <2> HIDE DEF top
  <2> QED
    BY <1>1, <1>2
<1>5. calls'[t] = r /\ \A u \in Threads \ {t} : calls'[u] = calls[u]
  BY <1>3 DEF LifeTypeOK
<1>6. calls' \in [Threads -> Seq(Call)]
  BY <1>3, <1>4 DEF LifeTypeOK
<1>7. r # <<>>
  BY <1>1, <1>4
<1>8. Top(t) = s[n] /\ top.op = s[n].op /\ top.at = to /\ top.alreadyInRT = s[n].alreadyInRT
  <2>1. Top(t) = s[n]
    BY DEF Top, Last
  <2> HIDE DEF s, n
  <2> QED
    BY <1>2, <2>1 DEF Call
<1> HIDE DEF top
<1> QED
  BY <1>1, <1>2, <1>4, <1>5, <1>6, <1>7, <1>8

\* A call is made.
LEMMA EnteredCalls ==
  ASSUME LifeTypeOK, NEW t \in Threads, NEW c \in Call, calls' = [calls EXCEPT ![t] = Append(@, c)]
  PROVE  /\ calls' \in [Threads -> Seq(Call)]
         /\ Len(calls[t]) \in Nat /\ Len(calls'[t]) = Len(calls[t]) + 1 /\ calls'[t] # <<>>
         /\ calls'[t][Len(calls[t]) + 1] = c
         /\ \A i \in 1..Len(calls[t]) : calls'[t][i] = calls[t][i]
         /\ \A u \in Threads \ {t} : calls'[u] = calls[u]
<1>1. calls[t] \in Seq(Call) /\ calls'[t] = Append(calls[t], c)
  BY DEF LifeTypeOK
<1>2. calls' \in [Threads -> Seq(Call)] /\ \A u \in Threads \ {t} : calls'[u] = calls[u]
  BY <1>1, AppendProperties DEF LifeTypeOK
<1> QED
  BY <1>1, <1>2, AppendProperties

\* The innermost call returns.
LEMMA LeftCalls ==
  ASSUME LifeTypeOK, NEW t \in Threads, calls[t] # <<>>, calls' = [calls EXCEPT ![t] = Front(@)]
  PROVE  /\ calls' \in [Threads -> Seq(Call)]
         /\ Len(calls[t]) \in Nat \ {0} /\ Len(calls'[t]) = Len(calls[t]) - 1
         /\ calls'[t] = <<>> <=> Len(calls[t]) = 1
         /\ \A i \in 1..(Len(calls[t]) - 1) : calls'[t][i] = calls[t][i]
         /\ \A u \in Threads \ {t} : calls'[u] = calls[u]
<1> DEFINE n == Len(calls[t])
<1>1. calls[t] \in Seq(Call) /\ n \in Nat \ {0} /\ calls'[t] = SubSeq(calls[t], 1, n - 1)
  BY DEF LifeTypeOK, Front
<1>2. \A i \in 1..(n - 1) : calls[t][i] \in Call
  BY <1>1
<1>3. /\ calls'[t] \in Seq(Call) /\ Len(calls'[t]) = n - 1
      /\ \A i \in 1..(n - 1) : calls'[t][i] = calls[t][i]
  BY <1>1, <1>2, SubSeqProperties
<1>4. calls' \in [Threads -> Seq(Call)] /\ \A u \in Threads \ {t} : calls'[u] = calls[u]
  BY <1>3 DEF LifeTypeOK
<1>5. calls'[t] = <<>> <=> n = 1
  <2>1. calls'[t] = <<>> <=> Len(calls'[t]) = 0
    BY <1>3, EmptySeq
  <2>2. Len(calls'[t]) = 0 <=> n = 1
    <3> HIDE DEF n
    <3> QED
      BY <1>1, <1>3
  <2> QED
    BY <2>1, <2>2
<1> QED
  BY <1>1, <1>3, <1>4, <1>5

-----------------------------------------------------------------------------
(* rtScope and the object.                                                 *)

\* The innermost call goes on, and the rest of the runtime stays as it is.
LEMMA PlainMove ==
  ASSUME CallsInv, NEW t \in Threads, calls[t] # <<>>, NEW to \in Places, GoTo(t, to),
         UNCHANGED <<instance, rtScope, rtScopeWasSet, exiting>>,
         Top(t).at \notin {"destroy", "leave"}, to # "destroy",
         to = "heapAlloc" => Top(t).op = "alloc",
         to \in Building => Top(t).at \in Building,
         to \in Destroying <=> Top(t).at \in Destroying
  PROVE  CallsInv'
<1>n. PICK n : n = Len(calls[t])
  OBVIOUS
<1>1. /\ calls' \in [Threads -> Seq(Call)]
      /\ n \in Nat \ {0} /\ Len(calls'[t]) = n /\ calls'[t] # <<>>
      /\ calls'[t][n].op = Top(t).op /\ calls'[t][n].at = to
      /\ calls'[t][n].alreadyInRT = Top(t).alreadyInRT
      /\ Top(t) = calls[t][n]
      /\ \A i \in 1..(n - 1) : calls'[t][i] = calls[t][i]
      /\ \A u \in Threads \ {t} : calls'[u] = calls[u]
  BY <1>n, MovedCalls DEF GoTo, CallsInv
<1>2. LifeTypeOK'
  BY <1>n, <1>1 DEF CallsInv, LifeTypeOK
<1>3. FramesOK'
  <2>1. ASSUME NEW u \in Threads \ {t}, NEW i \in 1..Len(calls'[u])
        PROVE  /\ FrameOK(u, i, calls[u][i])'
               /\ i < Len(calls'[u]) => calls'[u][i].at \in Inside
    BY <1>n, <1>1 DEF CallsInv, FramesOK, FrameOK, Out
  <2>2. ASSUME NEW i \in 1..(n - 1)
        PROVE  /\ FrameOK(t, i, calls[t][i])'
               /\ i < Len(calls'[t]) => calls'[t][i].at \in Inside
    <3>1. i \in 1..Len(calls[t]) /\ i < Len(calls[t])
      BY <1>n, <1>1
    <3> QED
      BY <1>n, <1>1, <3>1 DEF CallsInv, FramesOK, FrameOK, Out
  <2>3. FrameOK(t, n, calls[t][n])'
    <3>1. n \in 1..Len(calls[t])
      BY <1>n, <1>1
    <3>2. FrameOK(t, n, Top(t))
      BY <1>n, <1>1, <3>1 DEF CallsInv, FramesOK
    <3> QED
      BY <1>n, <1>1, <3>2 DEF FrameOK, Out, Building, Destroying
  <2>4. \A i \in 1..Len(calls'[t]) : i \in 1..(n - 1) \/ i = n
    BY <1>n, <1>1
  <2> QED
    BY <1>n, <1>1, <2>1, <2>2, <2>3, <2>4 DEF FramesOK
<1>4. OneBuilder'
  <2>1. ASSUME NEW u \in Threads, NEW i \in 1..Len(calls'[u]), calls'[u][i].at \in Building
        PROVE  i \in 1..Len(calls[u]) /\ calls[u][i].at \in Building
    BY <1>n, <1>1, <2>1
  <2> QED
    BY <2>1 DEF CallsInv, OneBuilder
<1>5. ScopeSet' /\ ScopeRestored'
  BY <1>n, <1>1 DEF CallsInv, ScopeSet, ScopeRestored
<1> QED
  BY <1>2, <1>3, <1>4, <1>5 DEF CallsInv

\* The guard at the start of a call.
LEMMA EnterCall ==
  ASSUME CallsInv, NEW t \in Threads, NEW op \in {"alloc", "query"}, EnterRTGuard(t, op),
         calls[t] = <<>> \/ Top(t).at \in Inside,
         UNCHANGED <<instance, rtScopeWasSet, exiting>>
  PROVE  CallsInv'
<1>n. PICK n : n = Len(calls[t])
  OBVIOUS
<1> DEFINE c == [op |-> op, alreadyInRT |-> rtScope[t],
                 at |-> IF op = "query" \/ shouldTrack(rtScope[t]) THEN "get" ELSE "leave"]
<1>0. rtScope \in [Threads -> BOOLEAN] /\ rtScope[t] \in BOOLEAN
  BY DEF CallsInv, LifeTypeOK
<1>a. c \in Call
  BY <1>0 DEF Call, Places
<1>1. /\ calls' \in [Threads -> Seq(Call)]
      /\ n \in Nat /\ Len(calls'[t]) = n + 1 /\ calls'[t] # <<>>
      /\ calls'[t][n + 1] = c
      /\ \A i \in 1..n : calls'[t][i] = calls[t][i]
      /\ \A u \in Threads \ {t} : calls'[u] = calls[u]
  <2>1. calls' = [calls EXCEPT ![t] = Append(@, c)]
    BY DEF EnterRTGuard
  <2> HIDE DEF c
  <2> QED
    BY <1>n, <1>a, <2>1, EnteredCalls DEF CallsInv
<1>c. /\ c.op = op /\ c.alreadyInRT = rtScope[t] /\ c.at \in {"get", "leave"}
      /\ op = "alloc" /\ rtScope[t] => c.at = "leave"
  BY DEF shouldTrack
<1> HIDE DEF c
<1>s. /\ rtScope' \in [Threads -> BOOLEAN] /\ rtScope'[t] = TRUE
      /\ \A u \in Threads \ {t} : rtScope'[u] = rtScope[u]
  BY <1>0 DEF EnterRTGuard
<1>2. LifeTypeOK'
  BY <1>n, <1>1, <1>s DEF CallsInv, LifeTypeOK
<1>e. calls[t] = <<>> <=> n = 0
  BY <1>n, EmptySeq DEF CallsInv, LifeTypeOK
<1>b. rtScope[t] <=> (n + 1 > 1 \/ Out(t))
  <2>1. CASE n = 0
    BY <1>n, <1>e, <2>1 DEF CallsInv, ScopeRestored, Out
  <2>2. CASE n # 0
    <3>1. Top(t) = calls[t][n] /\ Top(t).at # "destroy"
      BY <1>n, <1>e, <2>2 DEF Inside, Top, Last
    <3>2. rtScope[t]
      BY <1>n, <1>e, <2>2, <3>1 DEF CallsInv, ScopeSet
    <3>3. n + 1 > 1
      BY <1>n, <1>1, <2>2
    <3> QED
      BY <3>2, <3>3
  <2> QED
    BY <2>1, <2>2
<1>3. FramesOK'
  <2>1. ASSUME NEW u \in Threads \ {t}, NEW i \in 1..Len(calls'[u])
        PROVE  /\ FrameOK(u, i, calls[u][i])'
               /\ i < Len(calls'[u]) => calls'[u][i].at \in Inside
    BY <1>n, <1>1 DEF CallsInv, FramesOK, FrameOK, Out
  <2>2. ASSUME NEW i \in 1..n
        PROVE  /\ FrameOK(t, i, calls[t][i])'
               /\ calls'[t][i].at \in Inside
    <3>1. FrameOK(t, i, calls[t][i])'
      BY <1>n, <1>1 DEF CallsInv, FramesOK, FrameOK, Out
    <3>2. i < n \/ (i = n /\ n # 0)
      BY <1>n, <1>1
    <3>3. CASE i < n
      BY <1>n, <1>1, <3>1, <3>3 DEF CallsInv, FramesOK
    <3>4. CASE i = n /\ n # 0
      BY <1>n, <1>1, <1>e, <3>1, <3>4 DEF Top, Last
    <3> QED
      BY <3>1, <3>2, <3>3, <3>4
  <2>3. FrameOK(t, n + 1, calls[t][n + 1])'
    BY <1>0, <1>1, <1>b, <1>c DEF FrameOK, Out, Building, Destroying
  <2>4. \A i \in 1..Len(calls'[t]) : i \in 1..n \/ (i = n + 1 /\ ~(i < Len(calls'[t])))
    BY <1>n, <1>1
  <2> QED
    BY <1>n, <1>1, <2>1, <2>2, <2>3, <2>4 DEF FramesOK
<1>4. OneBuilder'
  <2>0. c.at \notin Building
    BY <1>c DEF Building
  <2>1. ASSUME NEW u \in Threads, NEW i \in 1..Len(calls'[u]), calls'[u][i].at \in Building
        PROVE  i \in 1..Len(calls[u]) /\ calls[u][i].at \in Building
    <3>1. CASE u = t
      <4>1. i # n + 1
        BY <1>n, <1>1, <2>0, <2>1, <3>1
      <4>2. i \in 1..n
        BY <1>n, <1>1, <3>1, <4>1
      <4> QED
        BY <1>n, <1>1, <2>1, <3>1, <4>2
    <3> QED
      BY <1>n, <1>1, <2>1, <3>1
  <2> QED
    BY <2>1 DEF CallsInv, OneBuilder
<1>5. ScopeSet' /\ ScopeRestored'
  BY <1>n, <1>1, <1>s DEF CallsInv, ScopeSet, ScopeRestored
<1> QED
  BY <1>2, <1>3, <1>4, <1>5 DEF CallsInv

\* The guard at the end of a call.
LEMMA LeaveCall ==
  ASSUME CallsInv, NEW t \in Threads, Leave(t)
  PROVE  CallsInv'
<1>n. PICK n : n = Len(calls[t])
  OBVIOUS
<1>0. rtScope \in [Threads -> BOOLEAN] /\ rtScope[t] \in BOOLEAN
  BY DEF CallsInv, LifeTypeOK
<1>1. /\ calls' \in [Threads -> Seq(Call)]
      /\ n \in Nat \ {0} /\ Len(calls'[t]) = n - 1
      /\ calls'[t] = <<>> <=> n = 1
      /\ \A i \in 1..(n - 1) : calls'[t][i] = calls[t][i]
      /\ \A u \in Threads \ {t} : calls'[u] = calls[u]
  BY <1>n, LeftCalls DEF Leave, At, CallsInv
<1>2. Top(t) = calls[t][n] /\ calls[t] # <<>> /\ Top(t).at = "leave" /\ n \in 1..n
  BY <1>n, <1>1 DEF Leave, At, Top, Last
<1>u. UNCHANGED <<instance, rtScopeWasSet, exiting>>
  BY DEF Leave
<1>3. /\ FrameOK(t, n, Top(t)) /\ rtScope[t]
  BY <1>n, <1>2 DEF CallsInv, FramesOK, ScopeSet
<1>4. rtScope'[t] <=> (n > 1 \/ Out(t))
  BY <1>0, <1>3 DEF Leave, ScopeAfterGuard, FrameOK
<1>5. /\ rtScope' \in [Threads -> BOOLEAN]
      /\ \A u \in Threads \ {t} : rtScope'[u] = rtScope[u]
  <2>1. Top(t) \in Call
    BY <1>n, <1>1, <1>2 DEF CallsInv, LifeTypeOK
  <2>2. ScopeAfterGuard(t) \in BOOLEAN
    BY <1>0, <2>1 DEF ScopeAfterGuard
  <2> QED
    BY <1>0, <2>2 DEF Leave
<1>6. LifeTypeOK'
  BY <1>n, <1>1, <1>5, <1>u DEF CallsInv, LifeTypeOK
<1>7. FramesOK'
  <2>1. ASSUME NEW u \in Threads \ {t}, NEW i \in 1..Len(calls'[u])
        PROVE  /\ FrameOK(u, i, calls[u][i])'
               /\ i < Len(calls'[u]) => calls'[u][i].at \in Inside
    BY <1>n, <1>1, <1>u DEF CallsInv, FramesOK, FrameOK, Out
  <2>2. ASSUME NEW i \in 1..(n - 1)
        PROVE  FrameOK(t, i, calls[t][i])' /\ calls'[t][i].at \in Inside
    <3>1. i \in 1..Len(calls[t]) /\ i < Len(calls[t])
      BY <1>n, <1>1
    <3> QED
      BY <1>n, <1>1, <1>u, <3>1 DEF CallsInv, FramesOK, FrameOK, Out
  <2> QED
    BY <1>n, <1>1, <2>1, <2>2 DEF FramesOK
<1>8. OneBuilder'
  <2>1. ASSUME NEW u \in Threads, NEW i \in 1..Len(calls'[u]), calls'[u][i].at \in Building
        PROVE  i \in 1..Len(calls[u]) /\ calls[u][i].at \in Building
    BY <1>n, <1>1, <2>1
  <2> QED
    BY <2>1 DEF CallsInv, OneBuilder
<1>9. ScopeSet' /\ ScopeRestored'
  <2>1. n > 1 => rtScope'[t]
    BY <1>4
  <2>2. n = 1 => (rtScope'[t] <=> Out(t))
    BY <1>4
  <2>3. calls'[t] # <<>> => n > 1
    BY <1>n, <1>1
  <2> QED
    BY <1>n, <1>1, <1>5, <1>u, <2>1, <2>2, <2>3 DEF CallsInv, ScopeSet, ScopeRestored, Out
<1> QED
  BY <1>6, <1>7, <1>8, <1>9 DEF CallsInv

\* The first call builds the object, or completes it; the destructor begins.
LEMMA ObjectMove ==
  ASSUME LifeInv, NEW t \in Threads, Construct(t) \/ Constructed(t) \/ Destroy(t)
  PROVE  CallsInv'
<1>n. PICK n : n = Len(calls[t])
  OBVIOUS
<1>p. PICK to \in {"load", "body", "report"} :
        /\ GoTo(t, to)
        /\ to = "load" => Construct(t) /\ Top(t).at = "get"
        /\ to = "body" => Constructed(t) /\ Top(t).at = "constructed"
        /\ to = "report" => Destroy(t) /\ Top(t).at = "destroy"
  BY DEF Construct, Constructed, Destroy, At
<1>0. calls[t] # <<>> /\ to \in Places /\ exiting' = exiting
  BY DEF Construct, Constructed, Destroy, At, Places, Building, Destroying
<1>1. /\ calls' \in [Threads -> Seq(Call)]
      /\ n \in Nat \ {0} /\ Len(calls'[t]) = n /\ calls'[t] # <<>>
      /\ calls'[t][n].op = Top(t).op /\ calls'[t][n].at = to
      /\ calls'[t][n].alreadyInRT = Top(t).alreadyInRT
      /\ Top(t) = calls[t][n] /\ n \in 1..n
      /\ \A i \in 1..(n - 1) : calls'[t][i] = calls[t][i]
      /\ \A u \in Threads \ {t} : calls'[u] = calls[u]
  BY <1>n, <1>0, <1>p, MovedCalls DEF GoTo, LifeInv, CallsInv
<1>t. rtScope \in [Threads -> BOOLEAN] /\ rtScopeWasSet \in BOOLEAN
  BY DEF LifeInv, CallsInv, LifeTypeOK
<1>f. FrameOK(t, n, Top(t))
  BY <1>n, <1>1 DEF LifeInv, CallsInv, FramesOK
<1>i. /\ to = "load" => instance = "none" /\ instance' = "constructing"
      /\ to = "body" => instance = "constructing" /\ instance' = "live"
      /\ to = "report" => instance = "live" /\ instance' = "live"
  BY <1>p, <1>f DEF Construct, Constructed, Destroy, FrameOK, Building, Destroying
<1>s. /\ rtScope' \in [Threads -> BOOLEAN] /\ rtScope'[t] /\ rtScopeWasSet' \in BOOLEAN
      /\ \A u \in Threads \ {t} : rtScope'[u] = rtScope[u]
  <2>1. to = "body" => rtScopeWasSet
    BY <1>i DEF LifeInv, ObjectOK
  <2> QED
    BY <1>p, <1>t, <2>1 DEF Construct, Constructed, Destroy, ScopeOfDestructor
<1>2. LifeTypeOK'
  BY <1>0, <1>1, <1>i, <1>s DEF LifeInv, CallsInv, LifeTypeOK
<1>b. ASSUME NEW u \in Threads, NEW i \in 1..Len(calls[u]), calls[u][i].at \in Building
      PROVE  /\ to # "load" /\ to # "report"
             /\ to = "body" => u = t /\ i = n
  <2>1. instance = "constructing"
    BY <1>b DEF LifeInv, CallsInv, FramesOK, FrameOK
  <2>2. CASE to = "body"
    <3>1. calls[t][n].at \in Building
      BY <1>p, <1>1, <2>2 DEF Building
    <3> QED
      BY <1>n, <1>1, <1>b, <2>2, <3>1 DEF LifeInv, CallsInv, OneBuilder
  <2> QED
    BY <1>i, <2>1, <2>2
<1>o. ~Out(t) /\ \A u \in Threads : ~Out(u) /\ ~Out(u)'
  BY <1>i DEF Out
<1>3. FramesOK'
  <2>1. ASSUME NEW u \in Threads, NEW i \in 1..Len(calls[u]), u = t => i # n
        PROVE  FrameOK(u, i, calls[u][i])'
    <3>1. FrameOK(u, i, calls[u][i]) /\ calls'[u][i] = calls[u][i]
      <4>1. FrameOK(u, i, calls[u][i])
        BY DEF LifeInv, CallsInv, FramesOK
      <4>2. u = t => i \in 1..(n - 1)
        BY <1>n, <1>1, <2>1
      <4> QED
        BY <1>1, <4>1, <4>2
    <3>2. calls[u][i].at \notin Building
      BY <1>b, <2>1
    <3>3. calls[u][i].op = "exit" => instance = "live" /\ to = "report"
      BY <1>i, <3>1 DEF FrameOK
    <3> QED
      BY <1>0, <1>i, <1>o, <3>1, <3>2, <3>3 DEF FrameOK
  <2>2. FrameOK(t, n, calls[t][n])'
    BY <1>0, <1>1, <1>f, <1>i, <1>o, <1>p DEF FrameOK, Building, Destroying
  <2>3. \A u \in Threads : \A i \in 1..Len(calls'[u]) :
          /\ i \in 1..Len(calls[u])
          /\ i < Len(calls'[u]) => calls'[u][i] = calls[u][i] /\ i < Len(calls[u])
    BY <1>n, <1>1
  <2>4. \A u \in Threads : \A i \in 1..Len(calls'[u]) : i < Len(calls'[u]) => calls'[u][i].at \in Inside
    BY <2>3 DEF LifeInv, CallsInv, FramesOK
  <2> QED
    BY <2>1, <2>2, <2>3, <2>4 DEF FramesOK
<1>4. OneBuilder'
  <2>1. ASSUME NEW u \in Threads, NEW i \in 1..Len(calls'[u]), calls'[u][i].at \in Building
        PROVE  u = t /\ i = n
    <3>1. SUFFICES ASSUME u # t \/ i # n PROVE FALSE
      OBVIOUS
    <3>2. i \in 1..Len(calls[u]) /\ calls[u][i].at \in Building
      BY <1>n, <1>1, <2>1, <3>1
    <3>3. to = "body" /\ u = t /\ i = n
      BY <1>b, <3>2
    <3> QED
      BY <1>1, <2>1, <3>3 DEF Building
  <2> QED
    BY <2>1 DEF OneBuilder
<1>5. ScopeSet'
  BY <1>1, <1>s DEF LifeInv, CallsInv, ScopeSet
<1>6. ScopeRestored'
  BY <1>0, <1>1, <1>o, <1>s DEF LifeInv, CallsInv, ScopeRestored, Out
<1> QED
  BY <1>2, <1>3, <1>4, <1>5, <1>6 DEF CallsInv

\* The members of the object are destroyed: only other threads are in calls.
LEMMA DestroyedMove ==
  ASSUME CallsInv, NEW t \in Threads, Destroyed(t)
  PROVE  CallsInv' /\ t = exiting /\ instance = "live"
<1>n. PICK n : n = Len(calls[t])
  OBVIOUS
<1>0. /\ calls[t] \in Seq(Call) /\ calls[t] # <<>> /\ n \in Nat \ {0} /\ n \in 1..n
      /\ Top(t) = calls[t][n] /\ Top(t).at = "members"
  BY <1>n DEF Destroyed, At, Top, Last, CallsInv, LifeTypeOK
<1>1. FrameOK(t, n, Top(t))
  BY <1>n, <1>0 DEF CallsInv, FramesOK
<1>2. t = exiting /\ instance = "live"
  BY <1>0, <1>1 DEF FrameOK, Destroying
<1>3. /\ calls'[t] = <<>> /\ \A u \in Threads \ {t} : calls'[u] = calls[u]
      /\ calls' \in [Threads -> Seq(Call)] /\ Len(calls'[t]) = 0
      /\ exiting' = exiting /\ instance' = "destroyed" /\ rtScope' = rtScope
      /\ rtScopeWasSet' = rtScopeWasSet
  BY DEF Destroyed, CallsInv, LifeTypeOK
<1>4. LifeTypeOK'
  BY <1>3 DEF CallsInv, LifeTypeOK
<1>5. \A u \in Threads : \A i \in 1..Len(calls'[u]) :
        u # t /\ i \in 1..Len(calls[u]) /\ calls'[u] = calls[u]
  BY <1>3
<1>6. FramesOK'
  <2>1. ASSUME NEW u \in Threads, NEW i \in 1..Len(calls'[u])
        PROVE  /\ FrameOK(u, i, calls[u][i])'
               /\ i < Len(calls'[u]) => calls'[u][i].at \in Inside
    <3>1. FrameOK(u, i, calls[u][i]) /\ (i < Len(calls[u]) => calls[u][i].at \in Inside)
      BY <1>5 DEF CallsInv, FramesOK
    <3> QED
      BY <1>2, <1>3, <1>5, <3>1 DEF FrameOK, Out
  <2> QED
    BY <2>1 DEF FramesOK
<1>7. OneBuilder'
  BY <1>5 DEF CallsInv, OneBuilder
<1>8. ScopeSet' /\ ScopeRestored'
  <2>1. rtScope[t]
    BY <1>n, <1>0 DEF CallsInv, ScopeSet
  <2> QED
    BY <1>2, <1>3, <2>1 DEF CallsInv, ScopeSet, ScopeRestored
<1> QED
  BY <1>2, <1>4, <1>6, <1>7, <1>8 DEF CallsInv

\* exit is called, outside the runtime.
LEMMA ExitMove ==
  ASSUME LifeInv, NEW t \in Threads, Exit(t)
  PROVE  CallsInv'
<1>0. /\ exiting = NoThread /\ exiting' = t /\ instance' = instance /\ instance # "destroyed"
      /\ rtScope' = rtScope /\ rtScopeWasSet' = rtScopeWasSet /\ calls[t] = <<>>
      /\ calls \in [Threads -> Seq(Call)]
  BY DEF Exit, LifeInv, ObjectOK, CallsInv, LifeTypeOK
<1>a. \A u \in Threads : u # exiting
  BY <1>0, LifetimeAssumption
<1>1. CASE instance # "live"
  <2>1. calls' = calls
    BY <1>1 DEF Exit
  <2>2. LifeTypeOK' /\ OneBuilder' /\ ScopeSet' /\ ScopeRestored'
    BY <1>0, <2>1 DEF LifeInv, CallsInv, LifeTypeOK, OneBuilder, ScopeSet, ScopeRestored
  <2>3. FramesOK'
    <3>1. ASSUME NEW u \in Threads, NEW i \in 1..Len(calls[u])
          PROVE  /\ FrameOK(u, i, calls[u][i])'
                 /\ i < Len(calls[u]) => calls[u][i].at \in Inside
      <4>1. FrameOK(u, i, calls[u][i]) /\ (i < Len(calls[u]) => calls[u][i].at \in Inside)
        BY DEF LifeInv, CallsInv, FramesOK
      <4> QED
        BY <1>0, <1>1, <2>1, <4>1 DEF FrameOK, Out
    <3> QED
      BY <2>1, <3>1 DEF FramesOK
  <2> QED
    BY <2>2, <2>3 DEF CallsInv
<1>2. CASE instance = "live"
  <2> DEFINE c == [op |-> "exit", alreadyInRT |-> FALSE, at |-> "destroy"]
  <2>0. c \in Call /\ c.op = "exit" /\ ~c.alreadyInRT /\ c.at = "destroy"
    BY DEF Call, Places, Destroying
  <2> HIDE DEF c
  <2>1. calls' = [calls EXCEPT ![t] = <<c>>]
    BY <1>2 DEF Exit, c
  <2>2. /\ calls'[t] = <<c>> /\ Len(calls'[t]) = 1 /\ calls'[t][1] = c /\ calls'[t] # <<>>
        /\ calls' \in [Threads -> Seq(Call)]
        /\ \A u \in Threads \ {t} : calls'[u] = calls[u]
    BY <1>0, <2>0, <2>1
  <2>3. LifeTypeOK'
    BY <1>0, <2>2 DEF LifeInv, CallsInv, LifeTypeOK
  <2>4. \A u \in Threads : \A i \in 1..Len(calls'[u]) :
          (u # t /\ calls'[u] = calls[u]) \/ (u = t /\ i = 1)
    <3>1. Len(calls'[t]) = 1 /\ \A u \in Threads \ {t} : calls'[u] = calls[u]
      BY <2>2
    <3>2. \A i \in 1..Len(calls'[t]) : i = 1
      BY <3>1
    <3> QED
      BY <3>1, <3>2
  <2>5. FramesOK'
    <3>1. ASSUME NEW u \in Threads \ {t}, NEW i \in 1..Len(calls[u])
          PROVE  /\ FrameOK(u, i, calls[u][i])'
                 /\ i < Len(calls'[u]) => calls'[u][i].at \in Inside
      BY <1>0, <1>2, <1>a, <2>2 DEF LifeInv, CallsInv, FramesOK, FrameOK, Out
    <3>2. FrameOK(t, 1, calls[t][1])'
      BY <1>0, <1>2, <2>0, <2>2 DEF FrameOK, Out, Building, Destroying
    <3> QED
      BY <2>2, <2>4, <3>1, <3>2 DEF FramesOK
  <2>6. OneBuilder'
    <3>1. ASSUME NEW u \in Threads, NEW i \in 1..Len(calls'[u]), calls'[u][i].at \in Building
          PROVE  u # t /\ calls'[u] = calls[u]
      BY <2>0, <2>2, <2>4, <3>1 DEF Building
    <3> QED
      BY <3>1 DEF LifeInv, CallsInv, OneBuilder
  <2>7. ScopeSet' /\ ScopeRestored'
    BY <1>0, <2>0, <2>2 DEF LifeInv, CallsInv, ScopeSet, ScopeRestored
  <2> QED
    BY <2>3, <2>5, <2>6, <2>7 DEF CallsInv
<1> QED
  BY <1>1, <1>2

\* What a step does to the calls, by the thread that takes it.
LEMMA CallsStep ==
  ASSUME LifeInv, [Next]_vars
  PROVE  CallsInv'
<1> USE DEF LifeInv
<1>q. ASSUME UNCHANGED <<instance, rtScope, rtScopeWasSet, calls, exiting>>
      PROVE  CallsInv'
  BY <1>q DEF CallsInv, LifeTypeOK, FramesOK, FrameOK, Out, OneBuilder, ScopeSet, ScopeRestored
<1>1. ASSUME NEW t \in Threads, NEW op \in {"alloc", "query"}, ProgramCall(t, op) \/ NestedCall(t, op)
      PROVE  CallsInv'
  BY <1>1, EnterCall DEF ProgramCall, NestedCall
<1>2. ASSUME NEW t \in Threads, MPICall(t) \/ CountCheck(t) \/ CheckStatus(t)
      PROVE  CallsInv'
  BY <1>2, <1>q DEF MPICall, CountCheck, CheckStatus
<1>3. ASSUME NEW t \in Threads, CheckBuffer(t)
      PROVE  CallsInv'
  <2>1. CASE UNCHANGED <<calls, rtScope>>
    BY <1>3, <1>q, <2>1 DEF CheckBuffer
  <2>2. CASE EnterRTGuard(t, "query")
    BY <1>3, <2>2, EnterCall DEF CheckBuffer, MPIAt
  <2> QED
    BY <1>3, <2>1, <2>2 DEF CheckBuffer
<1>4. ASSUME NEW t \in Threads,
             Get(t) \/ Callback(t) \/ CallbackType(t) \/ Query(t) \/ ReportTypes(t)
      PROVE  CallsInv'
  <2>1. PICK to \in {"body", "heapAlloc", "leave", "members"} :
          /\ GoTo(t, to)
          /\ to = "body" => Top(t).at = "get"
          /\ to = "heapAlloc" => Top(t).at = "body" /\ Top(t).op = "alloc"
          /\ to = "leave" => Top(t).at \in {"body", "heapAlloc"}
          /\ to = "members" => Top(t).at = "report"
    BY <1>4 DEF Get, Callback, CallbackType, Query, ReportTypes, At
  <2>2. calls[t] # <<>> /\ UNCHANGED <<instance, rtScope, rtScopeWasSet, exiting>>
    BY <1>4 DEF Get, Callback, CallbackType, Query, ReportTypes, At
  <2>3. to \in Places
    BY DEF Places, Building, Destroying
  <2>4. /\ Top(t).at \notin {"destroy", "leave"} /\ to # "destroy"
        /\ to \in Building => Top(t).at \in Building
        /\ to \in Destroying <=> Top(t).at \in Destroying
    BY <2>1 DEF Building, Destroying
  <2> QED
    BY <2>1, <2>2, <2>3, <2>4, PlainMove
<1>5. ASSUME NEW t \in Threads, LoadTypes(t)
      PROVE  CallsInv'
  <2>1. CASE UNCHANGED calls
    BY <1>5, <1>q, <2>1 DEF LoadTypes
  <2>2. CASE GoTo(t, "constructed")
    BY <1>5, <2>2, PlainMove DEF LoadTypes, At, Places, Building, Destroying
  <2> QED
    BY <1>5, <2>1, <2>2 DEF LoadTypes
<1>6. ASSUME NEW t \in Threads, Leave(t) \/ Destroyed(t)
      PROVE  CallsInv'
  BY <1>6, LeaveCall, DestroyedMove
<1>7. ASSUME NEW t \in Threads, Construct(t) \/ Constructed(t) \/ Destroy(t) \/ Exit(t)
      PROVE  CallsInv'
  BY <1>7, ObjectMove, ExitMove
<1>8. ASSUME EndProcess \/ UNCHANGED vars
      PROVE  CallsInv'
  BY <1>8, <1>q DEF EndProcess, vars
<1> QED
  BY <1>1, <1>2, <1>3, <1>4, <1>5, <1>6, <1>7, <1>8 DEF Next, Proceed, Ended

\* The object is destroyed once, by the thread that called exit, which enters it
\* no more: its callbacks found rtScope set.
LEMMA ObjectStep ==
  ASSUME LifeInv, [Next]_vars
  PROVE  ObjectOK' /\ ExitingThreadStaysOut'
<1> USE DEF LifeInv
<1>q. ASSUME UNCHANGED <<instance, rtScopeWasSet, exiting, misuse>>
      PROVE  ObjectOK' /\ ExitingThreadStaysOut'
  BY <1>q DEF ObjectOK, ExitingThreadStaysOut
<1>1. ASSUME NEW t \in Threads, NEW op \in {"alloc", "query"}, ProgramCall(t, op) \/ NestedCall(t, op)
      PROVE  UNCHANGED <<instance, rtScopeWasSet, exiting, misuse>>
  BY <1>1 DEF ProgramCall, NestedCall
<1>2. ASSUME NEW t \in Threads,
             \/ MPICall(t) \/ CountCheck(t) \/ CheckStatus(t) \/ CheckBuffer(t) \/ Leave(t)
             \/ LoadTypes(t) \/ Callback(t) \/ CallbackType(t) \/ Query(t)
             \/ Destroy(t) \/ ReportTypes(t)
      PROVE  UNCHANGED <<instance, rtScopeWasSet, exiting, misuse>>
  BY <1>2 DEF MPICall, CountCheck, CheckStatus, CheckBuffer, Leave, LoadTypes, Callback, CallbackType,
              Query, Destroy, ReportTypes
<1>3. ASSUME NEW t \in Threads, Get(t)
      PROVE  ObjectOK' /\ ExitingThreadStaysOut'
  <2>1. CASE instance # "destroyed"
    <3>1. misuse' = misuse
      BY <1>3, <2>1 DEF Get
    <3> QED
      BY <1>3, <1>q, <3>1 DEF Get
  <2>2. CASE instance = "destroyed"
    <3> DEFINE n == Len(calls[t])
    <3>1. calls[t] # <<>> /\ Top(t) = calls[t][n] /\ Top(t).at = "get" /\ n \in 1..n
      BY <1>3 DEF Get, At, Top, Last, CallsInv, LifeTypeOK
    <3>2. FrameOK(t, n, Top(t))
      BY <3>1 DEF CallsInv, FramesOK
    <3>3. t = exiting => Top(t).op # "alloc"
      BY <2>2, <3>1, <3>2 DEF FrameOK, Out
    <3>4. misuse' = misuse \cup {[thread |-> t, op |-> Top(t).op]}
      BY <1>3, <2>2 DEF Get
    <3>5. [thread |-> t, op |-> Top(t).op] # [thread |-> exiting, op |-> "alloc"]
      BY <3>3
    <3> QED
      BY <1>3, <2>2, <3>4, <3>5 DEF Get, ObjectOK, ExitingThreadStaysOut
  <2> QED
    BY <2>1, <2>2
<1>4. ASSUME NEW t \in Threads, Construct(t)
      PROVE  ObjectOK' /\ ExitingThreadStaysOut'
  <2> DEFINE n == Len(calls[t])
  <2>1. calls[t] # <<>> /\ Top(t) = calls[t][n] /\ Top(t).at = "get"
    BY <1>4 DEF Construct, At, Top, Last
  <2>2. rtScope[t]
    BY <2>1 DEF CallsInv, ScopeSet
  <2> QED
    BY <1>4, <2>2 DEF Construct, ObjectOK, ExitingThreadStaysOut
<1>5. ASSUME NEW t \in Threads, Constructed(t)
      PROVE  ObjectOK' /\ ExitingThreadStaysOut'
  <2> DEFINE n == Len(calls[t])
  <2>1. calls[t] # <<>> /\ Top(t) = calls[t][n] /\ Top(t).at = "constructed" /\ n \in 1..n
    BY <1>5 DEF Constructed, At, Top, Last, CallsInv, LifeTypeOK
  <2>2. instance = "constructing"
    BY <2>1 DEF CallsInv, FramesOK, FrameOK, Building
  <2> QED
    BY <1>5, <2>2 DEF Constructed, ObjectOK, ExitingThreadStaysOut
<1>6. ASSUME NEW t \in Threads, Destroyed(t)
      PROVE  ObjectOK' /\ ExitingThreadStaysOut'
  <2>1. t = exiting /\ instance = "live"
    BY <1>6, DestroyedMove
  <2> QED
    BY <1>6, <2>1, LifetimeAssumption DEF Destroyed, ObjectOK, ExitingThreadStaysOut
<1>7. ASSUME NEW t \in Threads, Exit(t)
      PROVE  ObjectOK' /\ ExitingThreadStaysOut'
  BY <1>7, LifetimeAssumption DEF Exit, ObjectOK, ExitingThreadStaysOut
<1>8. ASSUME EndProcess \/ UNCHANGED vars
      PROVE  UNCHANGED <<instance, rtScopeWasSet, exiting, misuse>>
  BY <1>8 DEF EndProcess, vars
<1> QED
  BY <1>q, <1>1, <1>2, <1>3, <1>4, <1>5, <1>6, <1>7, <1>8 DEF Next, Proceed, Ended

LEMMA LifeInit == Init => LifeInv
<1> SUFFICES ASSUME Init PROVE LifeInv
  OBVIOUS
<1>1. calls \in [Threads -> Seq(Call)] /\ \A t \in Threads : calls[t] = <<>> /\ Len(calls[t]) = 0
  BY DEF Init
<1>2. LifeTypeOK
  BY <1>1 DEF Init, LifeTypeOK
<1>3. FramesOK /\ OneBuilder
  BY <1>1 DEF FramesOK, OneBuilder
<1>4. ScopeSet /\ ScopeRestored /\ ObjectOK /\ ExitingThreadStaysOut
  BY <1>1 DEF Init, ScopeSet, ScopeRestored, ObjectOK, ExitingThreadStaysOut
<1> QED
  BY <1>2, <1>3, <1>4 DEF LifeInv, CallsInv

\* The inductive invariant of the object's life holds.
THEOREM LifeInvariant == Spec => []LifeInv
<1>1. LifeInv /\ [Next]_vars => LifeInv'
  BY CallsStep, ObjectStep DEF LifeInv
<1> QED
  BY <1>1, LifeInit, PTL DEF Spec

\* Whatever the nesting of guards, the constructor and the destructor, rtScope is
\* clear outside the runtime, but in the thread that destroyed it (Runtime.h).
THEOREM ScopeIsRestored == Spec => []ScopeRestored
<1>1. LifeInv => ScopeRestored
  BY DEF LifeInv, CallsInv
<1> QED
  BY <1>1, LifeInvariant, PTL

\* No callback of the thread that calls exit uses the destroyed runtime.
THEOREM ExitingThreadIsOut == Spec => []ExitingThreadStaysOut
<1>1. LifeInv => ExitingThreadStaysOut
  BY DEF LifeInv
<1> QED
  BY <1>1, LifeInvariant, PTL

-----------------------------------------------------------------------------
(* The figures.                                                            *)

Figures == [heapAllocs : Int, heapAlloc : Int]

\* Where the outermost call of a thread is.
First(t) == IF calls[t] = <<>> THEN "none" ELSE calls[t][1].at

\* Threads between the two figures of a callback.
Counting == {t \in Threads : First(t) = "heapAlloc"}

\* The figures differ by the callbacks under way, and so do those read.
FiguresOK ==
  /\ recorder \in Figures /\ report \in Figures
  /\ instance # "destroyed" => recorder.heapAllocs = recorder.heapAlloc + Cardinality(Counting)
  /\ \A t \in Threads :
       /\ First(t) = "report" => report.heapAllocs - recorder.heapAlloc < Cardinality(Threads)
       /\ First(t) = "members" => report.heapAllocs - report.heapAlloc < Cardinality(Threads)

ReportInv == LifeInv /\ FiguresOK /\ ReportCovers

Flag(b) == IF b THEN 1 ELSE 0

\* The size of a set of threads of which one comes or goes.
LEMMA OneThread ==
  ASSUME NEW S \in SUBSET Threads, NEW T \in SUBSET Threads, NEW t \in Threads, S \ {t} = T \ {t}
  PROVE  /\ Cardinality(S) \in Nat
         /\ Cardinality(T) = Cardinality(S) + Flag(t \in T) - Flag(t \in S)
<1>1. IsFiniteSet(S) /\ IsFiniteSet(T)
  BY LifetimeAssumption, FS_Subset
<1>2. Cardinality(S) \in Nat /\ Cardinality(T) \in Nat
  BY <1>1, FS_CardinalityType
<1>3. /\ Cardinality(S \ {t}) = IF t \in S THEN Cardinality(S) - 1 ELSE Cardinality(S)
      /\ Cardinality(T \ {t}) = IF t \in T THEN Cardinality(T) - 1 ELSE Cardinality(T)
  BY <1>1, FS_RemoveElement
<1> QED
  BY <1>2, <1>3 DEF Flag

\* The outermost call when the innermost one goes on.
LEMMA FirstMoved ==
  ASSUME CallsInv, NEW t \in Threads, calls[t] # <<>>, NEW to \in Places, GoTo(t, to)
  PROVE  /\ Len(calls[t]) \in Nat \ {0} /\ Top(t) = calls[t][Len(calls[t])]
         /\ FrameOK(t, Len(calls[t]), Top(t))
         /\ Len(calls[t]) = 1 => First(t) = Top(t).at /\ First(t)' = to
         /\ Len(calls[t]) # 1 => First(t)' = First(t)
         /\ \A u \in Threads \ {t} : First(u)' = First(u)
<1> DEFINE n == Len(calls[t])
<1>1. /\ n \in Nat \ {0} /\ calls'[t] # <<>> /\ calls'[t][n].at = to /\ Top(t) = calls[t][n] /\ n \in 1..n
      /\ \A i \in 1..(n - 1) : calls'[t][i] = calls[t][i]
      /\ \A u \in Threads \ {t} : calls'[u] = calls[u]
  BY MovedCalls DEF GoTo, CallsInv
<1>2. FrameOK(t, n, Top(t))
  BY <1>1 DEF CallsInv, FramesOK
<1>3. n # 1 => calls'[t][1] = calls[t][1]
  <2>1. n # 1 => 1 \in 1..(n - 1)
    <3> HIDE DEF n
    <3> QED
      BY <1>1
  <2> QED
    BY <1>1, <2>1
<1> QED
  BY <1>1, <1>2, <1>3 DEF First

\* The steps of the outermost call that the figures are about.
LEMMA FirstSteps ==
  ASSUME CallsInv, NEW t \in Threads
  PROVE  /\ Callback(t) => First(t) # "heapAlloc" /\ First(t)' = "heapAlloc"
         /\ CallbackType(t) => First(t) = "heapAlloc" /\ First(t)' = "leave"
         /\ Destroy(t) => First(t) = "destroy" /\ First(t)' = "report" /\ t = exiting /\ instance = "live"
         /\ ReportTypes(t) => First(t) = "report" /\ First(t)' = "members" /\ t = exiting /\ instance = "live"
         /\ Callback(t) \/ CallbackType(t) \/ Destroy(t) \/ ReportTypes(t) =>
              \A u \in Threads \ {t} : First(u)' = First(u)
<1> DEFINE n == Len(calls[t])
<1> USE DEF Places, Building, Destroying
<1>1. ASSUME Callback(t)
      PROVE  /\ First(t) # "heapAlloc" /\ First(t)' = "heapAlloc"
             /\ \A u \in Threads \ {t} : First(u)' = First(u)
  <2>1. calls[t] # <<>> /\ Top(t).at = "body" /\ Top(t).op = "alloc" /\ GoTo(t, "heapAlloc")
    BY <1>1 DEF Callback, At
  <2>2. FrameOK(t, n, Top(t)) /\ n \in Nat \ {0}
    BY <2>1, FirstMoved
  <2>3. n = 1
    <3>1. ~(n > 1)
      BY <2>1, <2>2 DEF FrameOK
    <3> HIDE DEF n
    <3> QED
      BY <2>2, <3>1
  <2> QED
    BY <2>1, <2>3, FirstMoved
<1>2. ASSUME CallbackType(t)
      PROVE  /\ First(t) = "heapAlloc" /\ First(t)' = "leave"
             /\ \A u \in Threads \ {t} : First(u)' = First(u)
  <2>1. calls[t] # <<>> /\ Top(t).at = "heapAlloc" /\ GoTo(t, "leave")
    BY <1>2 DEF CallbackType, At
  <2>2. FrameOK(t, n, Top(t)) /\ n \in Nat \ {0}
    BY <2>1, FirstMoved
  <2>3. n = 1
    <3>1. ~(n > 1)
      BY <2>1, <2>2 DEF FrameOK
    <3> HIDE DEF n
    <3> QED
      BY <2>2, <3>1
  <2> QED
    BY <2>1, <2>3, FirstMoved
<1>3. ASSUME Destroy(t)
      PROVE  /\ First(t) = "destroy" /\ First(t)' = "report" /\ t = exiting /\ instance = "live"
             /\ \A u \in Threads \ {t} : First(u)' = First(u)
  <2>1. calls[t] # <<>> /\ Top(t).at = "destroy" /\ GoTo(t, "report")
    BY <1>3 DEF Destroy, At
  <2>2. FrameOK(t, n, Top(t))
    BY <2>1, FirstMoved
  <2>3. n = 1 /\ t = exiting /\ instance = "live"
    BY <2>1, <2>2 DEF FrameOK
  <2> QED
    BY <2>1, <2>3, FirstMoved
<1>4. ASSUME ReportTypes(t)
      PROVE  /\ First(t) = "report" /\ First(t)' = "members" /\ t = exiting /\ instance = "live"
             /\ \A u \in Threads \ {t} : First(u)' = First(u)
  <2>1. calls[t] # <<>> /\ Top(t).at = "report" /\ GoTo(t, "members")
    BY <1>4 DEF ReportTypes, At
  <2>2. FrameOK(t, n, Top(t))
    BY <2>1, FirstMoved
  <2>3. n = 1 /\ t = exiting /\ instance = "live"
    BY <2>1, <2>2 DEF FrameOK
  <2> QED
    BY <2>1, <2>3, FirstMoved
<1> QED
  BY <1>1, <1>2, <1>3, <1>4

\* The other steps keep the outermost call out of those places, or where it is.
FigurePlaces == {"heapAlloc", "report", "members"}
SameFirst == \A u \in Threads : First(u)' = First(u) \/ {First(u), First(u)'} \cap FigurePlaces = {}

LEMMA FirstKept ==
  ASSUME CallsInv, NEW t \in Threads,
         \/ \E op \in {"alloc", "query"} : ProgramCall(t, op) \/ NestedCall(t, op)
         \/ MPICall(t) \/ CountCheck(t) \/ CheckBuffer(t) \/ CheckStatus(t) \/ Exit(t) \/ Leave(t)
         \/ Get(t) \/ Construct(t) \/ LoadTypes(t) \/ Constructed(t) \/ Query(t)
  PROVE  SameFirst
<1> DEFINE n == Len(calls[t])
<1> USE DEF FigurePlaces
<1>q. ASSUME calls' = calls PROVE SameFirst
  BY <1>q DEF SameFirst, First
<1>e. ASSUME NEW op, EnterRTGuard(t, op), op \in {"alloc", "query"} PROVE SameFirst
  <2> DEFINE c == [op |-> op, alreadyInRT |-> rtScope[t],
                   at |-> IF op = "query" \/ shouldTrack(rtScope[t]) THEN "get" ELSE "leave"]
  <2>1. c \in Call /\ c.at \in {"get", "leave"}
    BY <1>e DEF CallsInv, LifeTypeOK, Call, Places
  <2>2. calls' = [calls EXCEPT ![t] = Append(@, c)]
    BY <1>e DEF EnterRTGuard
  <2> HIDE DEF c
  <2>3. /\ n \in Nat /\ calls'[t] # <<>> /\ calls'[t][n + 1] = c
        /\ \A i \in 1..n : calls'[t][i] = calls[t][i]
        /\ \A u \in Threads \ {t} : calls'[u] = calls[u]
    BY <2>1, <2>2, EnteredCalls DEF CallsInv
  <2>4. CASE calls[t] = <<>>
    <3>1. n = 0 /\ calls'[t][1] = c
      BY <2>3, <2>4
    <3> QED
      BY <2>1, <2>3, <2>4, <3>1 DEF SameFirst, First
  <2>5. CASE calls[t] # <<>>
    <3>1. n \in Nat \ {0}
      BY <2>5 DEF CallsInv, LifeTypeOK
    <3>2. calls'[t][1] = calls[t][1]
      BY <2>3, <3>1
    <3> QED
      BY <2>3, <2>5, <3>2 DEF SameFirst, First
  <2> QED
    BY <2>4, <2>5
<1>m. ASSUME NEW to \in Places, to \notin FigurePlaces, calls[t] # <<>>, GoTo(t, to),
             Top(t).at \notin FigurePlaces
      PROVE  SameFirst
  BY <1>m, FirstMoved DEF SameFirst
<1>1. CASE \E op \in {"alloc", "query"} : ProgramCall(t, op) \/ NestedCall(t, op)
  BY <1>1, <1>e DEF ProgramCall, NestedCall
<1>2. CASE MPICall(t) \/ CountCheck(t) \/ CheckStatus(t)
  BY <1>2, <1>q DEF MPICall, CountCheck, CheckStatus
<1>3. CASE CheckBuffer(t)
  BY <1>3, <1>q, <1>e DEF CheckBuffer
<1>4. CASE Exit(t)
  <2>1. CASE calls' = calls
    BY <2>1, <1>q
  <2>2. CASE calls' = [calls EXCEPT ![t] = <<[op |-> "exit", alreadyInRT |-> FALSE, at |-> "destroy"]>>]
    <3>1. /\ calls'[t] = <<[op |-> "exit", alreadyInRT |-> FALSE, at |-> "destroy"]>>
          /\ calls[t] = <<>> /\ \A u \in Threads \ {t} : calls'[u] = calls[u]
      BY <1>4, <2>2 DEF Exit, CallsInv, LifeTypeOK
    <3>2. First(t) = "none" /\ First(t)' = "destroy" /\ \A u \in Threads \ {t} : First(u)' = First(u)
      BY <3>1 DEF First
    <3> QED
      BY <3>2 DEF SameFirst
  <2> QED
    BY <1>4, <2>1, <2>2 DEF Exit
<1>5. CASE Leave(t)
  <2>1. /\ n \in Nat \ {0} /\ (calls'[t] = <<>> <=> n = 1)
        /\ \A i \in 1..(n - 1) : calls'[t][i] = calls[t][i]
        /\ \A u \in Threads \ {t} : calls'[u] = calls[u]
    BY <1>5, LeftCalls DEF Leave, At, CallsInv
  <2>2. Top(t) = calls[t][n] /\ calls[t] # <<>> /\ Top(t).at = "leave"
    BY <1>5 DEF Leave, At, Top, Last
  <2>3. n # 1 => calls'[t][1] = calls[t][1]
    <3>1. n # 1 => 1 \in 1..(n - 1)
      <4> HIDE DEF n
      <4> QED
        BY <2>1
    <3> QED
      BY <2>1, <3>1
  <2> QED
    BY <2>1, <2>2, <2>3 DEF SameFirst, First
<1>6. CASE Get(t) \/ Construct(t) \/ Constructed(t)
  BY <1>6, <1>m DEF Get, Construct, Constructed, At, Places, Building
<1>7. CASE LoadTypes(t)
  BY <1>7, <1>m, <1>q DEF LoadTypes, At, Places, Building
<1>8. CASE Query(t)
  BY <1>8, <1>m DEF Query, At, Places
<1> QED
  BY <1>1, <1>2, <1>3, <1>4, <1>5, <1>6, <1>7, <1>8

\* How many threads are counting after a step of t.
LEMMA CountingMoved ==
  ASSUME NEW t \in Threads, \A u \in Threads \ {t} : First(u)' = First(u)
  PROVE  /\ Cardinality(Counting) \in Nat
         /\ Cardinality(Counting)' = Cardinality(Counting) + Flag(First(t)' = "heapAlloc")
                                                           - Flag(First(t) = "heapAlloc")
<1>1. Counting \in SUBSET Threads /\ Counting' \in SUBSET Threads /\ Counting \ {t} = Counting' \ {t}
  BY DEF Counting
<1>2. (t \in Counting' <=> First(t)' = "heapAlloc") /\ (t \in Counting <=> First(t) = "heapAlloc")
  BY DEF Counting
<1>3. /\ Cardinality(Counting) \in Nat
      /\ Cardinality(Counting') = Cardinality(Counting) + Flag(t \in Counting') - Flag(t \in Counting)
  BY <1>1, OneThread
<1> QED
  BY <1>2, <1>3 DEF Flag

\* Steps that leave the figures alone.
LEMMA FiguresKept ==
  ASSUME FiguresOK, ReportCovers, SameFirst, UNCHANGED <<recorder, report>>,
         instance' = "destroyed" <=> instance = "destroyed"
  PROVE  FiguresOK' /\ ReportCovers'
<1>1. \A u \in Threads : \A l \in FigurePlaces : First(u)' = l <=> First(u) = l
  BY DEF SameFirst
<1>2. Counting' = Counting
  BY <1>1 DEF Counting, FigurePlaces
<1>3. \A u \in Threads : /\ First(u)' = "report" <=> First(u) = "report"
                         /\ First(u)' = "members" <=> First(u) = "members"
  BY <1>1 DEF FigurePlaces
<1> QED
  BY <1>2, <1>3 DEF FiguresOK, ReportCovers

LEMMA FiguresStep ==
  ASSUME ReportInv, [Next]_vars
  PROVE  FiguresOK' /\ ReportCovers'
<1> USE DEF ReportInv, LifeInv
<1>t. /\ recorder \in Figures /\ recorder.heapAllocs \in Int /\ recorder.heapAlloc \in Int
      /\ report \in Figures /\ report.heapAllocs \in Int /\ report.heapAlloc \in Int
  BY DEF FiguresOK, Figures
<1>c. Cardinality(Threads) \in Nat
  BY LifetimeAssumption, FS_CardinalityType
<1>1. ASSUME NEW t \in Threads, Callback(t)
      PROVE  FiguresOK' /\ ReportCovers'
  <2>1. /\ First(t) # "heapAlloc" /\ First(t)' = "heapAlloc"
        /\ \A u \in Threads \ {t} : First(u)' = First(u)
    BY <1>1, FirstSteps
  <2>2. /\ Cardinality(Counting) \in Nat
        /\ Cardinality(Counting)' = Cardinality(Counting) + 1
    BY <2>1, CountingMoved DEF Flag
  <2>3. /\ recorder' \in Figures /\ recorder'.heapAlloc = recorder.heapAlloc
        /\ instance # "destroyed" => recorder'.heapAllocs = recorder.heapAllocs + 1
        /\ instance' = instance /\ report' = report
    BY <1>1, <1>t DEF Callback, Add, Figures
  <2> QED
    BY <1>t, <2>1, <2>2, <2>3 DEF FiguresOK, ReportCovers
<1>2. ASSUME NEW t \in Threads, CallbackType(t)
      PROVE  FiguresOK' /\ ReportCovers'
  <2>1. /\ First(t) = "heapAlloc" /\ First(t)' = "leave"
        /\ \A u \in Threads \ {t} : First(u)' = First(u)
    BY <1>2, FirstSteps
  <2>2. /\ Cardinality(Counting) \in Nat
        /\ Cardinality(Counting)' = Cardinality(Counting) - 1
    BY <2>1, CountingMoved DEF Flag
  <2>3. /\ recorder' \in Figures /\ recorder'.heapAllocs = recorder.heapAllocs
        /\ instance # "destroyed" => recorder'.heapAlloc = recorder.heapAlloc + 1
        /\ recorder'.heapAlloc \in Int /\ recorder'.heapAlloc >= recorder.heapAlloc
        /\ instance' = instance /\ report' = report
    BY <1>2, <1>t DEF CallbackType, Add, Figures
  <2>4. ASSUME NEW u \in Threads
        PROVE  /\ First(u)' = "report" => report.heapAllocs - recorder'.heapAlloc < Cardinality(Threads)
               /\ First(u)' = "members" => report.heapAllocs - report.heapAlloc < Cardinality(Threads)
    BY <1>t, <1>c, <2>1, <2>3 DEF FiguresOK
  <2>5. instance # "destroyed" => recorder'.heapAllocs = recorder'.heapAlloc + Cardinality(Counting)'
    BY <1>t, <2>2, <2>3 DEF FiguresOK
  <2> QED
    BY <1>t, <2>3, <2>4, <2>5 DEF FiguresOK, ReportCovers
<1>3. ASSUME NEW t \in Threads, Destroy(t)
      PROVE  FiguresOK' /\ ReportCovers'
  <2>1. /\ First(t) = "destroy" /\ First(t)' = "report" /\ t = exiting /\ instance = "live"
        /\ \A u \in Threads \ {t} : First(u)' = First(u)
    BY <1>3, FirstSteps
  <2>2. /\ Cardinality(Counting) \in Nat
        /\ Cardinality(Counting)' = Cardinality(Counting)
    BY <2>1, CountingMoved DEF Flag
  <2>3. /\ report' \in Figures /\ report'.heapAllocs = recorder.heapAllocs
        /\ recorder' = recorder /\ instance' = instance
    BY <1>3, <1>t DEF Destroy, Figures
  <2>4. Cardinality(Counting) < Cardinality(Threads)
    <3>1. Counting \in SUBSET (Threads \ {t})
      BY <2>1 DEF Counting
    <3>2. IsFiniteSet(Threads \ {t}) /\ Cardinality(Threads \ {t}) = Cardinality(Threads) - 1
      BY LifetimeAssumption, FS_RemoveElement
    <3>3. Cardinality(Counting) <= Cardinality(Threads \ {t})
      BY <3>1, <3>2, FS_Subset
    <3> QED
      BY <1>c, <2>2, <3>2, <3>3
  <2>5. ASSUME NEW u \in Threads, First(u)' \in {"report", "members"}
        PROVE  u = t
    <3>1. SUFFICES ASSUME u # t PROVE FALSE
      OBVIOUS
    <3>2. First(u) \in {"report", "members"}
      BY <2>1, <2>5, <3>1
    <3>3. calls[u] \in Seq(Call) /\ calls[u] # <<>> /\ calls[u][1].at \in Destroying
      BY <3>2 DEF First, Destroying, CallsInv, LifeTypeOK
    <3>4. 1 \in 1..Len(calls[u])
      BY <3>3
    <3> QED
      BY <2>1, <3>1, <3>3, <3>4 DEF CallsInv, FramesOK, FrameOK
  <2>6. report'.heapAllocs - recorder.heapAlloc < Cardinality(Threads)
    BY <1>t, <1>c, <2>1, <2>2, <2>3, <2>4 DEF FiguresOK
  <2> QED
    BY <1>t, <2>1, <2>2, <2>3, <2>5, <2>6 DEF FiguresOK, ReportCovers
<1>4. ASSUME NEW t \in Threads, ReportTypes(t)
      PROVE  FiguresOK' /\ ReportCovers'
  <2>1. /\ First(t) = "report" /\ First(t)' = "members" /\ t = exiting /\ instance = "live"
        /\ \A u \in Threads \ {t} : First(u)' = First(u)
    BY <1>4, FirstSteps
  <2>2. /\ Cardinality(Counting) \in Nat
        /\ Cardinality(Counting)' = Cardinality(Counting)
    BY <2>1, CountingMoved DEF Flag
  <2>3. /\ report' \in Figures /\ report'.heapAllocs = report.heapAllocs
        /\ report'.heapAlloc = recorder.heapAlloc
        /\ recorder' = recorder /\ instance' = instance
    BY <1>4, <1>t DEF ReportTypes, Figures
  <2>4. report'.heapAllocs - report'.heapAlloc < Cardinality(Threads)
    BY <2>1, <2>3 DEF FiguresOK
  <2> QED
    BY <1>t, <2>1, <2>2, <2>3, <2>4 DEF FiguresOK, ReportCovers
<1>5. ASSUME NEW t \in Threads, Destroyed(t)
      PROVE  FiguresOK' /\ ReportCovers'
  <2>1. calls[t] # <<>> /\ Top(t) = calls[t][Len(calls[t])] /\ Top(t).at = "members"
        /\ Len(calls[t]) \in 1..Len(calls[t])
    BY <1>5 DEF Destroyed, At, Top, Last, CallsInv, LifeTypeOK
  <2>2. FrameOK(t, Len(calls[t]), Top(t))
    BY <2>1 DEF CallsInv, FramesOK
  <2>3. First(t) = "members"
    BY <2>1, <2>2 DEF FrameOK, Destroying, First
  <2>4. /\ First(t)' = "none" /\ \A u \in Threads \ {t} : First(u)' = First(u)
    BY <1>5 DEF Destroyed, First, CallsInv, LifeTypeOK
  <2>5. UNCHANGED <<recorder, report>> /\ instance' = "destroyed"
    BY <1>5 DEF Destroyed
  <2> QED
    BY <2>3, <2>4, <2>5 DEF FiguresOK, ReportCovers
<1>6. ASSUME NEW t \in Threads,
             \/ \E op \in {"alloc", "query"} : ProgramCall(t, op) \/ NestedCall(t, op)
             \/ MPICall(t) \/ CountCheck(t) \/ CheckBuffer(t) \/ CheckStatus(t) \/ Exit(t) \/ Leave(t)
             \/ Get(t) \/ LoadTypes(t) \/ Query(t)
      PROVE  FiguresOK' /\ ReportCovers'
  <2>1. UNCHANGED <<recorder, report, instance>>
    BY <1>6 DEF ProgramCall, NestedCall, MPICall, CountCheck, CheckBuffer, CheckStatus, Exit, Leave, Get,
                LoadTypes, Query
  <2> QED
    BY <1>6, <2>1, FirstKept, FiguresKept
<1>7. ASSUME NEW t \in Threads, Construct(t) \/ Constructed(t)
      PROVE  FiguresOK' /\ ReportCovers'
  <2>1. CASE Construct(t)
    BY <1>7, <2>1, FirstKept, FiguresKept DEF Construct
  <2>2. CASE Constructed(t)
    <3>1. calls[t] # <<>> /\ Top(t) = calls[t][Len(calls[t])] /\ Top(t).at = "constructed"
          /\ Len(calls[t]) \in 1..Len(calls[t])
      BY <2>2 DEF Constructed, At, Top, Last, CallsInv, LifeTypeOK
    <3>2. instance = "constructing"
      BY <3>1 DEF CallsInv, FramesOK, FrameOK, Building
    <3> QED
      BY <2>2, <3>2, FirstKept, FiguresKept DEF Constructed
  <2> QED
    BY <1>7, <2>1, <2>2
<1>8. ASSUME EndProcess \/ UNCHANGED vars
      PROVE  FiguresOK' /\ ReportCovers'
  <2>1. SameFirst /\ UNCHANGED <<recorder, report, instance>>
    BY <1>8 DEF EndProcess, vars, SameFirst, First
  <2> QED
    BY <2>1, FiguresKept
<1> QED
  BY <1>1, <1>2, <1>3, <1>4, <1>5, <1>6, <1>7, <1>8 DEF Next, Proceed, Ended

LEMMA FiguresInit == Init => FiguresOK /\ ReportCovers
<1> SUFFICES ASSUME Init PROVE FiguresOK /\ ReportCovers
  OBVIOUS
<1>1. \A t \in Threads : First(t) = "none"
  BY DEF Init, First
<1>2. Counting = {}
  BY <1>1 DEF Counting
<1>3. Cardinality(Counting) = 0
  BY <1>2, FS_EmptySet
<1> QED
  BY <1>1, <1>3 DEF Init, FiguresOK, Figures, ReportCovers

\* The report of the destructor, read while other threads run on, misses at most
\* one type per other thread (Runtime.cpp, AccessCountPrinter.h).
THEOREM ReportIsCovered == Spec => []ReportCovers
<1>1. Init => ReportInv
  BY LifeInit, FiguresInit DEF ReportInv
<1>2. ReportInv /\ [Next]_vars => ReportInv'
  BY CallsStep, ObjectStep, FiguresStep DEF ReportInv, LifeInv
<1>3. ReportInv => ReportCovers
  BY DEF ReportInv
<1> QED
  BY <1>1, <1>2, <1>3, PTL DEF Spec

-----------------------------------------------------------------------------
(* The interceptor's figures.                                              *)

CounterFields == {"send", "recv", "send_recv", "unsupported", "null_count", "null_buff", "error", "passed"}
BufferCheck == [dir : {"send", "recv"}, buf : Buffers, at : {"count", "check", "answer"}]

\* An MPI wrapper is at its first buffer.
ChecksOK ==
  /\ counter \in [CounterFields -> Int]
  /\ mpi \in [Threads -> Seq(BufferCheck)]
  /\ \A t \in Threads : \A i \in 2..Len(mpi[t]) : mpi[t][i].at = "count"

ChecksInv == ChecksOK /\ ChecksBalance

\* Threads whose first buffer has been counted.
Checking == {t \in Threads : mpi[t] # <<>> /\ Head(mpi[t]).at # "count"}

\* One figure is advanced, and t comes or goes.
LEMMA ChecksMoved ==
  ASSUME ChecksInv, NEW t \in Threads, \A u \in Threads \ {t} : mpi'[u] = mpi[u],
         NEW field \in CounterFields, Inc(field),
         Flag((t \in Checking)') - Flag(t \in Checking) =
           Flag(field \in {"send", "recv"}) - Flag(field \in {"null_count", "null_buff", "error", "passed"})
  PROVE  counter' \in [CounterFields -> Int] /\ ChecksBalance'
<1>1. /\ Cardinality(Checking) \in Nat
      /\ Cardinality(Checking') = Cardinality(Checking) + Flag((t \in Checking)') - Flag(t \in Checking)
  <2>1. Checking \in SUBSET Threads /\ Checking' \in SUBSET Threads /\ Checking \ {t} = Checking' \ {t}
    BY DEF Checking
  <2> QED
    BY <2>1, OneThread
<1>2. counter' = [f \in CounterFields |-> IF f = field THEN counter[f] + 1 ELSE counter[f]]
  BY DEF Inc, ChecksInv, ChecksOK
<1>3. /\ \A f \in CounterFields : counter[f] \in Int
      /\ \A f \in CounterFields : counter'[f] = counter[f] + Flag(f = field)
  BY <1>2 DEF ChecksInv, ChecksOK, Flag
<1>4. counter' \in [CounterFields -> Int]
  BY <1>2, <1>3
<1>5. /\ Flag((t \in Checking)') \in Int /\ Flag(t \in Checking) \in Int
  BY DEF Flag
<1>6. counter.send + counter.recv = counter.null_count + counter.null_buff + counter.error + counter.passed
        + Cardinality(Checking)
  BY DEF ChecksInv, ChecksBalance, Checking
<1>7. counter'.send + counter'.recv = counter'.null_count + counter'.null_buff + counter'.error + counter'.passed
        + Cardinality(Checking')
  BY <1>1, <1>3, <1>5, <1>6 DEF CounterFields, Flag
<1> QED
  BY <1>4, <1>7 DEF ChecksBalance, Checking

\* The check of a buffer is over: the wrapper's next buffer is not counted yet.
LEMMA CheckOver ==
  ASSUME ChecksInv, NEW t \in Threads, mpi[t] # <<>>, Head(mpi[t]).at # "count", Checked(t)
  PROVE  /\ mpi' \in [Threads -> Seq(BufferCheck)]
         /\ \A u \in Threads : \A i \in 2..Len(mpi'[u]) : mpi'[u][i].at = "count"
         /\ t \in Checking /\ ~(t \in Checking)' /\ \A u \in Threads \ {t} : mpi'[u] = mpi[u]
<1>1. mpi[t] \in Seq(BufferCheck) /\ mpi'[t] = Tail(mpi[t])
      /\ \A u \in Threads \ {t} : mpi'[u] = mpi[u]
  BY DEF ChecksInv, ChecksOK, Checked
<1>2. /\ Tail(mpi[t]) \in Seq(BufferCheck) /\ Len(Tail(mpi[t])) = Len(mpi[t]) - 1
      /\ \A i \in 1..Len(Tail(mpi[t])) : Tail(mpi[t])[i] = mpi[t][i + 1]
  BY <1>1, HeadTailProperties
<1>3. Len(mpi[t]) \in Nat
  BY <1>1
<1>4. \A i \in 1..Len(mpi'[t]) : mpi'[t][i].at = "count"
  <2>1. \A i \in 1..Len(mpi'[t]) : i + 1 \in 2..Len(mpi[t])
    BY <1>1, <1>2, <1>3
  <2> QED
    BY <1>1, <1>2, <2>1 DEF ChecksInv, ChecksOK
<1>5. mpi' \in [Threads -> Seq(BufferCheck)]
  BY <1>2 DEF ChecksInv, ChecksOK, Checked
<1>6. \A u \in Threads : \A i \in 2..Len(mpi'[u]) : mpi'[u][i].at = "count"
  <2>1. \A i \in 2..Len(mpi'[t]) : i \in 1..Len(mpi'[t])
    BY <1>1, <1>2
  <2> QED
    BY <1>1, <1>4, <2>1 DEF ChecksInv, ChecksOK
<1>7. mpi'[t] # <<>> => Head(mpi'[t]).at = "count"
  <2>1. mpi'[t] \in Seq(BufferCheck)
    BY <1>1, <1>2
  <2>2. mpi'[t] # <<>> => 1 \in 1..Len(mpi'[t]) /\ Head(mpi'[t]) = mpi'[t][1]
    BY <2>1
  <2> QED
    BY <1>4, <2>2
<1> QED
  BY <1>1, <1>5, <1>6, <1>7 DEF Checking

\* The check of a buffer goes on.
LEMMA CheckMoved ==
  ASSUME ChecksInv, NEW t \in Threads, mpi[t] # <<>>, NEW to \in {"check", "answer"}, MPIGoTo(t, to)
  PROVE  /\ mpi' \in [Threads -> Seq(BufferCheck)]
         /\ \A u \in Threads : \A i \in 2..Len(mpi'[u]) : mpi'[u][i].at = "count"
         /\ (t \in Checking)' /\ \A u \in Threads \ {t} : mpi'[u] = mpi[u]
<1> DEFINE s == mpi[t]
           b == [s[1] EXCEPT !.at = to]
           r == [s EXCEPT ![1] = b]
<1>1. s \in Seq(BufferCheck) /\ Len(s) \in Nat \ {0} /\ 1 \in 1..Len(s)
  BY DEF ChecksInv, ChecksOK
<1>2. b \in BufferCheck /\ b.at = to
  <2>1. s[1] \in BufferCheck
    BY <1>1
  <2> HIDE DEF s
  <2> QED
    BY <2>1 DEF BufferCheck
<1>3. mpi' = [mpi EXCEPT ![t] = r]
  BY DEF MPIGoTo
<1> HIDE DEF b
<1>4. r \in Seq(BufferCheck) /\ Len(r) = Len(s) /\ r[1] = b /\ \A i \in 2..Len(s) : r[i] = s[i]
  BY <1>1, <1>2
<1> HIDE DEF r
<1>5. mpi'[t] = r /\ \A u \in Threads \ {t} : mpi'[u] = mpi[u]
  BY <1>3 DEF ChecksInv, ChecksOK
<1>6. mpi' \in [Threads -> Seq(BufferCheck)]
  BY <1>3, <1>4 DEF ChecksInv, ChecksOK
<1>7. \A u \in Threads : \A i \in 2..Len(mpi'[u]) : mpi'[u][i].at = "count"
  <2>1. \A u \in Threads : \A i \in 2..Len(mpi[u]) : mpi[u][i].at = "count"
    BY DEF ChecksInv, ChecksOK
  <2>2. \A i \in 2..Len(r) : r[i].at = "count"
    BY <1>4, <2>1
  <2> QED
    BY <1>5, <2>1, <2>2
<1>8. r # <<>> /\ Head(r).at = to
  BY <1>1, <1>2, <1>4
<1> QED
  BY <1>5, <1>6, <1>7, <1>8 DEF Checking

LEMMA ChecksStep ==
  ASSUME ChecksInv, [Next]_vars
  PROVE  ChecksInv'
<1> USE DEF CounterFields
<1>q. ASSUME UNCHANGED <<mpi, counter>> PROVE ChecksInv'
  BY <1>q DEF ChecksInv, ChecksOK, ChecksBalance
<1>1. ASSUME NEW t \in Threads, MPICall(t)
      PROVE  ChecksInv'
  <2> DEFINE Started(s) == mpi' = [mpi EXCEPT ![t] = s]
  <2>0. mpi \in [Threads -> Seq(BufferCheck)] /\ t \notin Checking
    BY <1>1 DEF MPICall, Checking, ChecksInv, ChecksOK
  <2>a. ASSUME NEW buf \in Buffers, NEW dir \in {"send", "recv"}
        PROVE  Check(dir, buf) \in BufferCheck /\ Check(dir, buf).at = "count"
    BY DEF Check, BufferCheck
  <2>b. ASSUME NEW s \in Seq(BufferCheck), Started(s), \A i \in 1..Len(s) : s[i].at = "count"
        PROVE  /\ mpi' \in [Threads -> Seq(BufferCheck)]
               /\ \A u \in Threads : \A i \in 2..Len(mpi'[u]) : mpi'[u][i].at = "count"
               /\ ~(t \in Checking)' /\ \A u \in Threads \ {t} : mpi'[u] = mpi[u]
    <3>1. mpi'[t] = s /\ mpi' \in [Threads -> Seq(BufferCheck)]
          /\ \A u \in Threads \ {t} : mpi'[u] = mpi[u]
      BY <2>0, <2>b
    <3>2. \A i \in 2..Len(s) : i \in 1..Len(s)
      BY <2>b
    <3>3. s # <<>> => Head(s).at = "count"
      <4>1. s # <<>> => Head(s) = s[1] /\ 1 \in 1..Len(s)
        BY <2>b
      <4> QED
        BY <2>b, <4>1
    <3> QED
      BY <2>b, <3>1, <3>2, <3>3 DEF Checking, ChecksInv, ChecksOK
  <2>1. ASSUME NEW buf \in Buffers, NEW dir \in {"send", "recv"}, Started(<<Check(dir, buf)>>), counter' = counter
        PROVE  ChecksInv'
    <3>1. <<Check(dir, buf)>> \in Seq(BufferCheck)
          /\ \A i \in 1..Len(<<Check(dir, buf)>>) : <<Check(dir, buf)>>[i].at = "count"
      BY <2>a
    <3>2. /\ mpi' \in [Threads -> Seq(BufferCheck)]
          /\ \A u \in Threads : \A i \in 2..Len(mpi'[u]) : mpi'[u][i].at = "count"
          /\ ~(t \in Checking)' /\ \A u \in Threads \ {t} : mpi'[u] = mpi[u]
      BY <2>1, <2>b, <3>1
    <3>3. Checking' = Checking
      BY <2>0, <3>2 DEF Checking
    <3> QED
      BY <2>1, <3>2, <3>3 DEF ChecksInv, ChecksOK, ChecksBalance, Checking
  <2>2. ASSUME NEW buf \in Buffers, Started(<<Check("send", buf), Check("recv", "known")>>), Inc("send_recv")
        PROVE  ChecksInv'
    <3> DEFINE s == <<Check("send", buf), Check("recv", "known")>>
    <3>0. Check("send", buf) \in BufferCheck /\ Check("recv", "known") \in BufferCheck
          /\ Check("send", buf).at = "count" /\ Check("recv", "known").at = "count"
      BY <2>a DEF Buffers
    <3>1. s \in Seq(BufferCheck) /\ \A i \in 1..Len(s) : s[i].at = "count"
      BY <3>0
    <3>2. /\ mpi' \in [Threads -> Seq(BufferCheck)]
          /\ \A u \in Threads : \A i \in 2..Len(mpi'[u]) : mpi'[u][i].at = "count"
          /\ ~(t \in Checking)' /\ \A u \in Threads \ {t} : mpi'[u] = mpi[u]
      BY <2>2, <2>b, <3>1
    <3>3. counter' \in [CounterFields -> Int] /\ ChecksBalance'
      BY <2>0, <2>2, <3>2, ChecksMoved DEF Flag
    <3> QED
      BY <3>2, <3>3 DEF ChecksInv, ChecksOK
  <2>3. ASSUME UNCHANGED mpi, Inc("unsupported")
        PROVE  ChecksInv'
    <3>1. ~(t \in Checking)' /\ \A u \in Threads \ {t} : mpi'[u] = mpi[u]
      BY <2>0, <2>3 DEF Checking
    <3>2. counter' \in [CounterFields -> Int] /\ ChecksBalance'
      BY <2>0, <2>3, <3>1, ChecksMoved DEF Flag
    <3> QED
      BY <2>3, <3>2 DEF ChecksInv, ChecksOK
  <2> QED
    BY <1>1, <2>1, <2>2, <2>3 DEF MPICall
<1>2. ASSUME NEW t \in Threads, CountCheck(t)
      PROVE  ChecksInv'
  <2>1. mpi[t] # <<>> /\ Head(mpi[t]).at = "count" /\ Inc(Head(mpi[t]).dir) /\ MPIGoTo(t, "check")
    BY <1>2 DEF CountCheck, MPIAt
  <2>2. Head(mpi[t]).dir \in {"send", "recv"}
    <3>1. Head(mpi[t]) \in BufferCheck
      BY <2>1, HeadTailProperties DEF ChecksInv, ChecksOK
    <3> QED
      BY <3>1 DEF BufferCheck
  <2>3. t \notin Checking
    BY <2>1 DEF Checking
  <2>4. counter' \in [CounterFields -> Int] /\ ChecksBalance'
    BY <2>1, <2>2, <2>3, CheckMoved, ChecksMoved DEF Flag
  <2> QED
    BY <2>1, <2>4, CheckMoved DEF ChecksInv, ChecksOK
<1>3. ASSUME NEW t \in Threads, CheckBuffer(t)
      PROVE  ChecksInv'
  <2>1. mpi[t] # <<>> /\ Head(mpi[t]).at = "check" /\ t \in Checking
    BY <1>3 DEF CheckBuffer, MPIAt, Checking
  <2>2. CASE Inc(EarlyCounter(Head(mpi[t]).buf)) /\ Checked(t)
    <3>1. EarlyCounter(Head(mpi[t]).buf) \in {"null_count", "null_buff"}
      BY DEF EarlyCounter
    <3>2. counter' \in [CounterFields -> Int] /\ ChecksBalance'
      BY <2>1, <2>2, <3>1, CheckOver, ChecksMoved DEF Flag
    <3> QED
      BY <2>1, <2>2, <3>2, CheckOver DEF ChecksInv, ChecksOK
  <2>3. CASE MPIGoTo(t, "answer") /\ UNCHANGED counter
    <3>1. Checking' = Checking
      BY <2>1, <2>3, CheckMoved DEF Checking
    <3> QED
      BY <2>1, <2>3, <3>1, CheckMoved DEF ChecksInv, ChecksOK, ChecksBalance, Checking
  <2> QED
    BY <1>3, <2>2, <2>3 DEF CheckBuffer
<1>4. ASSUME NEW t \in Threads, CheckStatus(t)
      PROVE  ChecksInv'
  <2>1. mpi[t] # <<>> /\ Head(mpi[t]).at = "answer" /\ t \in Checking /\ Checked(t)
    BY <1>4 DEF CheckStatus, MPIAt, Checking
  <2>2. PICK field \in {"passed", "error"} : Inc(field)
    BY <1>4 DEF CheckStatus
  <2>3. counter' \in [CounterFields -> Int] /\ ChecksBalance'
    BY <2>1, <2>2, CheckOver, ChecksMoved DEF Flag
  <2> QED
    BY <2>1, <2>3, CheckOver DEF ChecksInv, ChecksOK
<1>5. ASSUME NEW t \in Threads,
             \/ \E op \in {"alloc", "query"} : ProgramCall(t, op) \/ NestedCall(t, op)
             \/ Exit(t) \/ Leave(t) \/ Get(t) \/ Construct(t) \/ LoadTypes(t) \/ Constructed(t)
             \/ Callback(t) \/ CallbackType(t) \/ Query(t)
             \/ Destroy(t) \/ ReportTypes(t) \/ Destroyed(t)
      PROVE  ChecksInv'
  BY <1>5, <1>q DEF ProgramCall, NestedCall, Exit, Leave, Get, Construct, LoadTypes, Constructed, Callback,
                    CallbackType, Query, Destroy, ReportTypes, Destroyed
<1>6. ASSUME EndProcess \/ UNCHANGED vars
      PROVE  ChecksInv'
  BY <1>6, <1>q DEF EndProcess, vars
<1> QED
  BY <1>1, <1>2, <1>3, <1>4, <1>5, <1>6 DEF Next, Proceed, Ended

LEMMA ChecksInit == Init => ChecksInv
<1> SUFFICES ASSUME Init PROVE ChecksInv
  OBVIOUS
<1>1. counter \in [CounterFields -> Int]
  BY DEF Init, Zero, CounterFields
<1>2. mpi \in [Threads -> Seq(BufferCheck)] /\ \A t \in Threads : mpi[t] = <<>>
  BY DEF Init
<1>3. Cardinality({t \in Threads : mpi[t] # <<>> /\ Head(mpi[t]).at # "count"}) = 0
  <2>1. {t \in Threads : mpi[t] # <<>> /\ Head(mpi[t]).at # "count"} = {}
    BY <1>2
  <2> QED
    BY <2>1, FS_EmptySet
<1>4. ChecksBalance
  BY <1>3 DEF Init, Zero, ChecksBalance
<1> QED
  BY <1>1, <1>2, <1>4 DEF ChecksInv, ChecksOK

\* The figures that the interceptor prints at MPI_Finalize add up, whatever the
\* interleaving of the wrappers (lib/mpi_interceptor).
THEOREM ChecksBalanced == Spec => []ChecksBalance
<1>1. ChecksInv => ChecksBalance
  BY DEF ChecksInv
<1> QED
  BY <1>1, ChecksInit, ChecksStep, PTL DEF Spec
=============================================================================
