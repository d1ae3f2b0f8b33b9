---------------------- MODULE InstrumentationPassProofs ----------------------
(***************************************************************************)
(* Proofs about the pass: the search of the call filter knows in which     *)
(* function it is, every operation is instrumented once, what the heap     *)
(* callbacks say of a block is true, and what reaches the target API is    *)
(* instrumented.                                                           *)
(***************************************************************************)
EXTENDS InstrumentationPass, FiniteSums, SequenceTheorems

-----------------------------------------------------------------------------
(* Sequences.                                                              *)

LEMMA FrontAndLast ==
  ASSUME NEW S, NEW s \in Seq(S), s # <<>>
  PROVE  /\ Len(s) \in Nat \ {0} /\ Last(s) \in S
         /\ Front(s) \in Seq(S) /\ Len(Front(s)) = Len(s) - 1
         /\ \A i \in 1..(Len(s) - 1) : Front(s)[i] = s[i]
<1>1. Len(s) \in Nat /\ Len(s) # 0
  BY LenProperties, EmptySeq
<1>2. Last(s) \in S
  BY <1>1, ElementOfSeq DEF Last
<1>3. /\ Front(s) \in Seq(S) /\ Len(Front(s)) = Len(s) - 1
      /\ \A i \in 1..(Len(s) - 1) : Front(s)[i] = s[i]
  <2>1. PICK n \in Nat : n = Len(s) - 1
    BY <1>1
  <2>2. \A i \in 1..n : s[i] \in S
    BY <1>1, <2>1, ElementOfSeq
  <2>3. /\ SubSeq(s, 1, n) \in Seq(S) /\ Len(SubSeq(s, 1, n)) = IF 1 <= n THEN n - 1 + 1 ELSE 0
        /\ \A i \in 1..(n - 1 + 1) : SubSeq(s, 1, n)[i] = s[1 + i - 1]
    BY <2>2, SubSeqProperties
  <2>4. Front(s) = SubSeq(s, 1, n)
    BY <2>1 DEF Front
  <2> QED
    BY <2>1, <2>3, <2>4
<1> QED
  BY <1>1, <1>2, <1>3

LEMMA Appended ==
  ASSUME NEW S, NEW s \in Seq(S), NEW e \in S
  PROVE  /\ Append(s, e) \in Seq(S) /\ Len(Append(s, e)) = Len(s) + 1
         /\ \A i \in 1..Len(s) : Append(s, e)[i] = s[i]
         /\ Append(s, e)[Len(s) + 1] = e
         /\ Len(s) \in Nat /\ Append(s, e) # <<>> /\ Last(Append(s, e)) = e
<1>1. /\ Append(s, e) \in Seq(S) /\ Len(Append(s, e)) = Len(s) + 1
      /\ \A i \in 1..Len(s) : Append(s, e)[i] = s[i]
      /\ Append(s, e)[Len(s) + 1] = e
      /\ Append(s, e) # <<>>
  BY AppendProperties
<1> QED
  BY <1>1, LenProperties DEF Last

-----------------------------------------------------------------------------
(* Elements in the order of their places.                                  *)

\* The number of elements before v.
Rank(S, at, v) == Cardinality({w \in S : at[w] < at[v]})

LEMMA Ranks ==
  ASSUME NEW S, IsFiniteSet(S), NEW at, \A v \in S : at[v] \in Nat,
         \A v, w \in S : at[v] = at[w] => v = w
  PROVE  /\ Cardinality(S) \in Nat
         /\ \A v \in S : Rank(S, at, v) \in 0..(Cardinality(S) - 1)
         /\ \A v, w \in S : Rank(S, at, v) = Rank(S, at, w) => v = w
         /\ \A n \in 1..Cardinality(S) : \E v \in S : Rank(S, at, v) = n - 1
<1> DEFINE Before(v) == {w \in S : at[w] < at[v]}
           n == Cardinality(S)
           rank == [v \in S |-> Cardinality(Before(v))]
<1>1. n \in Nat
  BY FS_CardinalityType
<1>2. ASSUME NEW v \in S, NEW U, IsFiniteSet(U), U \subseteq S, Before(v) \subseteq U, v \in U
      PROVE  Cardinality(Before(v)) \in Nat /\ Cardinality(Before(v)) < Cardinality(U)
  <2>1. v \notin Before(v)
    BY SMT
  <2>2. IsFiniteSet(U \ {v}) /\ Cardinality(U \ {v}) = Cardinality(U) - 1 /\ Cardinality(U) \in Nat
    BY <1>2, FS_RemoveElement, FS_CardinalityType
  <2>3. Before(v) \subseteq U \ {v}
    BY <1>2, <2>1
  <2>4. IsFiniteSet(Before(v)) /\ Cardinality(Before(v)) <= Cardinality(U \ {v})
    <3> HIDE DEF Before
    <3> QED
      BY <2>2, <2>3, FS_Subset
  <2>5. Cardinality(Before(v)) \in Nat
    <3> HIDE DEF Before
    <3> QED
      BY <2>4, FS_CardinalityType
  <2> HIDE DEF Before
  <2> QED
    BY <2>2, <2>4, <2>5
<1>3. ASSUME NEW v \in S PROVE rank[v] \in 0..(n - 1)
  <2>1. Cardinality(Before(v)) \in Nat /\ Cardinality(Before(v)) < n
    BY <1>2
  <2> HIDE DEF Before
  <2> QED
    BY <1>1, <2>1
<1>4. ASSUME NEW v \in S, NEW w \in S, at[v] < at[w] PROVE rank[v] < rank[w]
  <2>1. Before(v) \subseteq Before(w) /\ v \in Before(w)
    BY <1>4, SMT
  <2>2. IsFiniteSet(Before(w)) /\ Before(w) \subseteq S
    BY FS_Subset
  <2> HIDE DEF Before
  <2> QED
    BY <1>2, <2>1, <2>2
<1>5. ASSUME NEW v \in S, NEW w \in S, rank[v] = rank[w] PROVE v = w
  <2>1. at[v] < at[w] \/ at[w] < at[v] \/ at[v] = at[w]
    OBVIOUS
  <2>2. rank[v] \in Int /\ rank[w] \in Int
    BY <1>1, <1>3
  <2> HIDE DEF rank
  <2> QED
    BY <1>4, <1>5, <2>1, <2>2
<1>6. rank \in Injection(S, 0..(n - 1))
  <2>1. rank \in [S -> 0..(n - 1)]
    BY <1>3
  <2> HIDE DEF rank
  <2> QED
    BY <1>5, <2>1 DEF Injection, IsInjective
<1>7. IsFiniteSet(0..(n - 1)) /\ Cardinality(0..(n - 1)) = n
  BY <1>1, FS_Interval
<1>8. rank \in Surjection(S, 0..(n - 1))
  <2> HIDE DEF rank
  <2> QED
    BY <1>6, <1>7, FS_Injection
<1>9. ASSUME NEW k \in 1..n PROVE \E v \in S : rank[v] = k - 1
  <2>1. k - 1 \in 0..(n - 1)
    BY <1>1
  <2> HIDE DEF rank
  <2> QED
    BY <1>8, <2>1 DEF Surjection
<1>10. \A v \in S : Rank(S, at, v) = rank[v]
  BY DEF Rank
<1> HIDE DEF rank
<1> QED
  BY <1>1, <1>3, <1>5, <1>9, <1>10

\* A list without repetition of the elements of S.
Listing(list, S) ==
  /\ list \in Seq(S) /\ \A v \in S : \E i \in DOMAIN list : list[i] = v
  /\ \A i, j \in DOMAIN list : list[i] = list[j] => i = j

LEMMA RanksList ==
  ASSUME NEW S, IsFiniteSet(S), NEW at, \A v \in S : at[v] \in Nat,
         \A v, w \in S : at[v] = at[w] => v = w,
         NEW list, list = [i \in 1..Cardinality(S) |-> list[i]],
         \A i \in 1..Cardinality(S) : list[i] \in S /\ Rank(S, at, list[i]) = i - 1
  PROVE  Listing(list, S)
<1>1. /\ Cardinality(S) \in Nat
      /\ \A v \in S : Rank(S, at, v) \in 0..(Cardinality(S) - 1)
      /\ \A v, w \in S : Rank(S, at, v) = Rank(S, at, w) => v = w
  BY Ranks
<1>2. list \in [1..Cardinality(S) -> S]
  OBVIOUS
<1>3. list \in Seq(S) /\ DOMAIN list = 1..Cardinality(S)
  BY <1>1, <1>2, IsASeq
<1>4. ASSUME NEW v \in S PROVE \E i \in DOMAIN list : list[i] = v
  <2>1. PICK i \in 1..Cardinality(S) : Rank(S, at, v) = i - 1
    <3>1. PICK r \in 0..(Cardinality(S) - 1) : Rank(S, at, v) = r
      BY <1>1
    <3>2. r + 1 \in 1..Cardinality(S) /\ r = r + 1 - 1
      BY <1>1
    <3> QED
      BY <3>1, <3>2
  <2>2. list[i] = v
    BY <1>1, <2>1
  <2> QED
    BY <1>3, <2>2
<1>5. ASSUME NEW i \in DOMAIN list, NEW j \in DOMAIN list, list[i] = list[j] PROVE i = j
  <2>1. i - 1 = j - 1 /\ i \in Int /\ j \in Int
    BY <1>3, <1>5
  <2> QED
    BY <2>1
<1> QED
  BY <1>3, <1>4, <1>5 DEF Listing

-----------------------------------------------------------------------------
(* The module.                                                             *)

LEMMA ModuleFacts ==
  ASSUME ValidModule(prog)
  PROVE  /\ IsFiniteSet(Values) /\ IsFiniteSet(Functions) /\ "none" \notin Values
         /\ \A f \in Functions : Fun(f).params \in Seq(Values)
         /\ \A v \in Values :
              /\ Val(v).ops \in Seq(Values) /\ Uses(v) \in SUBSET (Values \X Nat)
              /\ IsStore(v) => Len(Val(v).ops) = 2
         /\ \A c \in Values :
              IsCall(c) /\ Val(c).callee # "indirect" =>
                /\ Val(c).callee \in Functions
                /\ Fun(Val(c).callee).kind = "def" /\ Fun(Val(c).callee).omp # "fork" =>
                     Len(Val(c).ops) <= Len(Fun(Val(c).callee).params)
                /\ Fun(Val(c).callee).omp = "fork" =>
                     /\ Len(Fun(Val(c).callee).params) # 1
                     /\ getMicrotask(c) \in Functions
                     /\ Len(Val(c).ops) <= Len(Fun(getMicrotask(c)).params) + 1
BY Zenon DEF ValidModule, Values, Functions, Fun, Val, Uses, IsStore, IsCall, getMicrotask

LEMMA OperationFacts ==
  ASSUME ValidOperations(prog)
  PROVE  /\ \A f \in Functions : Fun(f).at \in Nat
         /\ \A f, g \in Functions : Fun(f).kind = "def" /\ Fun(g).kind = "def" /\ Fun(f).at = Fun(g).at => f = g
         /\ \A v \in Values : Val(v).at \in Nat
         /\ \A v, w \in Values :
              /\ Val(v).at = Val(w).at
              /\ {Val(v).kind, Val(w).kind} \subseteq {"call", "alloca"} \/ {Val(v).kind, Val(w).kind} = {"global"}
              => v = w
         /\ \A v \in Values : Val(v).kind = "bitcast" => ValidType(prog.layouts, Val(v).type)
         /\ \A v \in Values : Val(v).kind = "call" /\ Val(v).callee # "indirect" =>
              /\ Fun(Val(v).callee).mem \in {"malloc", "calloc"} => Num(Val(v).ops[1]) \in Nat
              /\ Fun(Val(v).callee).mem \in {"calloc", "realloc", "aligned_alloc"} => Num(Val(v).ops[2]) \in Nat
              /\ Fun(Val(v).callee).mem \in Allocating => Val(v).address = [block |-> v, offset |-> 0]
BY Zenon DEF ValidOperations, Values, Functions, Fun, Val, Num

\* InOrder lists a set of instructions or of globals.
LEMMA InOrderLists ==
  ASSUME ValidModule(prog), ValidOperations(prog), NEW S, S \subseteq Values,
         (\A v \in S : Val(v).kind \in {"call", "alloca"}) \/ (\A v \in S : Val(v).kind = "global")
  PROVE  Listing(InOrder(S), S)
<1> DEFINE at == [v \in S |-> Val(v).at]
           list == InOrder(S)
           Place(i) == CHOOSE v \in S : Cardinality({w \in S : Val(w).at < Val(v).at}) = i - 1
<1>1. IsFiniteSet(S)
  BY ModuleFacts, FS_Subset
<1>2. \A v \in S : at[v] \in Nat
  BY OperationFacts
<1>3. ASSUME NEW v \in S, NEW w \in S, at[v] = at[w] PROVE v = w
  <2>1. v \in Values /\ w \in Values /\ Val(v).at = Val(w).at
    BY <1>3
  <2>2. \/ {Val(v).kind, Val(w).kind} \subseteq {"call", "alloca"}
        \/ {Val(v).kind, Val(w).kind} = {"global"}
    OBVIOUS
  <2> QED
    BY <2>1, <2>2, OperationFacts, Zenon
<1>4. \A v \in S : Rank(S, at, v) = Cardinality({w \in S : Val(w).at < Val(v).at})
  <2>1. \A v \in S : {w \in S : at[w] < at[v]} = {w \in S : Val(w).at < Val(v).at}
    OBVIOUS
  <2> QED
    BY <2>1, Zenon DEF Rank
<1>5. \A n \in 1..Cardinality(S) : \E v \in S : Rank(S, at, v) = n - 1
  <2> HIDE DEF at
  <2> QED
    BY <1>1, <1>2, <1>3, Ranks
<1>6. list = [i \in 1..Cardinality(S) |-> Place(i)]
  BY Zenon DEF InOrder
<1>7. ASSUME NEW i \in 1..Cardinality(S) PROVE list[i] \in S /\ Rank(S, at, list[i]) = i - 1
  <2>1. list[i] = Place(i)
    <3> HIDE DEF list, Place
    <3> QED
      BY <1>6
  <2>2. PICK v \in S : Cardinality({w \in S : Val(w).at < Val(v).at}) = i - 1
    <3> HIDE DEF at
    <3> QED
      BY <1>4, <1>5
  <2>3. list[i] \in S /\ Cardinality({w \in S : Val(w).at < Val(list[i]).at}) = i - 1
    <3> HIDE DEF list
    <3> QED
      BY <2>1, <2>2
  <2> QED
    <3> HIDE DEF list, at
    <3> QED
      BY <1>4, <2>3
<1>8. list = [i \in 1..Cardinality(S) |-> list[i]]
  <2> HIDE DEF list, Place
  <2> QED
    BY <1>6
<1> HIDE DEF list, at, Place
<1>9. Listing(list, S)
  BY <1>1, <1>2, <1>3, <1>7, <1>8, RanksList
<1> QED
  BY <1>9 DEF list

LEMMA DefinitionsListed ==
  ASSUME ValidModule(prog), ValidOperations(prog)
  PROVE  Listing(DefinitionsInOrder, Definitions)
<1> DEFINE at == [f \in Definitions |-> Fun(f).at]
           list == DefinitionsInOrder
           Place(i) == CHOOSE f \in Definitions : Cardinality({g \in Definitions : Fun(g).at < Fun(f).at}) = i - 1
<1>0. Definitions \subseteq Functions /\ \A f \in Definitions : Fun(f).kind = "def"
  BY DEF Definitions
<1>1. IsFiniteSet(Definitions)
  BY <1>0, ModuleFacts, FS_Subset
<1>2. \A f \in Definitions : at[f] \in Nat
  BY <1>0, OperationFacts
<1>3. ASSUME NEW f \in Definitions, NEW g \in Definitions, at[f] = at[g] PROVE f = g
  BY <1>0, <1>3, OperationFacts
<1>4. \A f \in Definitions :
        Rank(Definitions, at, f) = Cardinality({g \in Definitions : Fun(g).at < Fun(f).at})
  <2>1. \A f \in Definitions : {g \in Definitions : at[g] < at[f]} = {g \in Definitions : Fun(g).at < Fun(f).at}
    OBVIOUS
  <2> QED
    BY <2>1, Zenon DEF Rank
<1>5. \A n \in 1..Cardinality(Definitions) : \E f \in Definitions : Rank(Definitions, at, f) = n - 1
  <2> HIDE DEF at
  <2> QED
    BY <1>1, <1>2, <1>3, Ranks
<1>6. list = [i \in 1..Cardinality(Definitions) |-> Place(i)]
  BY Zenon DEF DefinitionsInOrder
<1>7. ASSUME NEW i \in 1..Cardinality(Definitions)
      PROVE  list[i] \in Definitions /\ Rank(Definitions, at, list[i]) = i - 1
  <2>1. list[i] = Place(i)
    <3> HIDE DEF list, Place
    <3> QED
      BY <1>6
  <2>2. PICK f \in Definitions : Cardinality({g \in Definitions : Fun(g).at < Fun(f).at}) = i - 1
    <3> HIDE DEF at
    <3> QED
      BY <1>4, <1>5
  <2>3. list[i] \in Definitions /\ Cardinality({g \in Definitions : Fun(g).at < Fun(list[i]).at}) = i - 1
    <3> HIDE DEF list
    <3> QED
      BY <2>1, <2>2
  <2> QED
    <3> HIDE DEF list, at
    <3> QED
      BY <1>4, <2>3
<1>8. list = [i \in 1..Cardinality(Definitions) |-> list[i]]
  <2> HIDE DEF list, Place
  <2> QED
    BY <1>6
<1> HIDE DEF list, at, Place
<1>9. Listing(list, Definitions)
  BY <1>1, <1>2, <1>3, <1>7, <1>8, RanksList
<1> QED
  BY <1>9 DEF list

-----------------------------------------------------------------------------
(* The search: types, and the chain of functions.                          *)

\* The paths to definitions that DFSfilter keeps end in a call of one, or of a fork.
Followed ==
  {d \in (Values \cup {"none"}) \X Values :
     /\ IsCall(d[2]) /\ Val(d[2]).callee # "indirect"
     /\ Fun(Val(d[2]).callee).kind = "def" \/ Fun(Val(d[2]).callee).omp = "fork"}

Activations ==
  {a \in [value : Values, phase : {"precheck", "search", "definitions"}, path : Seq(Values),
          left : Seq(SUBSET (Values \X Nat)), phis : SUBSET Values, defs : Seq(Followed), args : Seq(Values)] :
     /\ Len(a.left) = Len(a.path)
     /\ a.args # <<>> => a.phase = "definitions"}

\* No function is entered again, those of parallel regions excepted.
NoneAgain(ch, st) ==
  \A i \in DOMAIN ch :
    ch[i] \in OutlinedFunctions \/ (ch[i] # st /\ \A j \in DOMAIN ch : ch[j] = ch[i] => j = i)

ParamsOf(f) == ToSet(Fun(f).params)

\* Each activation but the first is that of a parameter of the function the chain
\* has for it; the innermost one may have entered a function already.
Entered(as, ch) ==
  /\ Len(ch) = IF as[Len(as)].args = <<>> THEN Len(as) - 1 ELSE Len(as)
  /\ Len(as[Len(as)].args) <= 1
  /\ as[Len(as)].args # <<>> => as[Len(as)].args[1] \in ParamsOf(ch[Len(ch)])
  /\ \A k \in 1..(Len(as) - 1) : as[k].args = <<>>
  /\ \A k \in 2..Len(as) : as[k].value \in ParamsOf(ch[k - 1])

SearchInv ==
  /\ chain \in Seq(Functions) /\ acts \in Seq(Activations)
  /\ verdict = "open" => acts # <<>>
  /\ NoneAgain(chain, start)
  /\ verdict = "open" /\ "uncorrelated" \notin cuts => Entered(acts, chain)

LEMMA SameModule ==
  ASSUME prog' = prog
  PROVE  /\ Values' = Values /\ Functions' = Functions /\ Activations' = Activations
         /\ OutlinedFunctions' = OutlinedFunctions
         /\ \A f : ParamsOf(f)' = ParamsOf(f)
<1>1. Values' = Values /\ Functions' = Functions
  BY DEF Values, Functions
<1>2. Followed' = Followed
  BY <1>1 DEF Followed, IsCall, Val, Fun
<1>3. Activations' = Activations
  BY <1>1, <1>2 DEF Activations
<1>4. OutlinedFunctions' = OutlinedFunctions
  BY <1>1 DEF OutlinedFunctions, IsCall, Val, Fun, isOmpExecutor, getMicrotask
<1>5. \A f : ParamsOf(f)' = ParamsOf(f)
  BY DEF ParamsOf, Fun
<1> QED
  BY <1>1, <1>3, <1>4, <1>5

\* The innermost activation.
LEMMA Innermost ==
  ASSUME SearchInv, verdict = "open"
  PROVE  /\ Len(acts) \in Nat \ {0} /\ Top \in Activations /\ Top = acts[Len(acts)]
         /\ Top.value \in Values /\ Top.path \in Seq(Values) /\ Top.left \in Seq(SUBSET (Values \X Nat))
         /\ Len(Top.left) = Len(Top.path) /\ Top.phis \in SUBSET Values
         /\ Top.defs \in Seq(Followed) /\ Top.args \in Seq(Values)
         /\ Top.args # <<>> => Top.phase = "definitions"
<1>1. Len(acts) \in Nat \ {0} /\ Top \in Activations /\ Top = acts[Len(acts)]
  BY FrontAndLast DEF SearchInv, Top, Last
<1> QED
  BY <1>1 DEF Activations

LEMMA Replaced ==
  ASSUME SearchInv, verdict = "open", NEW a \in Activations
  PROVE  /\ Replace(a) \in Seq(Activations) /\ Len(Replace(a)) = Len(acts) /\ Replace(a) # <<>>
         /\ \A k \in 1..(Len(acts) - 1) : Replace(a)[k] = acts[k]
         /\ Replace(a)[Len(acts)] = a
<1>1. /\ Front(acts) \in Seq(Activations) /\ Len(Front(acts)) = Len(acts) - 1
      /\ Len(acts) \in Nat \ {0}
      /\ \A i \in 1..(Len(acts) - 1) : Front(acts)[i] = acts[i]
  BY FrontAndLast DEF SearchInv
<1> DEFINE front == Front(acts)
<1>2. Replace(a) = Append(front, a)
  BY DEF Replace
<1> HIDE DEF front
<1>3. front \in Seq(Activations) /\ Len(front) = Len(acts) - 1 /\ \A i \in 1..(Len(acts) - 1) : front[i] = acts[i]
  BY <1>1 DEF front
<1>4. /\ Append(front, a) \in Seq(Activations) /\ Len(Append(front, a)) = Len(front) + 1
      /\ \A i \in 1..Len(front) : Append(front, a)[i] = front[i]
      /\ Append(front, a)[Len(front) + 1] = a /\ Append(front, a) # <<>>
  BY <1>3, Appended
<1> QED
  BY <1>1, <1>2, <1>3, <1>4

\* A step within the innermost activation.
LEMMA StepInside ==
  ASSUME SearchInv, verdict = "open", NEW a \in Activations, a.value = Top.value, a.args = Top.args,
         acts' = Replace(a), UNCHANGED <<prog, start, chain, verdict>>, cuts \subseteq cuts'
  PROVE  SearchInv'
<1> DEFINE n == Len(acts)
<1>1. /\ acts' \in Seq(Activations) /\ Len(acts') = n /\ acts' # <<>> /\ n \in Nat \ {0}
      /\ \A k \in 1..(n - 1) : acts'[k] = acts[k]
      /\ acts'[n] = a /\ acts[n].args = a.args /\ acts[n].value = a.value
  BY Replaced, Innermost
<1>2. ASSUME verdict' = "open", "uncorrelated" \notin cuts' PROVE Entered(acts, chain)'
  <2>1. Entered(acts, chain)
    BY <1>2 DEF SearchInv
  <2>2. \A f : ParamsOf(f)' = ParamsOf(f)
    BY SameModule
  <2>3. \A k \in 2..n : acts'[k].value = acts[k].value
    BY <1>1
  <2> QED
    BY <1>1, <2>1, <2>2, <2>3 DEF Entered
<1>3. NoneAgain(chain, start)'
  BY SameModule DEF SearchInv, NoneAgain
<1> QED
  BY <1>1, <1>2, <1>3, SameModule DEF SearchInv

\* The search ends with a value that is kept.
LEMMA StepKeep ==
  ASSUME SearchInv, Keep, prog' = prog
  PROVE  SearchInv'
<1>1. NoneAgain(chain, start)'
  BY SameModule DEF SearchInv, NoneAgain, Keep
<1> QED
  BY <1>1, SameModule DEF SearchInv, Keep

\* An activation returns.
LEMMA StepReturn ==
  ASSUME SearchInv, verdict = "open", Top.args = <<>>, ReturnFilter,
         UNCHANGED <<prog, start>>, cuts \subseteq cuts'
  PROVE  SearchInv'
<1> DEFINE n == Len(acts)
<1>1. /\ n \in Nat \ {0} /\ acts' \in Seq(Activations) /\ Len(acts') = n - 1
      /\ \A k \in 1..(n - 1) : acts'[k] = acts[k]
  BY FrontAndLast DEF SearchInv, ReturnFilter
<1>2. /\ chain' \in Seq(Functions)
      /\ chain # <<>> => Len(chain') = Len(chain) - 1
      /\ Len(chain) \in Nat /\ Len(chain') \in Nat /\ Len(chain') <= Len(chain)
      /\ \A i \in 1..Len(chain') : chain'[i] = chain[i]
  <2>1. CASE chain = <<>>
    BY <2>1, EmptySeq DEF ReturnFilter, PopChain, SearchInv
  <2>2. CASE chain # <<>>
    <3>1. /\ Front(chain) \in Seq(Functions) /\ Len(Front(chain)) = Len(chain) - 1 /\ Len(chain) \in Nat \ {0}
          /\ \A i \in 1..(Len(chain) - 1) : Front(chain)[i] = chain[i]
      BY <2>2, FrontAndLast DEF SearchInv
    <3>2. chain' = Front(chain)
      BY <2>2 DEF ReturnFilter, PopChain
    <3> QED
      BY <3>1, <3>2
  <2> QED
    BY <2>1, <2>2
<1>3. NoneAgain(chain, start)'
  <2>1. DOMAIN chain = 1..Len(chain) /\ DOMAIN chain' = 1..Len(chain')
    BY <1>2, LenProperties DEF SearchInv
  <2>2. NoneAgain(chain, start) /\ start' = start /\ OutlinedFunctions' = OutlinedFunctions
    BY SameModule DEF SearchInv
  <2>3. \A i \in DOMAIN chain' : i \in DOMAIN chain /\ chain'[i] = chain[i]
    <3>1. \A i \in 1..Len(chain') : i \in 1..Len(chain) /\ chain'[i] = chain[i]
      BY <1>2
    <3> QED
      BY <2>1, <3>1, Zenon
  <2>4. ASSUME NEW i \in DOMAIN chain', chain'[i] \notin OutlinedFunctions
        PROVE  chain'[i] # start /\ \A j \in DOMAIN chain' : chain'[j] = chain'[i] => j = i
    <3>1. chain[i] \notin OutlinedFunctions /\ i \in DOMAIN chain
      BY <2>3, <2>4
    <3>2. chain[i] # start /\ \A j \in DOMAIN chain : chain[j] = chain[i] => j = i
      BY <2>2, <3>1, Zenon DEF NoneAgain
    <3> QED
      BY <2>3, <3>2
  <2> QED
    BY <2>2, <2>4, Zenon DEF NoneAgain
<1>4. ASSUME verdict' = "open" PROVE n # 1 /\ acts' # <<>>
  BY <1>1, <1>4, EmptySeq DEF ReturnFilter
<1>5. ASSUME verdict' = "open", "uncorrelated" \notin cuts' PROVE Entered(acts, chain)'
  <2>1. Entered(acts, chain) /\ acts[n].args = <<>>
    BY <1>5, Innermost DEF SearchInv
  <2>2. Len(chain) = n - 1 /\ Len(chain') = n - 2
    <3>1. Len(chain) = n - 1
      BY <2>1 DEF Entered
    <3>2. chain # <<>>
      BY <1>1, <1>4, <1>5, <3>1, EmptySeq
    <3> QED
      BY <1>2, <3>1, <3>2
  <2>3. acts'[n - 1].args = <<>>
    BY <1>1, <1>4, <1>5, <2>1 DEF Entered
  <2>4. \A f : ParamsOf(f)' = ParamsOf(f)
    BY SameModule
  <2>5. \A k \in 1..(n - 2) : acts'[k].args = <<>>
    BY <1>1, <2>1 DEF Entered
  <2>6. \A k \in 2..(n - 1) : acts'[k].value \in ParamsOf(chain'[k - 1])
    BY <1>1, <1>2, <2>1, <2>2 DEF Entered
  <2>7. Len(acts'[Len(acts')].args) <= 1
    BY <1>1, <2>3, EmptySeq
  <2> QED
    BY <1>1, <2>2, <2>3, <2>4, <2>5, <2>6, <2>7 DEF Entered
<1> QED
  BY <1>1, <1>2, <1>3, <1>4, <1>5, SameModule DEF SearchInv

LEMMA CallsiteFollowed ==
  ASSUME NEW v \in Values, NEW prev, callsite(v, prev) = "FollowDef"
  PROVE  /\ IsCall(v) /\ Val(v).callee # "indirect"
         /\ Fun(Val(v).callee).kind = "def" \/ Fun(Val(v).callee).omp = "fork"
<1>1. StdDecl(v, prev) # "FollowDef" /\ CGDecl(v, prev) # "FollowDef"
  BY DEF StdDecl, CGDecl
<1>2. IsCall(v)
  BY DEF callsite
<1>3. Val(v).callee # "indirect"
  BY <1>1, <1>2 DEF callsite, IsDecl
<1>4. Fun(Val(v).callee).kind = "def" \/ isOmpExecutor(Val(v).callee)
  BY <1>1, <1>2, <1>3 DEF callsite, IsDecl
<1> QED
  BY <1>2, <1>3, <1>4 DEF isOmpExecutor

LEMMA SearchType ==
  ASSUME ValidModule(prog), NEW v \in Values, NEW path, NEW r
  PROVE  search(v, path, r) \in SUBSET (Values \X Nat)
<1>1. CASE IsStore(v)
  <2>1. Pointer(v) \in Values
    BY <1>1, ModuleFacts, ElementOfSeq DEF Pointer
  <2> QED
    BY <1>1, <2>1 DEF search
<1>2. CASE ~IsStore(v)
  BY <1>2, ModuleFacts DEF search
<1> QED
  BY <1>1, <1>2

\* The value before the one that is put on the path.
Prev(a) == IF a.path = <<>> THEN "none" ELSE Last(a.path)

\* The activation a becomes b when a value is put on its path.
VisitedAs(a, v, b) ==
  LET status == callsite(v, Prev(a))
      isPhi == Val(v).kind = "phi"
  IN  /\ b.value = a.value /\ b.args = a.args /\ b.phase = "search" /\ b.path = Append(a.path, v)
      /\ b.phis = IF isPhi THEN a.phis \cup {v} ELSE a.phis
      /\ b.left = Append(a.left, IF status = "Skip" THEN {} ELSE search(v, Append(a.path, v), isPhi /\ v \in a.phis))
      /\ b.defs = IF status = "FollowDef" THEN Append(a.defs, <<Prev(a), v>>) ELSE a.defs

LEMMA Visited ==
  ASSUME ValidModule(prog), NEW a \in Activations, a.args = <<>>, NEW v \in Values, Visit(a, v), ~Keep
  PROVE  \E b \in Activations :
           /\ acts' = Replace(b) /\ UNCHANGED <<start, chain, verdict>>
           /\ callsite(v, Prev(a)) # "Keep"
           /\ cuts' = cuts \cup GivenUp(v, Prev(a), callsite(v, Prev(a)))
           /\ VisitedAs(a, v, b)
<1> DEFINE prev == Prev(a)
           status == callsite(v, prev)
           path == Append(a.path, v)
           isPhi == Val(v).kind = "phi"
           phis == IF isPhi THEN a.phis \cup {v} ELSE a.phis
           next == IF status = "Skip" THEN {} ELSE search(v, path, isPhi /\ v \in a.phis)
           defs == IF status = "FollowDef" THEN Append(a.defs, <<prev, v>>) ELSE a.defs
           b == [a EXCEPT !.phase = "search", !.path = path, !.phis = phis,
                          !.left = Append(a.left, next), !.defs = defs]
<1>1. status # "Keep"
  BY Zenon DEF Visit, Prev
<1>2. /\ acts' = Replace(b) /\ UNCHANGED <<start, chain, verdict>>
      /\ cuts' = cuts \cup GivenUp(v, prev, status)
  BY <1>1, Zenon DEF Visit, Prev
<1>3. /\ a.value \in Values /\ a.path \in Seq(Values) /\ a.left \in Seq(SUBSET (Values \X Nat))
      /\ Len(a.left) = Len(a.path) /\ a.phis \in SUBSET Values /\ a.defs \in Seq(Followed)
      /\ a \in [value : Values, phase : {"precheck", "search", "definitions"}, path : Seq(Values),
                 left : Seq(SUBSET (Values \X Nat)), phis : SUBSET Values, defs : Seq(Followed), args : Seq(Values)]
  BY DEF Activations
<1>4. prev \in Values \cup {"none"}
  BY <1>3, FrontAndLast DEF Prev
<1>5. path \in Seq(Values) /\ Len(path) = Len(a.path) + 1
  BY <1>3, Appended
<1>6. next \in SUBSET (Values \X Nat)
  <2> HIDE DEF path, status, isPhi
  <2> QED
    BY SearchType
<1>7. Append(a.left, next) \in Seq(SUBSET (Values \X Nat)) /\ Len(Append(a.left, next)) = Len(a.left) + 1
  <2> HIDE DEF next
  <2>1. PICK U : U = SUBSET (Values \X Nat)
    OBVIOUS
  <2>2. a.left \in Seq(U) /\ next \in U
    BY <1>3, <1>6, <2>1
  <2>3. Append(a.left, next) \in Seq(U) /\ Len(Append(a.left, next)) = Len(a.left) + 1
    BY <2>2, Appended
  <2> QED
    BY <2>1, <2>3
<1>8. defs \in Seq(Followed)
  <2>1. CASE status = "FollowDef"
    <3>1. <<prev, v>> \in Followed
      <4> HIDE DEF prev
      <4>1. callsite(v, prev) = "FollowDef"
        BY <2>1
      <4> QED
        BY <1>4, <4>1, CallsiteFollowed DEF Followed
    <3> HIDE DEF prev, status
    <3> QED
      BY <1>3, <2>1, <3>1, Appended
  <2>2. CASE status # "FollowDef"
    BY <1>3, <2>2
  <2> QED
    BY <2>1, <2>2
<1>9. phis \in SUBSET Values
  BY <1>3
<1>10. b \in Activations /\ VisitedAs(a, v, b)
  <2>1. /\ b.value = a.value /\ b.args = a.args /\ b.phase = "search" /\ b.path = path /\ b.phis = phis
        /\ b.left = Append(a.left, next) /\ b.defs = defs
    <3> HIDE DEF prev, status, path, isPhi, phis, next, defs
    <3> QED
      BY <1>3
  <2>2. VisitedAs(a, v, b)
    <3> HIDE DEF b
    <3> QED
      BY <2>1, Zenon DEF VisitedAs
  <2> HIDE DEF prev, status, path, isPhi, phis, next, defs
  <2>3. b \in Activations
    BY <1>3, <1>5, <1>7, <1>8, <1>9 DEF Activations
  <2> QED
    BY <2>2, <2>3
<1> HIDE DEF b
<1> QED
  BY <1>1, <1>2, <1>10

\* A value is put on the path of the innermost activation.
LEMMA StepVisit ==
  ASSUME ValidModule(prog), SearchInv, verdict = "open", NEW a \in Activations, a.value = Top.value,
         a.args = <<>>, Top.args = <<>>, NEW v \in Values, Visit(a, v), prog' = prog
  PROVE  SearchInv'
<1>1. CASE Keep
  BY <1>1, StepKeep
<1>2. CASE ~Keep
  <2>1. PICK b \in Activations :
          /\ acts' = Replace(b) /\ UNCHANGED <<start, chain, verdict>>
          /\ cuts' = cuts \cup GivenUp(v, Prev(a), callsite(v, Prev(a)))
          /\ VisitedAs(a, v, b)
    BY <1>2, Visited
  <2>2. b.value = Top.value /\ b.args = Top.args /\ cuts \subseteq cuts'
    BY <2>1 DEF VisitedAs
  <2> QED
    BY <2>1, <2>2, StepInside
<1> QED
  BY <1>1, <1>2

LEMMA FindArgType ==
  ASSUME ValidModule(prog), NEW c \in Values, NEW prev
  PROVE  findArg(c, prev) \in 0..Len(Val(c).ops)
<1> DEFINE at == {i \in DOMAIN Val(c).ops : Val(c).ops[i] = prev}
<1>1. Len(Val(c).ops) \in Nat /\ DOMAIN Val(c).ops = 1..Len(Val(c).ops)
  BY ModuleFacts, LenProperties
<1>2. at \subseteq 1..Len(Val(c).ops)
  BY <1>1
<1>3. findArg(c, prev) = IF at = {} THEN 0 ELSE CHOOSE i \in at : \A j \in at : i <= j
  BY DEF findArg
<1> HIDE DEF at
<1>4. ASSUME at # {} PROVE \E i \in at : \A j \in at : i <= j
  <2>1. at \subseteq Nat
    BY <1>1, <1>2
  <2> QED
    BY <1>4, <2>1, LeastNatural
<1>5. at # {} => findArg(c, prev) \in at
  BY <1>3, <1>4
<1>6. at = {} => findArg(c, prev) = 0
  BY <1>3, Zenon
<1>7. 1..Len(Val(c).ops) \subseteq 0..Len(Val(c).ops) /\ 0 \in 0..Len(Val(c).ops)
  BY <1>1
<1> QED
  BY <1>2, <1>5, <1>6, <1>7, Zenon

\* The function that a path to a definition enters, and what it is entered with.
LEMMA EnteredWith ==
  ASSUME ValidModule(prog), NEW d \in Followed
  PROVE  LET c == d[2]
             f == Val(c).callee
             i == findArg(c, d[1])
             g == IF isOmpExecutor(f) THEN getMicrotask(c) ELSE f
         IN  /\ g \in Functions /\ (isOmpExecutor(f) => g \in OutlinedFunctions)
             /\ ~(isOmpExecutor(f) /\ canDiscardMicrotaskArg(i)) =>
                  /\ args(c, i) \in Seq(Values)
                  /\ Len(args(c, i)) = 1 => args(c, i)[1] \in ParamsOf(g)
<1> DEFINE c == d[2]
           f == Val(c).callee
           i == findArg(c, d[1])
           g == IF isOmpExecutor(f) THEN getMicrotask(c) ELSE f
<1>1. /\ c \in Values /\ IsCall(c) /\ f # "indirect"
      /\ Fun(f).kind = "def" \/ Fun(f).omp = "fork"
  BY DEF Followed
<1>2. /\ f \in Functions
      /\ ~isOmpExecutor(f) => Len(Val(c).ops) <= Len(Fun(f).params)
      /\ isOmpExecutor(f) => /\ Len(Fun(f).params) # 1 /\ getMicrotask(c) \in Functions
                            /\ Len(Val(c).ops) <= Len(Fun(getMicrotask(c)).params) + 1
  <2> HIDE DEF c
  <2> QED
    BY <1>1, ModuleFacts DEF isOmpExecutor
<1>3. i \in 0..Len(Val(c).ops) /\ Len(Val(c).ops) \in Nat
  <2>1. PICK p : p = d[1]
    OBVIOUS
  <2>2. Val(c).ops \in Seq(Values)
    <3> HIDE DEF c
    <3> QED
      BY <1>1, ModuleFacts
  <2>3. i = findArg(c, p)
    BY <2>1
  <2> HIDE DEF c, i
  <2> QED
    BY <1>1, <2>2, <2>3, FindArgType, LenProperties
<1>4. g \in Functions /\ (isOmpExecutor(f) => g \in OutlinedFunctions)
  <2> HIDE DEF c
  <2> QED
    BY <1>1, <1>2 DEF OutlinedFunctions
<1>5. ASSUME ~(isOmpExecutor(f) /\ canDiscardMicrotaskArg(i))
      PROVE  /\ args(c, i) \in Seq(Values)
             /\ Len(args(c, i)) = 1 => args(c, i)[1] \in ParamsOf(g)
  <2>0. \A h \in Functions : /\ Fun(h).params \in Seq(Values) /\ Len(Fun(h).params) \in Nat
                            /\ \A k \in 1..Len(Fun(h).params) :
                                 Fun(h).params[k] \in Values /\ Fun(h).params[k] \in ParamsOf(h)
    BY ModuleFacts, LenProperties, ElementOfSeq DEF ParamsOf, ToSet
  <2> HIDE DEF c, i
  <2>1. CASE i = 0
    <3>1. args(c, i) = Fun(f).params
      BY <2>1 DEF args
    <3> QED
      BY <1>2, <2>0, <3>1
  <2>2. CASE i # 0 /\ isOmpExecutor(f)
    <3>1. args(c, i) = <<Fun(g).params[i - 1]>>
      BY <2>2 DEF args, getArgOffsetToMicrotask
    <3>2. i - 1 \in 1..Len(Fun(g).params)
      BY <1>2, <1>3, <1>4, <1>5, <2>0, <2>2 DEF canDiscardMicrotaskArg
    <3>3. Fun(g).params[i - 1] \in Values /\ Fun(g).params[i - 1] \in ParamsOf(g)
      <4> HIDE DEF g
      <4> QED
        BY <1>4, <2>0, <3>2
    <3> QED
      BY <3>1, <3>3
  <2>3. CASE i # 0 /\ ~isOmpExecutor(f)
    <3>1. args(c, i) = <<Fun(f).params[i]>>
      BY <2>3 DEF args
    <3>2. i \in 1..Len(Fun(f).params)
      BY <1>2, <1>3, <2>0, <2>3
    <3>3. Fun(f).params[i] \in Values /\ Fun(f).params[i] \in ParamsOf(f)
      BY <1>2, <2>0, <3>2
    <3> QED
      BY <2>3, <3>1, <3>3
  <2> QED
    BY <2>1, <2>2, <2>3
<1> QED
  BY <1>4, <1>5

LEMMA StepFollowDef ==
  ASSUME ValidModule(prog), SearchInv, FollowDef
  PROVE  SearchInv'
<1> DEFINE prev == Head(Top.defs)[1]
           c == Head(Top.defs)[2]
           f == Val(c).callee
           i == findArg(c, prev)
           a == [Top EXCEPT !.defs = Tail(Top.defs)]
           g == IF isOmpExecutor(f) THEN getMicrotask(c) ELSE f
           b == [a EXCEPT !.args = args(c, i)]
           n == Len(acts)
<1>1. /\ verdict = "open" /\ Top.phase = "definitions" /\ Top.args = <<>> /\ Top.defs # <<>>
      /\ UNCHANGED <<prog, start, verdict>>
  BY DEF FollowDef, In
<1>2. /\ n \in Nat \ {0} /\ Top \in Activations /\ Top = acts[n] /\ Top.value \in Values
      /\ Top.defs \in Seq(Followed)
      /\ Top \in [value : Values, phase : {"precheck", "search", "definitions"}, path : Seq(Values),
                 left : Seq(SUBSET (Values \X Nat)), phis : SUBSET Values, defs : Seq(Followed), args : Seq(Values)]
  BY <1>1, Innermost DEF Activations
<1>3. Head(Top.defs) \in Followed /\ Tail(Top.defs) \in Seq(Followed)
  BY <1>1, <1>2, HeadTailProperties
<1>4. a \in Activations /\ a.value = Top.value /\ a.args = Top.args
  BY <1>1, <1>2, <1>3 DEF Activations
<1>5. \/ acts' = Replace(a) /\ chain' = chain /\ cuts \subseteq cuts'
      \/ /\ ~contains(f) /\ ~(isOmpExecutor(f) /\ canDiscardMicrotaskArg(i))
         /\ chain' = Append(chain, g) /\ acts' = Replace(b)
         /\ cuts \subseteq cuts' /\ (Len(args(c, i)) # 1 => "uncorrelated" \in cuts')
  BY DEF FollowDef, Pushed
<1>6. CASE acts' = Replace(a) /\ chain' = chain /\ cuts \subseteq cuts'
  <2> HIDE DEF a
  <2> QED
    BY <1>1, <1>4, <1>6, StepInside
<1>7. CASE /\ ~contains(f) /\ ~(isOmpExecutor(f) /\ canDiscardMicrotaskArg(i))
            /\ chain' = Append(chain, g) /\ acts' = Replace(b)
            /\ cuts \subseteq cuts' /\ (Len(args(c, i)) # 1 => "uncorrelated" \in cuts')
  <2>1. g \in Functions /\ (isOmpExecutor(f) => g \in OutlinedFunctions)
    BY <1>3, EnteredWith
  <2>2. /\ args(c, i) \in Seq(Values)
        /\ Len(args(c, i)) = 1 => args(c, i)[1] \in ParamsOf(g)
    BY <1>3, <1>7, EnteredWith
  <2>3. b \in Activations /\ b.args = args(c, i) /\ b.value = Top.value
    <3> HIDE DEF c, i
    <3> QED
      BY <1>1, <1>2, <1>3, <2>2 DEF Activations
  <2>4. /\ acts' \in Seq(Activations) /\ Len(acts') = n /\ acts' # <<>>
        /\ \A k \in 1..(n - 1) : acts'[k] = acts[k]
        /\ acts'[n] = b
    <3> HIDE DEF b
    <3> QED
      BY <1>1, <1>7, <2>3, Replaced
  <2>5. /\ chain' \in Seq(Functions) /\ Len(chain') = Len(chain) + 1 /\ Len(chain) \in Nat
        /\ \A k \in 1..Len(chain) : chain'[k] = chain[k]
        /\ chain'[Len(chain) + 1] = g
        /\ DOMAIN chain = 1..Len(chain) /\ DOMAIN chain' = 1..(Len(chain) + 1)
    <3>1. chain \in Seq(Functions)
      BY DEF SearchInv
    <3> HIDE DEF g
    <3> QED
      BY <1>7, <2>1, <3>1, Appended, LenProperties
  <2>6. g \in OutlinedFunctions \/ (g # start /\ \A k \in 1..Len(chain) : chain[k] # g)
    BY <1>7, <2>1 DEF contains, Contains
  <2>7. NoneAgain(chain, start)'
    <3> HIDE DEF c, g
    <3>1. OutlinedFunctions' = OutlinedFunctions /\ start' = start /\ NoneAgain(chain, start)
      BY <1>1, SameModule DEF SearchInv
    <3>2. ASSUME NEW k \in 1..(Len(chain) + 1), chain'[k] \notin OutlinedFunctions
          PROVE  /\ chain'[k] # start
                 /\ \A j \in 1..(Len(chain) + 1) : chain'[j] = chain'[k] => j = k
      <4>1. CASE k \in 1..Len(chain)
        <5>1. chain[k] \notin OutlinedFunctions /\ chain'[k] = chain[k]
          BY <2>5, <3>2, <4>1
        <5>2. chain[k] # start /\ \A j \in 1..Len(chain) : chain[j] = chain[k] => j = k
          BY <2>5, <3>1, <4>1, <5>1 DEF NoneAgain
        <5>3. chain[k] # g
          BY <2>6, <4>1, <5>1
        <5> QED
          BY <2>5, <5>1, <5>2, <5>3
      <4>2. CASE k = Len(chain) + 1
        <5>1. chain'[k] = g /\ g # start /\ \A j \in 1..Len(chain) : chain[j] # g
          BY <2>5, <2>6, <3>2, <4>2
        <5> QED
          BY <2>5, <4>2, <5>1
      <4> QED
        BY <2>5, <4>1, <4>2
    <3> QED
      BY <2>5, <3>1, <3>2 DEF NoneAgain
  <2>8. ASSUME "uncorrelated" \notin cuts' PROVE Entered(acts, chain)'
    <3>1. Entered(acts, chain)
      BY <1>1, <1>7, <2>8 DEF SearchInv
    <3>2. Len(chain) = n - 1
      BY <1>1, <1>2, <3>1 DEF Entered
    <3>3. Len(b.args) = 1 /\ b.args # <<>> /\ b.args[1] \in ParamsOf(g)
      BY <1>7, <2>2, <2>3, <2>8, EmptySeq
    <3>4. \A h : ParamsOf(h)' = ParamsOf(h)
      BY <1>1, SameModule
    <3>5. \A k \in 1..(n - 1) : acts'[k].args = <<>>
      BY <2>4, <3>1 DEF Entered
    <3>6. \A k \in 2..n : acts'[k].value = acts[k].value
      <4> HIDE DEF b, n
      <4>1. n \in Nat \ {0} /\ acts'[n].value = acts[n].value
        BY <1>2, <2>3, <2>4
      <4>2. \A k \in 1..(n - 1) : acts'[k].value = acts[k].value
        BY <2>4
      <4>3. \A k \in 2..n : k \in 1..(n - 1) \/ k = n
        BY <4>1
      <4> QED
        BY <4>1, <4>2, <4>3, Zenon
    <3>7. \A k \in 2..n : chain'[k - 1] = chain[k - 1]
      BY <1>2, <2>5, <3>2
    <3>8. \A k \in 2..n : acts'[k].value \in ParamsOf(chain'[k - 1])
      BY <1>2, <3>1, <3>6, <3>7 DEF Entered
    <3> HIDE DEF b, g
    <3>9. Len(chain') = n /\ Len(acts') = n /\ acts'[n] = b /\ chain'[n] = g
      BY <1>2, <2>4, <2>5, <3>2
    <3> HIDE DEF n
    <3>10. /\ Len(chain') = Len(acts') /\ acts'[Len(acts')].args # <<>> /\ Len(acts'[Len(acts')].args) <= 1
           /\ acts'[Len(acts')].args[1] \in ParamsOf(chain'[Len(chain')])
      <4>1. Len(chain') = Len(acts') /\ acts'[Len(acts')] = b /\ chain'[Len(chain')] = g
        BY <3>9, Zenon
      <4>2. Len(b.args) <= 1
        BY <3>3
      <4> QED
        BY <3>3, <4>1, <4>2, Zenon
    <3>11. /\ \A k \in 1..(Len(acts') - 1) : acts'[k].args = <<>>
           /\ \A k \in 2..Len(acts') : acts'[k].value \in ParamsOf(chain'[k - 1])
      BY <3>5, <3>8, <3>9
    <3> QED
      BY <3>4, <3>10, <3>11 DEF Entered
  <2> HIDE DEF b, g, c
  <2> QED
    BY <1>1, <2>4, <2>5, <2>7, <2>8, SameModule DEF SearchInv
<1> QED
  BY <1>5, <1>6, <1>7

LEMMA StepEnterDef ==
  ASSUME ValidModule(prog), SearchInv, EnterDef
  PROVE  SearchInv'
<1> DEFINE n == Len(acts)
           v == Head(Top.args)
           rest == Tail(Top.args)
           a == [Top EXCEPT !.args = Tail(Top.args)]
           new == Activation(v)
           as == Replace(a)
<1>1. /\ verdict = "open" /\ Top.phase = "definitions" /\ Top.args # <<>>
      /\ acts' = Append(as, new) /\ UNCHANGED <<prog, start, chain, verdict, cuts>>
  BY DEF EnterDef, In
<1>2. /\ n \in Nat \ {0} /\ Top = acts[n] /\ Top.value \in Values /\ Top.args \in Seq(Values)
      /\ Top \in Activations
      /\ Top \in [value : Values, phase : {"precheck", "search", "definitions"}, path : Seq(Values),
                 left : Seq(SUBSET (Values \X Nat)), phis : SUBSET Values, defs : Seq(Followed), args : Seq(Values)]
  BY <1>1, Innermost DEF Activations
<1>3. v \in Values /\ rest \in Seq(Values) /\ Len(rest) = Len(Top.args) - 1
  BY <1>1, <1>2, HeadTailProperties
<1>4. a \in Activations /\ a.value = Top.value /\ a.args = rest
  <2> HIDE DEF rest
  <2>1. a = [Top EXCEPT !.args = rest]
    BY DEF rest
  <2> HIDE DEF a
  <2> QED
    BY <1>1, <1>2, <1>3, <2>1 DEF Activations
<1>5. new \in Activations /\ new.value = v /\ new.args = <<>>
  <2>1. /\ <<>> \in Seq(Values) /\ <<>> \in Seq(Followed) /\ <<>> \in Seq(SUBSET (Values \X Nat))
    BY EmptySeq
  <2> HIDE DEF v
  <2> QED
    BY <1>3, <2>1 DEF Activation, Activations
<1>6. /\ as \in Seq(Activations) /\ Len(as) = n
      /\ \A k \in 1..(n - 1) : as[k] = acts[k]
      /\ as[n] = a
  <2> HIDE DEF a
  <2> QED
    BY <1>1, <1>4, Replaced
<1>7. /\ acts' \in Seq(Activations) /\ Len(acts') = n + 1 /\ acts' # <<>>
      /\ \A k \in 1..n : acts'[k] = as[k]
      /\ acts'[n + 1] = new
  <2> HIDE DEF as, new, n
  <2>0. as \in Seq(Activations) /\ new \in Activations
    BY <1>5, <1>6
  <2>1. /\ Append(as, new) \in Seq(Activations) /\ Len(Append(as, new)) = Len(as) + 1 /\ Append(as, new) # <<>>
        /\ \A k \in 1..Len(as) : Append(as, new)[k] = as[k]
        /\ Append(as, new)[Len(as) + 1] = new
    BY <2>0, Appended
  <2> QED
    BY <1>1, <1>6, <2>1, Zenon
<1>8. NoneAgain(chain, start)'
  BY <1>1, SameModule DEF SearchInv, NoneAgain
<1>9. ASSUME "uncorrelated" \notin cuts' PROVE Entered(acts, chain)'
  <2>1. Entered(acts, chain)
    BY <1>1, <1>9 DEF SearchInv
  <2>2. Len(chain) = n /\ Top.args[1] \in ParamsOf(chain[n]) /\ Len(Top.args) = 1
    <3>1. Len(Top.args) # 0 /\ Len(Top.args) \in Nat
      BY <1>1, <1>2, EmptySeq
    <3>2. Len(chain) = n /\ Top.args[1] \in ParamsOf(chain[Len(chain)]) /\ Len(Top.args) <= 1
      BY <1>1, <1>2, <2>1 DEF Entered
    <3>3. Len(Top.args) = 1
      <4>1. PICK m \in Nat : m = Len(Top.args)
        BY <3>1, Zenon
      <4>2. m # 0 /\ m <= 1
        BY <3>1, <3>2, <4>1, Zenon
      <4>3. m = 1
        BY <4>2
      <4> QED
        BY <4>1, <4>3, Zenon
    <3> QED
      BY <3>2, <3>3, Zenon
  <2>3. rest = <<>> /\ v = Top.args[1]
    <3>1. Len(rest) = 0
      <4> HIDE DEF rest
      <4> QED
        BY <1>3, <2>2
    <3>2. rest = <<>>
      <4> HIDE DEF rest
      <4> QED
        BY <1>3, <3>1, EmptySeq
    <3>3. v = Top.args[1]
      BY <1>2
    <3> QED
      BY <3>2, <3>3
  <2> HIDE DEF as, new, a, v, rest
  <2>0. /\ n \in 1..n /\ n \in Nat \ {0}
        /\ \A k \in 1..n : k \in 1..(n - 1) \/ k = n
        /\ \A k \in 2..n : k \in 1..(n - 1) \/ k = n
        /\ \A k \in 1..(n - 1) : k \in 1..n
    BY <1>2
  <2>4. \A k \in 1..n : acts'[k].args = <<>>
    <3>1. acts'[n].args = <<>>
      BY <1>4, <1>6, <1>7, <2>0, <2>3, Zenon
    <3>2. \A k \in 1..(n - 1) : acts[k].args = <<>>
      BY <2>1 DEF Entered
    <3>3. \A k \in 1..(n - 1) : acts'[k].args = <<>>
      BY <1>6, <1>7, <2>0, <3>2, Zenon
    <3> QED
      BY <2>0, <3>1, <3>3, Zenon
  <2>5. \A k \in 2..n : acts'[k].value = acts[k].value
    <3>1. acts'[n].value = acts[n].value
      BY <1>2, <1>4, <1>6, <1>7, <2>0, Zenon
    <3>2. \A k \in 1..(n - 1) : acts'[k].value = acts[k].value
      BY <1>6, <1>7, <2>0, Zenon
    <3> QED
      BY <2>0, <3>1, <3>2, Zenon
  <2>6. \A k \in 2..n : acts'[k].value \in ParamsOf(chain[k - 1])
    BY <2>1, <2>5 DEF Entered
  <2>7. acts'[n + 1].value \in ParamsOf(chain[n])
    BY <1>5, <1>7, <2>2, <2>3
  <2>8. chain' = chain /\ \A h : ParamsOf(h)' = ParamsOf(h)
    BY <1>1, SameModule
  <2>9. \A k \in 2..(n + 1) : acts'[k].value \in ParamsOf(chain'[k - 1])
    <3>1. \A k \in 2..(n + 1) : k \in 2..n \/ (k = n + 1 /\ k - 1 = n)
      BY <1>2
    <3> QED
      BY <2>6, <2>7, <2>8, <3>1, Zenon
  <2>10. acts'[Len(acts')].args = <<>> /\ Len(chain') = Len(acts') - 1 /\ Len(acts'[Len(acts')].args) <= 1
    BY <1>2, <1>5, <1>7, <2>2, <2>8, EmptySeq
  <2>11. /\ \A k \in 1..(Len(acts') - 1) : acts'[k].args = <<>>
         /\ \A k \in 2..Len(acts') : acts'[k].value \in ParamsOf(chain'[k - 1])
    BY <1>2, <1>7, <2>4, <2>9
  <2> QED
    BY <2>8, <2>10, <2>11 DEF Entered
<1> HIDE DEF as, new, a, v, rest
<1> QED
  BY <1>1, <1>7, <1>8, <1>9, SameModule DEF SearchInv

\* The innermost activation becomes a when it takes a use of the last value on its
\* path.
TakenAs(use, a) ==
  LET n == Len(Top.path) IN
  /\ a.value = Top.value /\ a.phase = Top.phase /\ a.path = Top.path /\ a.phis = Top.phis
  /\ a.defs = Top.defs /\ a.args = <<>> /\ Top.args = <<>>
  /\ n \in Nat \ {0} /\ Len(Top.left) = n
  /\ use \in Top.left[n] /\ a.left[n] = Top.left[n] \ {use}
  /\ \A j \in 1..n : j # n => a.left[j] = Top.left[j]

LEMMA Taken ==
  ASSUME ValidModule(prog), SearchInv, Successor
  PROVE  \E use \in Values \X Nat : \E a \in Activations :
           /\ TakenAs(use, a)
           /\ \/ Keep
              \/ /\ Contains(a.path, use[1]) /\ acts' = Replace(a)
                 /\ cuts' = cuts \cup {why \in {"own result"} : IsCall(use[1]) /\ Matters(use[1])}
                 /\ UNCHANGED <<start, chain, verdict>>
              \/ Visit(a, use[1])
<1> DEFINE left == Top.left
           m == Len(left)
<1>1. /\ verdict = "open" /\ Top.phase = "search" /\ Top.path # <<>> /\ prog' = prog
  BY DEF Successor, In
<1>2. PICK use \in Last(left) :
        LET v == use[1]
            a == [Top EXCEPT !.left[Len(Top.left)] = @ \ {use}]
        IN  IF isTaskRelatedStore(v) THEN Keep
            ELSE IF Contains(a.path, v)
            THEN /\ acts' = Replace(a)
                 /\ cuts' = cuts \cup {why \in {"own result"} : IsCall(v) /\ Matters(v)}
                 /\ UNCHANGED <<start, chain, verdict>>
            ELSE Visit(a, v)
  BY DEF Successor
<1> DEFINE a == [Top EXCEPT !.left[Len(Top.left)] = @ \ {use}]
           rest == [left EXCEPT ![m] = @ \ {use}]
<1>3. /\ Top \in Activations /\ Top.args = <<>> /\ left \in Seq(SUBSET (Values \X Nat)) /\ m = Len(Top.path)
      /\ Top \in [value : Values, phase : {"precheck", "search", "definitions"}, path : Seq(Values),
                 left : Seq(SUBSET (Values \X Nat)), phis : SUBSET Values, defs : Seq(Followed), args : Seq(Values)]
      /\ Top.path \in Seq(Values)
  BY <1>1, Innermost DEF Activations
<1>4. m \in Nat \ {0}
  BY <1>1, <1>3, EmptySeq
<1>5. left[m] \in SUBSET (Values \X Nat) /\ Last(left) = left[m]
  <2>1. PICK U : U = SUBSET (Values \X Nat)
    OBVIOUS
  <2>2. left \in Seq(U)
    BY <1>3, <2>1
  <2> HIDE DEF left
  <2>3. left[m] \in U
    BY <1>4, <2>2, ElementOfSeq
  <2> QED
    BY <2>1, <2>3 DEF Last
<1>6. use \in Values \X Nat /\ use \in left[m]
  BY <1>5
<1>7. /\ rest \in Seq(SUBSET (Values \X Nat)) /\ Len(rest) = m
      /\ rest[m] = left[m] \ {use} /\ \A j \in 1..m : j # m => rest[j] = left[j]
  <2>1. PICK U : U = SUBSET (Values \X Nat)
    OBVIOUS
  <2>2. PICK e \in U : e = left[m] \ {use}
    BY <1>5, <2>1
  <2>3. left \in Seq(U) /\ rest = [left EXCEPT ![m] = e]
    BY <1>3, <2>1, <2>2
  <2> HIDE DEF left, rest
  <2>4. /\ rest \in Seq(U) /\ Len(rest) = m
        /\ rest[m] = e /\ \A j \in 1..m : j # m => rest[j] = left[j]
    BY <1>4, <2>2, <2>3, ExceptSeq
  <2> QED
    BY <2>1, <2>2, <2>4
<1>8. a \in Activations /\ TakenAs(use, a)
  <2>1. a = [Top EXCEPT !.left = rest]
    OBVIOUS
  <2> HIDE DEF rest, a, left
  <2>2. m = Len(Top.path) /\ m = Len(Top.left)
    BY <1>3 DEF left
  <2> HIDE DEF m
  <2>3. /\ a.value = Top.value /\ a.phase = Top.phase /\ a.path = Top.path /\ a.phis = Top.phis
        /\ a.defs = Top.defs /\ a.args = Top.args /\ a.left = rest
    BY <1>3, <2>1
  <2>4. TakenAs(use, a)
    BY <1>3, <1>4, <1>6, <1>7, <2>2, <2>3 DEF TakenAs, left
  <2> QED
    BY <1>3, <1>7, <2>1, <2>2, <2>4 DEF Activations
<1> HIDE DEF a, left, m
<1>9. use \in Last(Top.left)
  BY DEF left
<1> QED
  BY <1>2, <1>6, <1>8, Zenon DEF a, left, m

LEMMA StepSuccessor ==
  ASSUME ValidModule(prog), SearchInv, Successor
  PROVE  SearchInv'
<1>1. verdict = "open" /\ prog' = prog
  BY DEF Successor, In
<1>2. PICK use \in Values \X Nat, a \in Activations :
        /\ TakenAs(use, a)
        /\ \/ Keep
           \/ /\ acts' = Replace(a) /\ cuts \subseteq cuts' /\ UNCHANGED <<start, chain, verdict>>
           \/ Visit(a, use[1])
  <2>1. PICK use \in Values \X Nat : \E a \in Activations :
        /\ TakenAs(use, a)
        /\ \/ Keep
           \/ /\ acts' = Replace(a) /\ cuts \subseteq cuts' /\ UNCHANGED <<start, chain, verdict>>
           \/ Visit(a, use[1])
    BY Taken
  <2> QED
    BY <2>1
<1>3. use[1] \in Values /\ a.value = Top.value /\ a.args = <<>> /\ Top.args = <<>>
  BY <1>2 DEF TakenAs
<1>4. CASE Keep
  BY <1>1, <1>4, StepKeep
<1>5. CASE acts' = Replace(a) /\ cuts \subseteq cuts' /\ UNCHANGED <<start, chain, verdict>>
  BY <1>1, <1>3, <1>5, StepInside
<1>6. CASE Visit(a, use[1])
  BY <1>1, <1>3, <1>6, StepVisit
<1> QED
  BY <1>2, <1>4, <1>5, <1>6

LEMMA StepPopValue ==
  ASSUME SearchInv, PopValue
  PROVE  SearchInv'
<1> DEFINE path == Front(Top.path)
           left == Front(Top.left)
           ph == IF Len(Top.path) = 1 THEN "definitions" ELSE "search"
           a == [Top EXCEPT !.path = Front(Top.path), !.left = Front(Top.left),
                            !.phase = IF Len(Top.path) = 1 THEN "definitions" ELSE "search"]
<1>1. /\ verdict = "open" /\ Top.phase = "search" /\ Top.path # <<>> /\ acts' = Replace(a)
      /\ UNCHANGED <<prog, start, chain, verdict, cuts>>
  BY DEF PopValue, In
<1>2. /\ Top \in Activations /\ Top.args = <<>> /\ Top.left \in Seq(SUBSET (Values \X Nat))
      /\ Len(Top.left) = Len(Top.path) /\ Top.path \in Seq(Values)
      /\ Top \in [value : Values, phase : {"precheck", "search", "definitions"}, path : Seq(Values),
                 left : Seq(SUBSET (Values \X Nat)), phis : SUBSET Values, defs : Seq(Followed), args : Seq(Values)]
  BY <1>1, Innermost DEF Activations
<1>3. path \in Seq(Values) /\ Len(path) = Len(Top.path) - 1 /\ Len(Top.path) \in Nat \ {0}
  BY <1>1, <1>2, FrontAndLast
<1>4. left \in Seq(SUBSET (Values \X Nat)) /\ Len(left) = Len(Top.left) - 1
  <2>1. PICK U : U = SUBSET (Values \X Nat)
    OBVIOUS
  <2>2. Top.left \in Seq(U) /\ Top.left # <<>>
    BY <1>2, <1>3, <2>1, EmptySeq
  <2>3. left \in Seq(U) /\ Len(left) = Len(Top.left) - 1
    BY <2>2, FrontAndLast
  <2> QED
    BY <2>1, <2>3
<1>5. a = [Top EXCEPT !.path = path, !.left = left, !.phase = ph] /\ ph \in {"search", "definitions"}
  OBVIOUS
<1> HIDE DEF a, path, left, ph
<1>6. a \in Activations /\ a.value = Top.value /\ a.args = Top.args
  BY <1>2, <1>3, <1>4, <1>5 DEF Activations
<1> QED
  BY <1>1, <1>6, StepInside

LEMMA StepPrecheck ==
  ASSUME ValidModule(prog), SearchInv, Precheck
  PROVE  SearchInv'
<1>1. verdict = "open" /\ Top.phase = "precheck" /\ prog' = prog
  BY DEF Precheck, In
<1>2. Top \in Activations /\ Top.args = <<>> /\ Top.value \in Values
  BY <1>1, Innermost
<1>3. \/ ReturnFilter /\ cuts \subseteq cuts' /\ start' = start
      \/ Keep
      \/ Visit(Top, Top.value)
  BY DEF Precheck
<1>4. CASE ReturnFilter /\ cuts \subseteq cuts' /\ start' = start
  BY <1>1, <1>2, <1>4, StepReturn
<1>5. CASE Keep
  BY <1>1, <1>5, StepKeep
<1>6. CASE Visit(Top, Top.value)
  BY <1>1, <1>2, <1>6, StepVisit
<1> QED
  BY <1>3, <1>4, <1>5, <1>6

LEMMA StepOfFilter ==
  ASSUME ValidModule(prog), SearchInv, FilterStep
  PROVE  SearchInv'
<1>1. CASE Precheck
  BY <1>1, StepPrecheck
<1>2. CASE Successor
  BY <1>2, StepSuccessor
<1>3. CASE PopValue
  BY <1>3, StepPopValue
<1>4. CASE FollowDef
  BY <1>4, StepFollowDef
<1>5. CASE EnterDef
  BY <1>5, StepEnterDef
<1>6. CASE Return
  <2>1. /\ verdict = "open" /\ Top.args = <<>> /\ ReturnFilter /\ UNCHANGED <<prog, start>>
        /\ cuts \subseteq cuts'
    BY <1>6 DEF Return, In
  <2> QED
    BY <2>1, StepReturn
<1> QED
  BY <1>1, <1>2, <1>3, <1>4, <1>5, <1>6 DEF FilterStep

\* A search starts.
LEMMA StepStart ==
  ASSUME NEW v \in Values, NEW f, StartFilter(v, f), prog' = prog
  PROVE  SearchInv'
<1> DEFINE new == Activation(v)
<1>1. new \in Activations /\ new.value = v /\ new.args = <<>>
  <2>1. /\ <<>> \in Seq(Values) /\ <<>> \in Seq(Followed) /\ <<>> \in Seq(SUBSET (Values \X Nat))
    BY EmptySeq
  <2> QED
    BY <2>1 DEF Activation, Activations
<1> HIDE DEF new
<1>2. acts' = <<new>> /\ chain' = <<>> /\ cuts' = {}
  BY DEF StartFilter, new
<1>3. /\ acts' \in Seq(Activations) /\ Len(acts') = 1 /\ acts'[1] = new /\ acts' # <<>>
      /\ chain' \in Seq(Functions) /\ Len(chain') = 0 /\ DOMAIN chain' = {}
  BY <1>1, <1>2, EmptySeq
<1>4. NoneAgain(chain, start)'
  BY <1>3 DEF NoneAgain
<1>5. Entered(acts, chain)'
  <2>1. Len(acts'[1].args) = 0 /\ acts'[1].args = <<>>
    BY <1>1, <1>3, EmptySeq
  <2> QED
    BY <1>3, <2>1 DEF Entered
<1> QED
  BY <1>3, <1>4, <1>5, SameModule DEF SearchInv

\* No search is under way.
LEMMA StepIdle ==
  ASSUME verdict' # "open", chain' = <<>>, acts' = <<>>
  PROVE  SearchInv'
<1>1. /\ <<>> \in Seq(Functions') /\ <<>> \in Seq(Activations') /\ DOMAIN chain' = {}
  BY EmptySeq
<1>2. NoneAgain(chain, start)'
  BY <1>1 DEF NoneAgain
<1> QED
  BY <1>1, <1>2 DEF SearchInv

\* The invariant of the search implies the property the runs check.
LEMMA SearchInvSuffices ==
  ASSUME SearchInv
  PROVE  ChainMatchesCalls
<1> SUFFICES ASSUME verdict = "open" PROVE ChainMatchesCalls
  BY DEF ChainMatchesCalls
<1> DEFINE n == Len(acts)
<1>1. NoneAgain(chain, start) /\ chain \in Seq(Functions)
  BY DEF SearchInv
<1>2. n \in Nat \ {0} /\ Top = acts[n] /\ Len(chain) \in Nat
  BY <1>1, Innermost, LenProperties
<1>3. ASSUME "uncorrelated" \notin cuts
      PROVE  IF Top.args # <<>> THEN Len(chain) = n
             ELSE /\ Len(chain) = n - 1
                  /\ chain # <<>> => Top.value \in ToSet(Fun(CurrentFunc).params)
  <2>1. Entered(acts, chain)
    BY <1>3 DEF SearchInv
  <2>2. CASE Top.args # <<>>
    BY <1>2, <2>1, <2>2 DEF Entered
  <2>3. CASE Top.args = <<>>
    <3>1. Len(chain) = n - 1
      BY <1>2, <2>1, <2>3 DEF Entered
    <3>2. ASSUME chain # <<>> PROVE Top.value \in ToSet(Fun(CurrentFunc).params)
      <4>1. n \in 2..n
        BY <1>1, <1>2, <3>1, <3>2, EmptySeq
      <4>2. acts[n].value \in ParamsOf(chain[n - 1])
        BY <2>1, <4>1 DEF Entered
      <4>3. CurrentFunc = chain[n - 1]
        BY <3>1, <3>2, Zenon DEF CurrentFunc, Last
      <4> QED
        BY <1>2, <4>2, <4>3, Zenon DEF ParamsOf
    <3> QED
      BY <2>3, <3>1, <3>2
  <2> QED
    BY <2>2, <2>3
<1> QED
  BY <1>1, <1>3, Zenon DEF ChainMatchesCalls, NoneAgain

-----------------------------------------------------------------------------
(* Lists without repetition.                                               *)

NoRepeats(s) == \A i, j \in DOMAIN s : s[i] = s[j] => i = j

\* What was kept and what is left to look at, without repetition.
Apart(kept, left, S) ==
  /\ kept \in Seq(S) /\ left \in Seq(S) /\ NoRepeats(kept) /\ NoRepeats(left)
  /\ \A i \in DOMAIN kept, j \in DOMAIN left : kept[i] # left[j]

LEMMA HeadAndTail ==
  ASSUME NEW S, NEW s \in Seq(S), s # <<>>
  PROVE  /\ Head(s) \in S /\ Head(s) = s[1] /\ 1 \in DOMAIN s /\ Tail(s) \in Seq(S)
         /\ \A i \in DOMAIN Tail(s) : i + 1 \in DOMAIN s /\ i + 1 # 1 /\ i \in Nat /\ Tail(s)[i] = s[i + 1]
         /\ \A i \in DOMAIN s : i = 1 \/ (i - 1 \in DOMAIN Tail(s) /\ s[i] = Tail(s)[i - 1])
<1>1. /\ Head(s) \in S /\ Tail(s) \in Seq(S) /\ Len(Tail(s)) = Len(s) - 1
      /\ \A i \in 1..Len(Tail(s)) : Tail(s)[i] = s[i + 1]
  BY HeadTailProperties
<1>2. /\ Len(s) \in Nat \ {0} /\ DOMAIN s = 1..Len(s) /\ DOMAIN Tail(s) = 1..Len(Tail(s))
  BY <1>1, EmptySeq, LenProperties
<1>3. Head(s) = s[1]
  OBVIOUS
<1>4. \A i \in 1..(Len(s) - 1) : i + 1 \in 1..Len(s) /\ i + 1 # 1 /\ i \in Nat
  BY <1>2
<1>5. \A i \in 1..Len(s) : i = 1 \/ (i - 1 \in 1..(Len(s) - 1) /\ i - 1 + 1 = i)
  BY <1>2
<1>6. 1 \in 1..Len(s)
  BY <1>2
<1> QED
  BY <1>1, <1>2, <1>3, <1>4, <1>5, <1>6

LEMMA TailRepeatsNot ==
  ASSUME NEW S, NEW s \in Seq(S), s # <<>>, NoRepeats(s)
  PROVE  /\ NoRepeats(Tail(s)) /\ Tail(s) \in Seq(S)
         /\ \A i \in DOMAIN Tail(s) : Tail(s)[i] # Head(s)
         /\ ToSet(s) = {Head(s)} \cup ToSet(Tail(s)) /\ Head(s) \notin ToSet(Tail(s))
<1> DEFINE t == Tail(s)
<1>1. /\ Head(s) \in S /\ Head(s) = s[1] /\ 1 \in DOMAIN s /\ t \in Seq(S)
      /\ \A i \in DOMAIN t : i + 1 \in DOMAIN s /\ i + 1 # 1 /\ i \in Nat /\ t[i] = s[i + 1]
      /\ \A i \in DOMAIN s : i = 1 \/ (i - 1 \in DOMAIN t /\ s[i] = t[i - 1])
  BY HeadAndTail
<1> HIDE DEF t
<1>2. ASSUME NEW i \in DOMAIN t, NEW j \in DOMAIN t, t[i] = t[j] PROVE i = j
  <2>1. i + 1 = j + 1 /\ i \in Nat /\ j \in Nat
    BY <1>1, <1>2 DEF NoRepeats
  <2> QED
    BY <2>1
<1>3. ASSUME NEW i \in DOMAIN t PROVE t[i] # Head(s)
  BY <1>1 DEF NoRepeats
<1>4. ToSet(s) = {Head(s)} \cup ToSet(t)
  BY <1>1 DEF ToSet
<1>5. Head(s) \notin ToSet(t)
  BY <1>3 DEF ToSet
<1> QED
  BY <1>1, <1>2, <1>3, <1>4, <1>5 DEF t, NoRepeats

LEMMA ApartNext ==
  ASSUME NEW S, NEW kept, NEW left, Apart(kept, left, S), left # <<>>
  PROVE  Apart(kept, Tail(left), S) /\ Apart(Append(kept, Head(left)), Tail(left), S)
<1> DEFINE t == Tail(left)
           h == Head(left)
           more == Append(kept, h)
<1>1. /\ t \in Seq(S) /\ h \in S /\ NoRepeats(t) /\ h = left[1] /\ 1 \in DOMAIN left
      /\ \A i \in DOMAIN t : t[i] # h
      /\ \A i \in DOMAIN t : i + 1 \in DOMAIN left /\ t[i] = left[i + 1]
  BY HeadAndTail, TailRepeatsNot DEF Apart
<1>2. kept \in Seq(S) /\ NoRepeats(kept) /\ \A i \in DOMAIN kept, j \in DOMAIN left : kept[i] # left[j]
  BY DEF Apart
<1> HIDE DEF t, h
<1>3. \A i \in DOMAIN kept, j \in DOMAIN t : kept[i] # t[j]
  BY <1>1, <1>2
<1>4. /\ more \in Seq(S) /\ Len(more) = Len(kept) + 1 /\ Len(kept) \in Nat
      /\ DOMAIN more = 1..(Len(kept) + 1) /\ DOMAIN kept = 1..Len(kept)
      /\ \A i \in 1..Len(kept) : more[i] = kept[i]
      /\ more[Len(kept) + 1] = h
  <2>1. /\ more \in Seq(S) /\ Len(more) = Len(kept) + 1 /\ Len(kept) \in Nat
        /\ \A i \in 1..Len(kept) : more[i] = kept[i]
        /\ more[Len(kept) + 1] = h
    BY <1>1, <1>2, Appended
  <2> QED
    BY <1>2, <2>1, LenProperties
<1> HIDE DEF more
<1>5. \A i \in DOMAIN more : (i \in DOMAIN kept /\ more[i] = kept[i]) \/ (i = Len(kept) + 1 /\ more[i] = h)
  BY <1>4
<1>6. \A i \in DOMAIN kept : kept[i] # h
  BY <1>1, <1>2
<1>7. NoRepeats(more)
  BY <1>2, <1>5, <1>6, Zenon DEF NoRepeats
<1>8. \A i \in DOMAIN more, j \in DOMAIN t : more[i] # t[j]
  BY <1>1, <1>3, <1>5, Zenon
<1> QED
  BY <1>1, <1>2, <1>3, <1>4, <1>7, <1>8 DEF Apart, t, more, h

LEMMA ApartStart ==
  ASSUME NEW S, NEW T, T \subseteq S, NEW list, Listing(list, T)
  PROVE  Apart(<<>>, list, S)
<1>1. list \in Seq(T) /\ NoRepeats(list)
  BY DEF Listing, NoRepeats
<1>2. list \in Seq(S)
  BY <1>1, SeqMonotonic
<1>3. <<>> \in Seq(S) /\ DOMAIN <<>> = {}
  BY EmptySeq
<1> QED
  BY <1>1, <1>2, <1>3 DEF Apart, NoRepeats
-----------------------------------------------------------------------------
(* The callbacks of an operation, and what makes two callbacks different.  *)

MallocsOf(f) == {MallocData(c) : c \in {x \in Mallocs(f) : ~CookieError(x)}}
FreesOf(f)   == {v \in InFunction(f) : MemOp(v) = "free"}
AllocasOf(f) == OfKind(InFunction(f), "alloca")
Globals      == OfKind(Values, "global")

HeapOf(f)      == UNION {ToSet(HeapCallbacks(f, m)) : m \in MallocsOf(f)}
FreeOf(f)      == UNION {ToSet(FreeCallbacks(f, c)) : c \in FreesOf(f)}
StackOf(f)     == UNION {ToSet(StackCallbacks(f, a)) : a \in AllocasOf(f)}
CallbacksOf(f) == HeapOf(f) \cup FreeOf(f) \cup StackOf(f)
GlobalOf       == UNION {ToSet(GlobalCallbacks(g)) : g \in Globals}

Same(c, d) == c.op = d.op /\ c.name = d.name

\* No operation is instrumented twice in the same way.
Once(s) == \A i, j \in DOMAIN s : Same(s[i], s[j]) => i = j

Different(S, T) == \A c \in S, d \in T : ~Same(c, d)

-----------------------------------------------------------------------------
(* The inductive invariant of the pass.                                    *)

Blocks    == {MallocData(c) : c \in Values}
Collected == [globals : Seq(Values), allocas : Seq(Values), mallocs : Seq(Blocks), frees : Seq(Values)]

\* Lists of heap operations of a function.
HeapLists(f, c) ==
  /\ c.mallocs \in Seq(MallocsOf(f)) /\ NoRepeats(c.mallocs)
  /\ c.frees \in Seq(FreesOf(f)) /\ NoRepeats(c.frees)

ListsOf(f, c) == HeapLists(f, c) /\ c.allocas \in Seq(AllocasOf(f)) /\ NoRepeats(c.allocas)

\* What the call filter has kept and what it has yet to see is told apart, and a
\* search runs for the head of the queue.
QueueInv ==
  /\ queue \in Seq(Values) /\ (verdict # "idle" => Filtering /\ queue # <<>>)
  /\ phase = "filterGlobals" => Apart(collector.globals, queue, Globals)
  /\ phase \in {"find", "filterAllocas"} => Apart(collector.globals, <<>>, Globals)
  /\ phase = "filterAllocas" => Apart(collector.allocas, queue, AllocasOf(Head(todo)))

\* The lists are those of the function at hand, and empty between two functions.
ListsInv ==
  /\ collector \in Collected
  /\ phase = "globals" => collector = Nothing
  /\ phase \in {"globals", "filterGlobals", "find"} =>
       collector.allocas = <<>> /\ collector.mallocs = <<>> /\ collector.frees = <<>>
  /\ phase = "filterAllocas" => todo # <<>> /\ HeapLists(Head(todo), collector)

\* Every definition is still to come or has its operations stored.
TodoInv ==
  /\ todo \in Seq(Definitions) /\ NoRepeats(todo)
  /\ \A f \in DOMAIN functionMap : ListsOf(f, functionMap[f])
  /\ phase \in {"find", "filterAllocas"} => Definitions \subseteq DOMAIN functionMap \cup ToSet(todo)
  /\ phase = "instrument" => Definitions \subseteq DOMAIN functionMap

\* A callback is one of a global, or of a definition that is done.
CallbacksInv ==
  /\ phase \in {"globals", "filterGlobals", "find", "filterAllocas"} => callbacks = <<>>
  /\ callbacks \in Seq(GlobalOf \cup UNION {CallbacksOf(f) : f \in Definitions \ ToSet(todo)})
  /\ Once(callbacks)

PassInv ==
  /\ ValidModule(prog) /\ ValidOperations(prog)
  /\ phase \in {"globals", "filterGlobals", "find", "filterAllocas", "instrument", "done", "exit"}
  /\ QueueInv /\ ListsInv /\ TodoInv /\ CallbacksInv

-----------------------------------------------------------------------------
(* The module and the options stay what they are.                          *)

LEMMA SameOperations ==
  ASSUME prog' = prog
  PROVE  /\ Values' = Values /\ Definitions' = Definitions /\ Globals' = Globals /\ Blocks' = Blocks
         /\ \A f : MallocsOf(f)' = MallocsOf(f) /\ FreesOf(f)' = FreesOf(f) /\ AllocasOf(f)' = AllocasOf(f)
<1>1. Values' = Values
  BY DEF Values
<1>2. Definitions' = Definitions
  BY DEF Definitions, Functions, Fun
<1>3. Globals' = Globals /\ \A f : AllocasOf(f)' = AllocasOf(f)
  BY DEF Globals, AllocasOf, OfKind, Values, InFunction, Val
<1>4. \A f : FreesOf(f)' = FreesOf(f)
  BY DEF FreesOf, Values, MemOp, InFunction, Fun, Val, IsCall
<1>5. \A f : MallocsOf(f)' = MallocsOf(f)
  BY DEF MallocsOf, Mallocs, Values, MemOp, InFunction, Fun, MallocData, MallocGeps, MallocBcasts, CastsBy,
         CastsOf, LoadsOf, FirstCast, CookieError, Cookies, OfKind, Users, Uses, Val, Pointer, FirstOf,
         SingleUser, isi64Ptr, IsCall
<1>6. Blocks' = Blocks
  BY DEF Blocks, Values, MallocData, MallocGeps, MallocBcasts, CastsBy, CastsOf, LoadsOf, FirstCast, Cookies,
         OfKind, Users, Uses, Val, Pointer, FirstOf, SingleUser, isi64Ptr, IsCall
<1> QED
  BY <1>1, <1>2, <1>3, <1>4, <1>5, <1>6

LEMMA SameCallbacks ==
  ASSUME prog' = prog, conf' = conf
  PROVE  GlobalOf' = GlobalOf /\ \A f : CallbacksOf(f)' = CallbacksOf(f)
<1>1. \A f, m : HeapCallbacks(f, m)' = HeapCallbacks(f, m)
  BY DEF HeapCallbacks, Callback, ElementCount, BlockType, MemOp, Val, Fun, IsCall, Num, Stored
<1>2. \A f : HeapOf(f)' = HeapOf(f)
  BY <1>1, SameOperations DEF HeapOf
<1>3. \A f : FreeOf(f)' = FreeOf(f)
  BY SameOperations DEF FreeOf, FreeCallbacks, FreedPointer, Callback, Val, Fun
<1>4. \A f, a : StackCallbacks(f, a)' = StackCallbacks(f, a)
  BY DEF StackCallbacks, Callback, Val, Fun, Lifetimes, InOrder, Calls, IsCall, Values
<1>5. \A f : StackOf(f)' = StackOf(f)
  BY <1>4, SameOperations DEF StackOf
<1>6. GlobalOf' = GlobalOf
  BY SameOperations DEF GlobalOf, GlobalCallbacks, Val
<1> QED
  BY <1>2, <1>3, <1>5, <1>6, Zenon DEF CallbacksOf

-----------------------------------------------------------------------------
(* Callbacks put together.                                                 *)

LEMMA ConcatOnce ==
  ASSUME NEW S, NEW T, Different(S, T), NEW s \in Seq(S), NEW t \in Seq(T), Once(s), Once(t)
  PROVE  s \o t \in Seq(S \cup T) /\ Once(s \o t)
<1> DEFINE U == S \cup T
           st == s \o t
<1>1. s \in Seq(U) /\ t \in Seq(U)
  BY SeqMonotonic
<1> HIDE DEF U
<1>2. /\ st \in Seq(U) /\ Len(st) = Len(s) + Len(t)
      /\ \A i \in 1..(Len(s) + Len(t)) : st[i] = IF i <= Len(s) THEN s[i] ELSE t[i - Len(s)]
  BY <1>1, ConcatProperties
<1>3. /\ Len(s) \in Nat /\ Len(t) \in Nat /\ DOMAIN s = 1..Len(s) /\ DOMAIN t = 1..Len(t)
      /\ DOMAIN st = 1..Len(st)
  BY <1>2, LenProperties
<1>4. /\ \A i \in DOMAIN s : s[i] \in S
      /\ \A i \in DOMAIN t : t[i] \in T
  BY <1>3, ElementOfSeq
<1> HIDE DEF st
<1>5. ASSUME NEW i \in DOMAIN st
      PROVE  \/ i \in DOMAIN s /\ st[i] = s[i]
             \/ i \in Int /\ i - Len(s) \in DOMAIN t /\ st[i] = t[i - Len(s)]
  BY <1>2, <1>3
<1>6. ASSUME NEW i \in DOMAIN st, NEW j \in DOMAIN st, Same(st[i], st[j]) PROVE i = j
  <2>1. CASE i \in DOMAIN s /\ st[i] = s[i] /\ j \in DOMAIN s /\ st[j] = s[j]
    BY <1>6, <2>1, Zenon DEF Once
  <2>2. CASE /\ i \in Int /\ i - Len(s) \in DOMAIN t /\ st[i] = t[i - Len(s)]
             /\ j \in Int /\ j - Len(s) \in DOMAIN t /\ st[j] = t[j - Len(s)]
    <3>1. i - Len(s) = j - Len(s)
      BY <1>6, <2>2, Zenon DEF Once
    <3> QED
      BY <1>3, <2>2, <3>1
  <2>3. CASE i \in DOMAIN s /\ st[i] = s[i] /\ j - Len(s) \in DOMAIN t /\ st[j] = t[j - Len(s)]
    BY <1>4, <1>6, <2>3, Zenon DEF Different
  <2>4. CASE j \in DOMAIN s /\ st[j] = s[j] /\ i - Len(s) \in DOMAIN t /\ st[i] = t[i - Len(s)]
    BY <1>4, <1>6, <2>4, Zenon DEF Different, Same
  <2> QED
    BY <1>5, <2>1, <2>2, <2>3, <2>4, Zenon
<1> QED
  BY <1>2, <1>6 DEF Once, U, st

\* The sequences up to the n-th, put together.
IsFlat(ss, n, flat) == flat = [i \in 1..n |-> IF i = 1 THEN ss[i] ELSE flat[i - 1] \o ss[i]]

LEMMA FlatExists ==
  ASSUME NEW ss, NEW n \in Nat
  PROVE  \E flat : IsFlat(ss, n, flat)
<1> DEFINE Bad == {m \in Nat : ~\E flat : IsFlat(ss, m, flat)}
<1>1. ASSUME Bad # {} PROVE FALSE
  <2>1. PICK m \in Bad : \A k \in Bad : m <= k
    <3>1. Bad \subseteq Nat
      OBVIOUS
    <3> HIDE DEF Bad
    <3> QED
      BY <1>1, <3>1, LeastNatural
  <2>2. CASE m = 0
    <3>1. IsFlat(ss, 0, [i \in 1..0 |-> {}])
      BY DEF IsFlat
    <3> QED
      BY <2>1, <2>2, <3>1
  <2>3. CASE m # 0
    <3>1. m \in Nat \ {0} /\ m - 1 \in Nat /\ ~(m <= m - 1)
      BY <2>3
    <3>2. PICK flat : IsFlat(ss, m - 1, flat)
      BY <2>1, <3>1
    <3> DEFINE step(g, i) == IF i = 1 THEN ss[i] ELSE g[i - 1] \o ss[i]
               more == [i \in 1..m |-> step(flat, i)]
    <3>3. ASSUME NEW i \in 1..m, i # 1 PROVE more[i - 1] = flat[i - 1]
      <4>1. i - 1 \in 1..m /\ i - 1 \in 1..(m - 1)
        BY <3>1, <3>3
      <4>2. flat[i - 1] = step(flat, i - 1)
        BY <3>2, <4>1, Zenon DEF IsFlat
      <4>3. more[i - 1] = step(flat, i - 1)
        BY <4>1, Zenon
      <4> QED
        BY <4>2, <4>3, Zenon
    <3>4. \A i \in 1..m : step(more, i) = step(flat, i)
      <4> HIDE DEF more
      <4> QED
        BY <3>3, Zenon
    <3>5. IsFlat(ss, m, more)
      BY <3>4, Zenon DEF IsFlat
    <3> HIDE DEF more
    <3> QED
      BY <2>1, <3>5
  <2> QED
    BY <2>2, <2>3
<1> QED
  BY <1>1

\* Lists whose elements differ, put together.
LEMMA FlattenOnce ==
  ASSUME NEW n \in Nat, NEW ss, ss = [i \in 1..n |-> ss[i]], NEW T,
         \A i \in 1..n : ss[i] \in Seq(T[i]) /\ Once(ss[i]),
         \A i, j \in 1..n : i # j => Different(T[i], T[j])
  PROVE  FlattenSeq(ss) \in Seq(UNION {T[k] : k \in 1..n}) /\ Once(FlattenSeq(ss))
<1> DEFINE flat == CHOOSE g : IsFlat(ss, Len(ss), g)
           Upto(m) == UNION {T[k] : k \in 1..m}
           Good(m) == flat[m] \in Seq(Upto(m)) /\ Once(flat[m])
           Bad == {m \in 1..n : ~Good(m)}
<1>1. Len(ss) = n
  OBVIOUS
<1>2. IsFlat(ss, n, flat)
  BY <1>1, FlatExists
<1>3. FlattenSeq(ss) = IF n = 0 THEN ss ELSE flat[n]
  <2>1. FlattenSeq(ss) = IF Len(ss) = 0 THEN ss ELSE flat[Len(ss)]
    BY Zenon DEF FlattenSeq, IsFlat
  <2> HIDE DEF flat
  <2> QED
    BY <1>1, <2>1
<1>4. \A m \in 1..n : flat[m] = IF m = 1 THEN ss[m] ELSE flat[m - 1] \o ss[m]
  <2> HIDE DEF flat
  <2> QED
    BY <1>2 DEF IsFlat
<1> HIDE DEF flat
<1>5. ASSUME Bad # {} PROVE FALSE
  <2>1. PICK m \in Bad : \A k \in Bad : m <= k
    <3>1. Bad \subseteq Nat
      OBVIOUS
    <3> HIDE DEF Bad
    <3> QED
      BY <1>5, <3>1, LeastNatural
  <2>2. m \in 1..n /\ ~Good(m)
    OBVIOUS
  <2>3. ss[m] \in Seq(T[m]) /\ Once(ss[m])
    BY <2>2
  <2>4. CASE m = 1
    <3>1. Upto(1) = T[1]
      <4>1. 1..1 = {1}
        OBVIOUS
      <4> QED
        BY <4>1
    <3> QED
      BY <1>4, <2>2, <2>3, <2>4, <3>1
  <2>5. CASE m # 1
    <3>1. /\ m - 1 \in 1..n /\ ~(m <= m - 1) /\ m - 1 \in 1..m /\ m \in 1..m
          /\ \A k \in 1..(m - 1) : k \in 1..n /\ k # m
          /\ \A k \in 1..m : k \in 1..(m - 1) \/ k = m
          /\ \A k \in 1..(m - 1) : k \in 1..m
      BY <2>2, <2>5
    <3>2. Good(m - 1)
      <4> HIDE DEF Good
      <4> QED
        BY <2>1, <3>1
    <3>3. Different(Upto(m - 1), T[m])
      BY <2>2, <3>1, Zenon DEF Different
    <3>4. Upto(m) = Upto(m - 1) \cup T[m]
      BY <3>1
    <3> HIDE DEF Upto
    <3>5. flat[m - 1] \o ss[m] \in Seq(Upto(m - 1) \cup T[m]) /\ Once(flat[m - 1] \o ss[m])
      BY <2>3, <3>2, <3>3, ConcatOnce
    <3>6. flat[m] = flat[m - 1] \o ss[m]
      BY <1>4, <2>2, <2>5
    <3> QED
      BY <2>2, <3>4, <3>5, <3>6
  <2> QED
    BY <2>4, <2>5
<1>6. CASE n = 0
  <2>1. ss = <<>> /\ <<>> \in Seq(Upto(n)) /\ DOMAIN <<>> = {}
    BY <1>1, <1>6, EmptySeq
  <2>2. Once(<<>>)
    BY <2>1 DEF Once
  <2> QED
    BY <1>3, <1>6, <2>1, <2>2
<1>7. CASE n # 0
  <2>1. n \in 1..n
    BY <1>7
  <2>2. Good(n)
    BY <1>5, <2>1
  <2> QED
    BY <1>3, <1>7, <2>2
<1> QED
  BY <1>6, <1>7

\* The callbacks of a list without repetition.
LEMMA ListedOnce ==
  ASSUME NEW A, NEW list \in Seq(A), NoRepeats(list), NEW make,
         \A a \in A : make[a] \in Seq(ToSet(make[a])) /\ Once(make[a]),
         \A a, b \in A : a # b => Different(ToSet(make[a]), ToSet(make[b]))
  PROVE  /\ FlattenSeq([i \in DOMAIN list |-> make[list[i]]]) \in Seq(UNION {ToSet(make[a]) : a \in A})
         /\ Once(FlattenSeq([i \in DOMAIN list |-> make[list[i]]]))
<1> DEFINE ss == [i \in DOMAIN list |-> make[list[i]]]
           T == [i \in DOMAIN list |-> ToSet(make[list[i]])]
           U == UNION {ToSet(make[a]) : a \in A}
<1>1. PICK n \in Nat : n = Len(list)
  BY LenProperties
<1>2. DOMAIN list = 1..n
  BY <1>1, LenProperties, Zenon
<1>3. \A i \in 1..n : list[i] \in A
  BY <1>1, ElementOfSeq
<1>4. \A i \in 1..n : ss[i] = make[list[i]] /\ T[i] = ToSet(make[list[i]])
  BY <1>2
<1>5. ss = [i \in 1..n |-> ss[i]]
  BY <1>2
<1> HIDE DEF ss, T, U
<1>6. \A i \in 1..n : ss[i] \in Seq(T[i]) /\ Once(ss[i])
  BY <1>3, <1>4, Zenon
<1>7. \A i, j \in 1..n : i # j => Different(T[i], T[j])
  <2>1. \A i, j \in 1..n : i # j => list[i] # list[j]
    BY <1>2, Zenon DEF NoRepeats
  <2> QED
    BY <1>3, <1>4, <2>1, Zenon
<1>8. FlattenSeq(ss) \in Seq(UNION {T[k] : k \in 1..n}) /\ Once(FlattenSeq(ss))
  BY <1>5, <1>6, <1>7, FlattenOnce
<1>9. UNION {T[k] : k \in 1..n} \subseteq U
  BY <1>3, <1>4 DEF U
<1>10. FlattenSeq(ss) \in Seq(U)
  BY <1>8, <1>9, SeqMonotonic
<1> QED
  BY <1>8, <1>10 DEF ss, U

LEMMA OneOnce ==
  ASSUME NEW c
  PROVE  <<c>> \in Seq(ToSet(<<c>>)) /\ ToSet(<<c>>) = {c} /\ Once(<<c>>)
<1>1. ToSet(<<c>>) = {c}
  BY DEF ToSet
<1> QED
  BY <1>1 DEF Once

LEMMA NoneOnce ==
  <<>> \in Seq(ToSet(<<>>)) /\ ToSet(<<>>) = {} /\ Once(<<>>)
<1>1. DOMAIN <<>> = {}
  OBVIOUS
<1> QED
  BY <1>1 DEF ToSet, Once

\* What a callback is called, and what it is recorded with.
LEMMA CallbackNames ==
  ASSUME NEW f, NEW op, NEW ptr, NEW id, NEW count, NEW name \in {"heap", "free", "stack"}
  PROVE  /\ Callback(name, f, op, ptr, id, count).op = op
         /\ Callback(name, f, op, ptr, id, count).ptr = ptr
         /\ Callback(name, f, op, ptr, id, count).id = id
         /\ Callback(name, f, op, ptr, id, count).count = count
         /\ Callback(name, f, op, ptr, id, count).name \in {name, OmpName[name]}
BY DEF Callback

LEMMA BlockOf ==
  ASSUME NEW c
  PROVE  MallocData(c).call = c
BY DEF MallocData

\* The pointer that is reported for a block.
ReportedPointer(m) == IF m.cookie # <<>> /\ MemOp(m.call) = "malloc" THEN m.cookie[1].gep ELSE m.call

LEMMA HeapShape ==
  ASSUME NEW f, NEW m
  PROVE  /\ HeapCallbacks(f, m) \in Seq(ToSet(HeapCallbacks(f, m))) /\ Once(HeapCallbacks(f, m))
         /\ \A d \in ToSet(HeapCallbacks(f, m)) :
              /\ d.op = m.call
              /\ \/ /\ d.name \in {"heap", "heap_omp"} /\ d.count = ElementCount(m)
                    /\ d.id = BlockType(m).id /\ d.id # UnknownType /\ d.ptr = ReportedPointer(m)
                 \/ d.name \in {"free", "free_omp"} /\ MemOp(m.call) = "realloc"
<1> DEFINE id == BlockType(m).id
           ptr == ReportedPointer(m)
           heap == Callback("heap", f, m.call, ptr, id, ElementCount(m))
           free == Callback("free", f, m.call, Val(m.call).ops[1], UnknownType, 0)
<1>1. /\ heap.op = m.call /\ heap.name \in {"heap", "heap_omp"} /\ heap.count = ElementCount(m)
      /\ heap.id = id /\ heap.ptr = ptr
      /\ free.op = m.call /\ free.name \in {"free", "free_omp"}
  <2>1. OmpName["heap"] = "heap_omp" /\ OmpName["free"] = "free_omp"
    BY DEF OmpName
  <2> QED
    BY <2>1, CallbackNames
<1>2. HeapCallbacks(f, m) = IF id = UnknownType THEN <<>>
                            ELSE IF MemOp(m.call) = "realloc" THEN <<free, heap>> ELSE <<heap>>
  BY Zenon DEF HeapCallbacks, ReportedPointer
<1> HIDE DEF heap, free
<1>3. ToSet(<<free, heap>>) = {free, heap}
  BY DEF ToSet
<1>4. <<free, heap>> \in Seq(ToSet(<<free, heap>>)) /\ Once(<<free, heap>>)
  BY <1>1, <1>3 DEF Once, Same
<1>5. CASE id = UnknownType
  BY <1>2, <1>5, NoneOnce, Zenon
<1>6. CASE id # UnknownType /\ MemOp(m.call) = "realloc"
  <2>1. HeapCallbacks(f, m) = <<free, heap>>
    BY <1>2, <1>6
  <2> QED
    BY <1>1, <1>3, <1>4, <1>6, <2>1
<1>7. CASE id # UnknownType /\ MemOp(m.call) # "realloc"
  <2>1. HeapCallbacks(f, m) = <<heap>>
    BY <1>2, <1>7
  <2> QED
    BY <1>1, <1>7, <2>1, OneOnce
<1> QED
  BY <1>5, <1>6, <1>7

LEMMA FreeShape ==
  ASSUME NEW f, NEW c
  PROVE  /\ FreeCallbacks(f, c) \in Seq(ToSet(FreeCallbacks(f, c))) /\ Once(FreeCallbacks(f, c))
         /\ \A d \in ToSet(FreeCallbacks(f, c)) : d.op = c /\ d.name \in {"free", "free_omp"}
<1> DEFINE free == Callback("free", f, c, FreedPointer(c), UnknownType, 0)
<1>1. free.op = c /\ free.name \in {"free", "free_omp"}
  <2>1. OmpName["free"] = "free_omp"
    BY DEF OmpName
  <2> QED
    BY <2>1, CallbackNames
<1>2. FreeCallbacks(f, c) = <<free>>
  BY Zenon DEF FreeCallbacks
<1> HIDE DEF free
<1> QED
  BY <1>1, <1>2, OneOnce

LEMMA GlobalShape ==
  ASSUME NEW g
  PROVE  /\ GlobalCallbacks(g) \in Seq(ToSet(GlobalCallbacks(g))) /\ Once(GlobalCallbacks(g))
         /\ \A d \in ToSet(GlobalCallbacks(g)) : d.op = g /\ d.name = "global"
<1> DEFINE c == [name |-> "global", op |-> g, ptr |-> g, id |-> Val(g).type.id, count |-> Val(g).type.length]
<1>1. c.op = g /\ c.name = "global"
  OBVIOUS
<1>2. GlobalCallbacks(g) = IF Val(g).type.id = UnknownType THEN <<>> ELSE <<c>>
  BY Zenon DEF GlobalCallbacks
<1> HIDE DEF c
<1>3. CASE Val(g).type.id = UnknownType
  BY <1>2, <1>3, NoneOnce, Zenon
<1>4. CASE Val(g).type.id # UnknownType
  <2>1. GlobalCallbacks(g) = <<c>>
    BY <1>2, <1>4
  <2> QED
    BY <1>1, <2>1, OneOnce
<1> QED
  BY <1>3, <1>4

LEMMA StackShape ==
  ASSUME ValidModule(prog), ValidOperations(prog), NEW f, NEW a \in AllocasOf(f)
  PROVE  /\ StackCallbacks(f, a) \in Seq(ToSet(StackCallbacks(f, a))) /\ Once(StackCallbacks(f, a))
         /\ \A d \in ToSet(StackCallbacks(f, a)) : d.op \in {a} \cup Lifetimes(a) /\ d.name \in {"stack", "stack_omp"}
<1> DEFINE count == IF Val(a).vla THEN Val(a).size ELSE Val(a).size * Val(a).type.length
           at(op) == Callback("stack", f, op, a, Val(a).type.id, count)
           starts == IF conf.lifetime THEN InOrder(Lifetimes(a)) ELSE <<>>
           s == [i \in DOMAIN starts |-> at(starts[i])]
<1>1. \A op : at(op).op = op /\ at(op).name \in {"stack", "stack_omp"}
  <2>1. OmpName["stack"] = "stack_omp"
    BY DEF OmpName
  <2> QED
    BY <2>1, CallbackNames
<1>2. StackCallbacks(f, a) = IF Val(a).type.id = UnknownType THEN <<>> ELSE IF starts = <<>> THEN <<at(a)>> ELSE s
  BY Zenon DEF StackCallbacks
<1>3. starts \in Seq(Lifetimes(a)) /\ NoRepeats(starts)
  <2>1. Lifetimes(a) \subseteq Values /\ \A c \in Lifetimes(a) : Val(c).kind \in {"call", "alloca"}
    BY DEF Lifetimes, Calls, IsCall
  <2>2. Listing(InOrder(Lifetimes(a)), Lifetimes(a))
    BY <2>1, InOrderLists
  <2>3. <<>> \in Seq(Lifetimes(a)) /\ DOMAIN <<>> = {}
    BY EmptySeq
  <2> QED
    BY <2>2, <2>3, Zenon DEF Listing, NoRepeats
<1> HIDE DEF starts
<1>4. /\ s \in Seq(ToSet(s)) /\ Once(s)
      /\ \A d \in ToSet(s) : d.op \in Lifetimes(a) /\ d.name \in {"stack", "stack_omp"}
  <2>1. PICK n \in Nat : n = Len(starts)
    BY <1>3, LenProperties
  <2>2. DOMAIN starts = 1..n
    BY <1>3, <2>1, LenProperties, Zenon
  <2>3. \A i \in 1..n : starts[i] \in Lifetimes(a)
    BY <1>3, <2>1, ElementOfSeq
  <2> HIDE DEF at
  <2>4. \A i \in 1..n : s[i] = at(starts[i]) /\ s[i] \in ToSet(s)
    BY <2>2 DEF ToSet
  <2>5. s = [i \in 1..n |-> s[i]]
    BY <2>2
  <2>6. DOMAIN s = 1..n
    BY <2>2
  <2> HIDE DEF s
  <2>7. s \in Seq(ToSet(s))
    BY <2>4, <2>5, IsASeq
  <2>8. \A i, j \in 1..n : Same(s[i], s[j]) => i = j
    <3>1. \A i \in 1..n : s[i].op = starts[i]
      BY <1>1, <2>4
    <3>2. \A i, j \in 1..n : starts[i] = starts[j] => i = j
      BY <1>3, <2>2, Zenon DEF NoRepeats
    <3> QED
      BY <3>1, <3>2 DEF Same
  <2>9. \A d \in ToSet(s) : \E i \in 1..n : d = s[i]
    BY <2>6 DEF ToSet
  <2>10. \A d \in ToSet(s) : d.op \in Lifetimes(a) /\ d.name \in {"stack", "stack_omp"}
    BY <1>1, <2>3, <2>4, <2>9
  <2> QED
    BY <2>6, <2>7, <2>8, <2>10 DEF Once
<1> HIDE DEF at, s
<1>5. CASE Val(a).type.id = UnknownType
  BY <1>2, <1>5, NoneOnce, Zenon
<1>6. CASE Val(a).type.id # UnknownType /\ starts = <<>>
  <2>1. StackCallbacks(f, a) = <<at(a)>>
    BY <1>2, <1>6
  <2> QED
    BY <1>1, <2>1, OneOnce
<1>7. CASE Val(a).type.id # UnknownType /\ starts # <<>>
  <2>1. StackCallbacks(f, a) = s
    BY <1>2, <1>7
  <2> QED
    BY <1>4, <2>1
<1> QED
  BY <1>5, <1>6, <1>7

\* The lifetime of one alloca is not that of another.
LEMMA LifetimesApart ==
  ASSUME NEW f, NEW a \in AllocasOf(f), NEW b \in AllocasOf(f), a # b
  PROVE  ({a} \cup Lifetimes(a)) \cap ({b} \cup Lifetimes(b)) = {}
<1>1. Val(a).kind = "alloca" /\ Val(b).kind = "alloca"
  BY DEF AllocasOf, OfKind
<1>2. \A c \in Lifetimes(a) \cup Lifetimes(b) : Val(c).kind = "call"
  BY DEF Lifetimes, Calls, IsCall
<1>3. a \notin Lifetimes(b) /\ b \notin Lifetimes(a)
  BY <1>1, <1>2
<1>4. ASSUME NEW c \in Lifetimes(a), c \in Lifetimes(b) PROVE FALSE
  <2>1. \/ Val(c).ops[2] = a
        \/ Val(Val(c).ops[2]).kind = "bitcast" /\ Val(Val(c).ops[2]).ops[1] = a
    BY DEF Lifetimes
  <2>2. \/ Val(c).ops[2] = b
        \/ Val(Val(c).ops[2]).kind = "bitcast" /\ Val(Val(c).ops[2]).ops[1] = b
    BY <1>4 DEF Lifetimes
  <2> QED
    BY <1>1, <2>1, <2>2
<1> QED
  BY <1>3, <1>4

HeapFlat(f, list)  == FlattenSeq([i \in DOMAIN list |-> HeapCallbacks(f, list[i])])
FreeFlat(f, list)  == FlattenSeq([i \in DOMAIN list |-> FreeCallbacks(f, list[i])])
StackFlat(f, list) == FlattenSeq([i \in DOMAIN list |-> StackCallbacks(f, list[i])])
GlobalFlat(list)   == FlattenSeq([i \in DOMAIN list |-> GlobalCallbacks(list[i])])

\* What a function adds to the callbacks.
HeapAdded(f, data)  == IF conf.heap THEN HeapFlat(f, data.mallocs) \o FreeFlat(f, data.frees) ELSE <<>>
StackAdded(f, data) == IF conf.stack THEN StackFlat(f, data.allocas) ELSE <<>>

LEMMA HeapFlatOnce ==
  ASSUME NEW f, NEW list \in Seq(MallocsOf(f)), NoRepeats(list)
  PROVE  HeapFlat(f, list) \in Seq(HeapOf(f)) /\ Once(HeapFlat(f, list))
<1> DEFINE make == [m \in MallocsOf(f) |-> HeapCallbacks(f, m)]
<1>1. \A m \in MallocsOf(f) : make[m] = HeapCallbacks(f, m)
  OBVIOUS
<1>2. \A i \in DOMAIN list : list[i] \in MallocsOf(f)
  BY ElementOfSeq, LenProperties
<1> HIDE DEF make
<1>3. ASSUME NEW m \in MallocsOf(f)
      PROVE  /\ make[m] \in Seq(ToSet(make[m])) /\ Once(make[m])
             /\ \A d \in ToSet(make[m]) : d.op = m.call
  <2>1. make[m] = HeapCallbacks(f, m)
    BY <1>1
  <2>2. /\ HeapCallbacks(f, m) \in Seq(ToSet(HeapCallbacks(f, m))) /\ Once(HeapCallbacks(f, m))
        /\ \A d \in ToSet(HeapCallbacks(f, m)) : d.op = m.call
    BY HeapShape
  <2> QED
    BY <2>1, <2>2
<1>4. ASSUME NEW m \in MallocsOf(f), NEW n \in MallocsOf(f), m # n
      PROVE  Different(ToSet(make[m]), ToSet(make[n]))
  <2>1. m.call # n.call
    BY <1>4, BlockOf DEF MallocsOf
  <2>2. (\A d \in ToSet(make[m]) : d.op = m.call) /\ (\A d \in ToSet(make[n]) : d.op = n.call)
    BY <1>3
  <2> QED
    BY <2>1, <2>2 DEF Different, Same
<1>5. /\ FlattenSeq([i \in DOMAIN list |-> make[list[i]]]) \in Seq(UNION {ToSet(make[m]) : m \in MallocsOf(f)})
      /\ Once(FlattenSeq([i \in DOMAIN list |-> make[list[i]]]))
  BY <1>3, <1>4, ListedOnce
<1>6. [i \in DOMAIN list |-> make[list[i]]] = [i \in DOMAIN list |-> HeapCallbacks(f, list[i])]
  BY <1>1, <1>2
<1>7. UNION {ToSet(make[m]) : m \in MallocsOf(f)} = HeapOf(f)
  BY <1>1 DEF HeapOf
<1> QED
  BY <1>5, <1>6, <1>7 DEF HeapFlat

LEMMA FreeFlatOnce ==
  ASSUME NEW f, NEW list \in Seq(FreesOf(f)), NoRepeats(list)
  PROVE  FreeFlat(f, list) \in Seq(FreeOf(f)) /\ Once(FreeFlat(f, list))
<1> DEFINE make == [c \in FreesOf(f) |-> FreeCallbacks(f, c)]
<1>1. \A c \in FreesOf(f) : make[c] = FreeCallbacks(f, c)
  OBVIOUS
<1>2. \A i \in DOMAIN list : list[i] \in FreesOf(f)
  BY ElementOfSeq, LenProperties
<1> HIDE DEF make
<1>3. ASSUME NEW c \in FreesOf(f)
      PROVE  /\ make[c] \in Seq(ToSet(make[c])) /\ Once(make[c])
             /\ \A d \in ToSet(make[c]) : d.op = c
  <2>1. make[c] = FreeCallbacks(f, c)
    BY <1>1
  <2>2. /\ FreeCallbacks(f, c) \in Seq(ToSet(FreeCallbacks(f, c))) /\ Once(FreeCallbacks(f, c))
        /\ \A d \in ToSet(FreeCallbacks(f, c)) : d.op = c
    BY FreeShape
  <2> QED
    BY <2>1, <2>2
<1>4. ASSUME NEW c \in FreesOf(f), NEW e \in FreesOf(f), c # e
      PROVE  Different(ToSet(make[c]), ToSet(make[e]))
  <2>1. (\A d \in ToSet(make[c]) : d.op = c) /\ (\A d \in ToSet(make[e]) : d.op = e)
    BY <1>3
  <2> QED
    BY <1>4, <2>1 DEF Different, Same
<1>5. /\ FlattenSeq([i \in DOMAIN list |-> make[list[i]]]) \in Seq(UNION {ToSet(make[c]) : c \in FreesOf(f)})
      /\ Once(FlattenSeq([i \in DOMAIN list |-> make[list[i]]]))
  BY <1>3, <1>4, ListedOnce
<1>6. [i \in DOMAIN list |-> make[list[i]]] = [i \in DOMAIN list |-> FreeCallbacks(f, list[i])]
  BY <1>1, <1>2
<1>7. UNION {ToSet(make[c]) : c \in FreesOf(f)} = FreeOf(f)
  BY <1>1 DEF FreeOf
<1> QED
  BY <1>5, <1>6, <1>7 DEF FreeFlat

LEMMA StackFlatOnce ==
  ASSUME ValidModule(prog), ValidOperations(prog),
         NEW f, NEW list \in Seq(AllocasOf(f)), NoRepeats(list)
  PROVE  StackFlat(f, list) \in Seq(StackOf(f)) /\ Once(StackFlat(f, list))
<1> DEFINE make == [a \in AllocasOf(f) |-> StackCallbacks(f, a)]
<1>1. \A a \in AllocasOf(f) : make[a] = StackCallbacks(f, a)
  OBVIOUS
<1>2. \A i \in DOMAIN list : list[i] \in AllocasOf(f)
  BY ElementOfSeq, LenProperties
<1> HIDE DEF make
<1>3. ASSUME NEW a \in AllocasOf(f)
      PROVE  /\ make[a] \in Seq(ToSet(make[a])) /\ Once(make[a])
             /\ \A d \in ToSet(make[a]) : d.op \in {a} \cup Lifetimes(a)
  <2>1. make[a] = StackCallbacks(f, a)
    BY <1>1
  <2>2. /\ StackCallbacks(f, a) \in Seq(ToSet(StackCallbacks(f, a))) /\ Once(StackCallbacks(f, a))
        /\ \A d \in ToSet(StackCallbacks(f, a)) : d.op \in {a} \cup Lifetimes(a)
    BY StackShape
  <2> QED
    BY <2>1, <2>2
<1>4. ASSUME NEW a \in AllocasOf(f), NEW b \in AllocasOf(f), a # b
      PROVE  Different(ToSet(make[a]), ToSet(make[b]))
  <2>1. /\ \A d \in ToSet(make[a]) : d.op \in {a} \cup Lifetimes(a)
        /\ \A d \in ToSet(make[b]) : d.op \in {b} \cup Lifetimes(b)
    BY <1>3
  <2>2. ({a} \cup Lifetimes(a)) \cap ({b} \cup Lifetimes(b)) = {}
    BY <1>4, LifetimesApart
  <2> QED
    BY <2>1, <2>2 DEF Different, Same
<1>5. /\ FlattenSeq([i \in DOMAIN list |-> make[list[i]]]) \in Seq(UNION {ToSet(make[a]) : a \in AllocasOf(f)})
      /\ Once(FlattenSeq([i \in DOMAIN list |-> make[list[i]]]))
  BY <1>3, <1>4, ListedOnce
<1>6. [i \in DOMAIN list |-> make[list[i]]] = [i \in DOMAIN list |-> StackCallbacks(f, list[i])]
  BY <1>1, <1>2
<1>7. UNION {ToSet(make[a]) : a \in AllocasOf(f)} = StackOf(f)
  BY <1>1 DEF StackOf
<1> QED
  BY <1>5, <1>6, <1>7 DEF StackFlat

LEMMA GlobalFlatOnce ==
  ASSUME NEW list \in Seq(Globals), NoRepeats(list)
  PROVE  GlobalFlat(list) \in Seq(GlobalOf) /\ Once(GlobalFlat(list))
<1> DEFINE make == [g \in Globals |-> GlobalCallbacks(g)]
<1>1. \A g \in Globals : make[g] = GlobalCallbacks(g)
  OBVIOUS
<1>2. \A i \in DOMAIN list : list[i] \in Globals
  BY ElementOfSeq, LenProperties
<1> HIDE DEF make
<1>3. ASSUME NEW g \in Globals
      PROVE  /\ make[g] \in Seq(ToSet(make[g])) /\ Once(make[g])
             /\ \A d \in ToSet(make[g]) : d.op = g
  <2>1. make[g] = GlobalCallbacks(g)
    BY <1>1
  <2>2. /\ GlobalCallbacks(g) \in Seq(ToSet(GlobalCallbacks(g))) /\ Once(GlobalCallbacks(g))
        /\ \A d \in ToSet(GlobalCallbacks(g)) : d.op = g
    BY GlobalShape
  <2> QED
    BY <2>1, <2>2
<1>4. ASSUME NEW g \in Globals, NEW h \in Globals, g # h
      PROVE  Different(ToSet(make[g]), ToSet(make[h]))
  <2>1. (\A d \in ToSet(make[g]) : d.op = g) /\ (\A d \in ToSet(make[h]) : d.op = h)
    BY <1>3
  <2> QED
    BY <1>4, <2>1 DEF Different, Same
<1>5. /\ FlattenSeq([i \in DOMAIN list |-> make[list[i]]]) \in Seq(UNION {ToSet(make[g]) : g \in Globals})
      /\ Once(FlattenSeq([i \in DOMAIN list |-> make[list[i]]]))
  BY <1>3, <1>4, ListedOnce
<1>6. [i \in DOMAIN list |-> make[list[i]]] = [i \in DOMAIN list |-> GlobalCallbacks(list[i])]
  BY <1>1, <1>2
<1>7. UNION {ToSet(make[g]) : g \in Globals} = GlobalOf
  BY <1>1 DEF GlobalOf
<1> QED
  BY <1>5, <1>6, <1>7 DEF GlobalFlat

\* What a callback of a function, and one of a global, is called and stands for.
LEMMA CallbackKinds ==
  ASSUME ValidModule(prog), ValidOperations(prog), NEW f
  PROVE  /\ \A d \in HeapOf(f) : /\ Val(d.op).fn = f
                                 /\ \/ d.name \in {"heap", "heap_omp"}
                                    \/ d.name \in {"free", "free_omp"} /\ MemOp(d.op) = "realloc"
         /\ \A d \in FreeOf(f) : Val(d.op).fn = f /\ d.name \in {"free", "free_omp"} /\ MemOp(d.op) = "free"
         /\ \A d \in StackOf(f) : Val(d.op).fn = f /\ d.name \in {"stack", "stack_omp"}
         /\ \A d \in GlobalOf : d.name = "global"
<1>1. ASSUME NEW d \in HeapOf(f)
      PROVE  /\ Val(d.op).fn = f
             /\ \/ d.name \in {"heap", "heap_omp"}
                \/ d.name \in {"free", "free_omp"} /\ MemOp(d.op) = "realloc"
  <2>1. PICK m \in MallocsOf(f) : d \in ToSet(HeapCallbacks(f, m))
    BY DEF HeapOf
  <2>2. PICK c \in Mallocs(f) : m = MallocData(c)
    BY <2>1, Zenon DEF MallocsOf
  <2>3. m.call = c
    BY <2>2, BlockOf
  <2>4. d.op = c /\ \/ d.name \in {"heap", "heap_omp"}
                    \/ d.name \in {"free", "free_omp"} /\ MemOp(c) = "realloc"
    BY <2>1, <2>3, HeapShape
  <2>5. Val(c).fn = f
    BY DEF Mallocs, InFunction
  <2> QED
    BY <2>4, <2>5
<1>2. ASSUME NEW d \in FreeOf(f)
      PROVE  Val(d.op).fn = f /\ d.name \in {"free", "free_omp"} /\ MemOp(d.op) = "free"
  <2>1. PICK c \in FreesOf(f) : d \in ToSet(FreeCallbacks(f, c))
    BY DEF FreeOf
  <2>2. d.op = c /\ d.name \in {"free", "free_omp"}
    BY <2>1, FreeShape
  <2>3. Val(c).fn = f /\ MemOp(c) = "free"
    BY DEF FreesOf, InFunction
  <2> QED
    BY <2>2, <2>3
<1>3. ASSUME NEW d \in StackOf(f) PROVE Val(d.op).fn = f /\ d.name \in {"stack", "stack_omp"}
  <2>1. PICK a \in AllocasOf(f) : d \in ToSet(StackCallbacks(f, a))
    BY DEF StackOf
  <2>2. d.op \in {a} \cup Lifetimes(a) /\ d.name \in {"stack", "stack_omp"}
    BY <2>1, StackShape
  <2>3. Val(a).fn = f
    BY DEF AllocasOf, OfKind, InFunction
  <2>4. \A c \in Lifetimes(a) : Val(c).fn = f
    BY <2>3 DEF Lifetimes, Calls
  <2> QED
    BY <2>2, <2>3, <2>4
<1>4. ASSUME NEW d \in GlobalOf PROVE d.name = "global"
  BY GlobalShape DEF GlobalOf
<1> QED
  BY <1>1, <1>2, <1>3, <1>4

\* The callbacks a function adds.
LEMMA AddedOnce ==
  ASSUME ValidModule(prog), ValidOperations(prog), NEW f, NEW data, ListsOf(f, data)
  PROVE  HeapAdded(f, data) \o StackAdded(f, data) \in Seq(CallbacksOf(f))
         /\ Once(HeapAdded(f, data) \o StackAdded(f, data))
         /\ HeapAdded(f, data) \in Seq(CallbacksOf(f)) /\ StackAdded(f, data) \in Seq(CallbacksOf(f))
<1> DEFINE heap == HeapAdded(f, data)
           stack == StackAdded(f, data)
<1>1. \A S : <<>> \in Seq(S) /\ Once(<<>>)
  BY NoneOnce, EmptySeq
<1>2. Different(HeapOf(f), FreeOf(f)) /\ Different(HeapOf(f) \cup FreeOf(f), StackOf(f))
  BY CallbackKinds DEF Different, Same
<1>3. heap \in Seq(HeapOf(f) \cup FreeOf(f)) /\ Once(heap)
  <2>1. HeapFlat(f, data.mallocs) \in Seq(HeapOf(f)) /\ Once(HeapFlat(f, data.mallocs))
    BY HeapFlatOnce DEF ListsOf, HeapLists
  <2>2. FreeFlat(f, data.frees) \in Seq(FreeOf(f)) /\ Once(FreeFlat(f, data.frees))
    BY FreeFlatOnce DEF ListsOf, HeapLists
  <2>3. /\ HeapFlat(f, data.mallocs) \o FreeFlat(f, data.frees) \in Seq(HeapOf(f) \cup FreeOf(f))
        /\ Once(HeapFlat(f, data.mallocs) \o FreeFlat(f, data.frees))
    BY <1>2, <2>1, <2>2, ConcatOnce
  <2> QED
    BY <1>1, <2>3, Zenon DEF HeapAdded
<1>4. stack \in Seq(StackOf(f)) /\ Once(stack)
  <2>1. StackFlat(f, data.allocas) \in Seq(StackOf(f)) /\ Once(StackFlat(f, data.allocas))
    BY StackFlatOnce DEF ListsOf
  <2> QED
    BY <1>1, <2>1, Zenon DEF StackAdded
<1> HIDE DEF heap, stack
<1>5. heap \o stack \in Seq(HeapOf(f) \cup FreeOf(f) \cup StackOf(f)) /\ Once(heap \o stack)
  BY <1>2, <1>3, <1>4, ConcatOnce
<1>6. heap \in Seq(CallbacksOf(f)) /\ stack \in Seq(CallbacksOf(f))
  <2>1. HeapOf(f) \cup FreeOf(f) \subseteq CallbacksOf(f) /\ StackOf(f) \subseteq CallbacksOf(f)
    BY DEF CallbacksOf
  <2> QED
    BY <1>3, <1>4, <2>1, SeqMonotonic
<1> QED
  BY <1>5, <1>6 DEF CallbacksOf, heap, stack

\* The callbacks of different functions, and of functions and globals, differ.
LEMMA FunctionsApart ==
  ASSUME ValidModule(prog), ValidOperations(prog), NEW f, NEW D, f \notin D
  PROVE  Different(GlobalOf \cup UNION {CallbacksOf(g) : g \in D}, CallbacksOf(f))
<1>1. \A g : \A d \in CallbacksOf(g) : Val(d.op).fn = g /\ d.name # "global"
  BY CallbackKinds DEF CallbacksOf
<1>2. \A d \in GlobalOf : d.name = "global"
  BY CallbackKinds
<1> QED
  BY <1>1, <1>2 DEF Different, Same

-----------------------------------------------------------------------------
(* Lists without repetition that are collected.                            *)

\* MemOpVisitor lists the operations of a function.
LEMMA CollectLists ==
  ASSUME ValidModule(prog), ValidOperations(prog), NEW f, collector \in Collected,
         collector.allocas = <<>>, collector.mallocs = <<>>, collector.frees = <<>>,
         ~\E m \in Mallocs(f) : conf.heap /\ CookieError(m)
  PROVE  /\ collect(f) \in Collected /\ collect(f).globals = collector.globals
         /\ HeapLists(f, collect(f)) /\ ToSet(collect(f).allocas) \subseteq AllocasOf(f)
         /\ conf.stack => AllocasOf(f) \subseteq ToSet(collect(f).allocas)
<1> DEFINE mallocs == InOrder(IF conf.heap THEN Mallocs(f) ELSE {})
           frees == InOrder({v \in InFunction(f) : conf.heap /\ MemOp(v) = "free"})
           allocas == InOrder({v \in OfKind(InFunction(f), "alloca") : conf.stack})
           blocks == [i \in DOMAIN mallocs |-> MallocData(mallocs[i])]
<1>1. \A v \in Mallocs(f) \cup FreesOf(f) : v \in Values /\ Val(v).kind \in {"call", "alloca"}
  BY DEF Mallocs, FreesOf, MemOp, Allocating, IsCall, InFunction
<1>2. \A v \in AllocasOf(f) : v \in Values /\ Val(v).kind \in {"call", "alloca"}
  BY DEF AllocasOf, OfKind, InFunction
<1>3. mallocs \in Seq({c \in Mallocs(f) : ~CookieError(c)}) /\ NoRepeats(mallocs)
  <2>1. PICK S : S = IF conf.heap THEN Mallocs(f) ELSE {}
    OBVIOUS
  <2>2. S \subseteq {c \in Mallocs(f) : ~CookieError(c)}
    BY <2>1
  <2>3. S \subseteq Values /\ \A v \in S : Val(v).kind \in {"call", "alloca"}
    BY <1>1, <2>2
  <2>4. Listing(InOrder(S), S)
    BY <2>3, InOrderLists
  <2>5. InOrder(S) \in Seq({c \in Mallocs(f) : ~CookieError(c)}) /\ NoRepeats(InOrder(S))
    BY <2>2, <2>4, SeqMonotonic DEF Listing, NoRepeats
  <2> QED
    BY <2>1, <2>5
<1>4. frees \in Seq(FreesOf(f)) /\ NoRepeats(frees)
  <2>1. PICK S : S = {v \in InFunction(f) : conf.heap /\ MemOp(v) = "free"}
    OBVIOUS
  <2>2. S \subseteq FreesOf(f)
    BY <2>1 DEF FreesOf
  <2>3. S \subseteq Values /\ \A v \in S : Val(v).kind \in {"call", "alloca"}
    BY <1>1, <2>2
  <2>4. Listing(InOrder(S), S)
    BY <2>3, InOrderLists
  <2>5. InOrder(S) \in Seq(FreesOf(f)) /\ NoRepeats(InOrder(S))
    BY <2>2, <2>4, SeqMonotonic DEF Listing, NoRepeats
  <2> QED
    BY <2>1, <2>5
<1>5. allocas \in Seq(AllocasOf(f)) /\ (conf.stack => AllocasOf(f) \subseteq ToSet(allocas))
  <2>1. PICK S : S = {v \in OfKind(InFunction(f), "alloca") : conf.stack}
    OBVIOUS
  <2>2. S \subseteq AllocasOf(f) /\ (conf.stack => AllocasOf(f) \subseteq S)
    BY <2>1 DEF AllocasOf
  <2>3. S \subseteq Values /\ \A v \in S : Val(v).kind \in {"call", "alloca"}
    BY <1>2, <2>2
  <2>4. Listing(InOrder(S), S)
    BY <2>3, InOrderLists
  <2>5. InOrder(S) \in Seq(AllocasOf(f)) /\ S \subseteq ToSet(InOrder(S))
    BY <2>2, <2>4, SeqMonotonic DEF Listing, ToSet
  <2> QED
    BY <2>1, <2>2, <2>5
<1> HIDE DEF mallocs, frees, allocas
<1>6. blocks \in Seq(MallocsOf(f)) /\ NoRepeats(blocks)
  <2>1. PICK n \in Nat : n = Len(mallocs)
    BY <1>3, LenProperties
  <2>2. DOMAIN mallocs = 1..n
    BY <1>3, <2>1, LenProperties, Zenon
  <2>3. \A i \in 1..n : mallocs[i] \in {c \in Mallocs(f) : ~CookieError(c)}
    BY <1>3, <2>1, ElementOfSeq
  <2>4. \A i \in 1..n : blocks[i] = MallocData(mallocs[i])
    BY <2>2
  <2>5. blocks = [i \in 1..n |-> blocks[i]] /\ DOMAIN blocks = 1..n
    BY <2>2
  <2> HIDE DEF blocks
  <2>6. \A i \in 1..n : blocks[i] \in MallocsOf(f)
    BY <2>3, <2>4 DEF MallocsOf
  <2>7. blocks \in Seq(MallocsOf(f))
    BY <2>5, <2>6, IsASeq
  <2>8. \A i \in 1..n : blocks[i].call = mallocs[i]
    BY <2>4, BlockOf
  <2>9. \A i, j \in 1..n : mallocs[i] = mallocs[j] => i = j
    BY <1>3, <2>2, Zenon DEF NoRepeats
  <2>10. \A i, j \in 1..n : blocks[i] = blocks[j] => i = j
    BY <2>8, <2>9
  <2> QED
    BY <2>5, <2>7, <2>10 DEF NoRepeats
<1> HIDE DEF blocks
<1>7. /\ allocas \in Seq(Values) /\ frees \in Seq(Values) /\ blocks \in Seq(Blocks)
  <2>1. MallocsOf(f) \subseteq Blocks
    BY <1>1 DEF MallocsOf, Blocks
  <2>2. AllocasOf(f) \subseteq Values /\ FreesOf(f) \subseteq Values
    BY <1>1, <1>2
  <2> QED
    BY <1>4, <1>5, <1>6, <2>1, <2>2, SeqMonotonic
<1>8. <<>> \o allocas = allocas /\ <<>> \o blocks = blocks /\ <<>> \o frees = frees
  BY <1>7, ConcatEmptySeq
<1>9. collect(f) = [collector EXCEPT !.allocas = @ \o allocas, !.mallocs = @ \o blocks, !.frees = @ \o frees]
  BY Zenon DEF collect, mallocs, frees, allocas, blocks
<1>10. /\ collect(f) \in Collected /\ collect(f).globals = collector.globals
       /\ collect(f).allocas = allocas /\ collect(f).mallocs = blocks /\ collect(f).frees = frees
  BY <1>7, <1>8, <1>9 DEF Collected
<1>11. ToSet(allocas) \subseteq AllocasOf(f)
  BY <1>5, ElementOfSeq, LenProperties DEF ToSet
<1> QED
  BY <1>4, <1>5, <1>6, <1>10, <1>11 DEF HeapLists

-----------------------------------------------------------------------------
(* The parts of the invariant that a step leaves alone.                    *)

Collecting == {"globals", "filterGlobals", "find", "filterAllocas"}

LEMMA SearchSame ==
  ASSUME SearchInv, UNCHANGED filterVars
  PROVE  SearchInv'
<1>1. UNCHANGED <<prog, start, chain, acts, verdict, cuts>>
  BY DEF filterVars
<1>2. NoneAgain(chain, start)'
  BY <1>1, SameModule DEF SearchInv, NoneAgain
<1>3. Entered(acts, chain) => Entered(acts, chain)'
  <2>1. \A f : ParamsOf(f)' = ParamsOf(f)
    BY <1>1, SameModule
  <2> QED
    BY <1>1, <2>1 DEF Entered
<1> QED
  BY <1>1, <1>2, <1>3, SameModule DEF SearchInv

LEMMA ModuleSame ==
  ASSUME ValidModule(prog), ValidOperations(prog), prog' = prog
  PROVE  (ValidModule(prog) /\ ValidOperations(prog))'
<1>1. ValidModule(prog') /\ ValidOperations(prog')
  BY Zenon
<1> QED
  BY <1>1

LEMMA TodoSame ==
  ASSUME TodoInv, UNCHANGED <<prog, todo, functionMap>>,
         \/ phase' \notin {"find", "filterAllocas", "instrument"}
         \/ phase' = phase
         \/ phase' \in {"find", "filterAllocas"} /\ phase \in {"find", "filterAllocas"}
  PROVE  TodoInv'
<1>1. /\ \A f : MallocsOf(f)' = MallocsOf(f) /\ FreesOf(f)' = FreesOf(f) /\ AllocasOf(f)' = AllocasOf(f)
      /\ Definitions' = Definitions
  BY SameOperations
<1>2. \A f \in DOMAIN functionMap : ListsOf(f, functionMap[f])
  BY DEF TodoInv
<1>3. ASSUME NEW f \in DOMAIN functionMap' PROVE ListsOf(f, functionMap[f])'
  BY <1>1, <1>2 DEF ListsOf, HeapLists
<1>4. todo \in Seq(Definitions) /\ NoRepeats(todo)
  BY DEF TodoInv
<1>5. (todo \in Seq(Definitions) /\ NoRepeats(todo))'
  BY <1>1, <1>4
<1>6. /\ phase' \in {"find", "filterAllocas"} => Definitions' \subseteq DOMAIN functionMap' \cup ToSet(todo')
      /\ phase' = "instrument" => Definitions' \subseteq DOMAIN functionMap'
  BY <1>1 DEF TodoInv
<1> QED
  BY <1>3, <1>5, <1>6, Zenon DEF TodoInv

LEMMA CallbacksSame ==
  ASSUME CallbacksInv, UNCHANGED <<prog, conf, callbacks, todo>>,
         phase' \in Collecting => phase \in Collecting
  PROVE  CallbacksInv'
<1>1. (UNION {CallbacksOf(f) : f \in Definitions \ ToSet(todo)})' = UNION {CallbacksOf(f) : f \in Definitions \ ToSet(todo)}
  BY SameOperations, SameCallbacks
<1>2. Once(callbacks)'
  BY DEF CallbacksInv, Once
<1> QED
  BY <1>1, <1>2, SameCallbacks DEF CallbacksInv, Collecting

LEMMA CallbacksNone ==
  ASSUME callbacks' = <<>>
  PROVE  CallbacksInv'
<1>1. Once(callbacks)'
  BY NoneOnce
<1> QED
  BY <1>1 DEF CallbacksInv

\* The queue and the lists are left alone, or the phase is one they do not matter in.
LEMMA QueueSame ==
  ASSUME QueueInv, UNCHANGED <<prog, phase, todo, queue, collector>>,
         verdict' # "idle" => Filtering /\ queue # <<>>
  PROVE  QueueInv'
BY SameOperations DEF QueueInv, Filtering, Apart, NoRepeats

LEMMA ListsSame ==
  ASSUME ListsInv, UNCHANGED <<prog, phase, todo, collector>>
  PROVE  ListsInv'
<1>1. Collected' = Collected
  BY SameOperations DEF Collected
<1>2. \A f : MallocsOf(f)' = MallocsOf(f) /\ FreesOf(f)' = FreesOf(f)
  BY SameOperations
<1>3. phase = "filterAllocas" => HeapLists(Head(todo), collector)'
  BY <1>2 DEF ListsInv, HeapLists
<1> QED
  BY <1>1, <1>3 DEF ListsInv, Nothing

-----------------------------------------------------------------------------
(* The steps of the pass.                                                  *)

Inv == PassInv /\ SearchInv

\* The facts the steps start from.
LEMMA InvFacts ==
  ASSUME Inv
  PROVE  /\ ValidModule(prog) /\ ValidOperations(prog) /\ QueueInv /\ ListsInv /\ TodoInv /\ CallbacksInv
         /\ phase \in {"globals", "filterGlobals", "find", "filterAllocas", "instrument", "done", "exit"}
         /\ SearchInv
BY DEF Inv, PassInv

LEMMA StepFindGlobals ==
  ASSUME Inv, FindGlobals
  PROVE  Inv'
<1>0. /\ ValidModule(prog) /\ ValidOperations(prog) /\ QueueInv /\ ListsInv /\ TodoInv /\ CallbacksInv
      /\ phase = "globals" /\ phase' = "filterGlobals" /\ prog' = prog /\ verdict' = verdict
      /\ UNCHANGED <<filterVars, conf, todo, collector, functionMap, callbacks>>
  BY DEF Inv, PassInv, FindGlobals, filterVars
<1> DEFINE S == {g \in OfKind(Values, "global") : ~FilteredGlobal(g)}
<1>1. queue' = InOrder(S)
  BY Zenon DEF FindGlobals
<1>2. S \subseteq Globals /\ Globals \subseteq Values /\ \A v \in Globals : Val(v).kind = "global"
  BY DEF Globals, OfKind
<1> HIDE DEF S
<1>3. Listing(queue', S)
  BY <1>0, <1>1, <1>2, InOrderLists
<1>4. Apart(<<>>, queue', Globals) /\ Apart(<<>>, queue', Values)
  BY <1>2, <1>3, ApartStart
<1>5. collector = Nothing /\ verdict = "idle" /\ collector' = collector
  BY <1>0 DEF ListsInv, QueueInv, Filtering
<1>6. Globals' = Globals /\ Values' = Values /\ Collected' = Collected
  BY <1>0, SameOperations DEF Collected
<1>7. QueueInv'
  BY <1>0, <1>4, <1>5, <1>6 DEF QueueInv, Nothing, Apart
<1>8. ListsInv'
  BY <1>0, <1>5, <1>6 DEF ListsInv, Nothing
<1>9. TodoInv'
  BY <1>0, TodoSame
<1>10. CallbacksInv'
  BY <1>0, CallbacksSame DEF Collecting
<1>11. SearchInv'
  BY <1>0, SearchSame DEF Inv
<1> QED
  BY <1>0, <1>7, <1>8, <1>9, <1>10, <1>11, ModuleSame DEF Inv, PassInv

LEMMA StepAskFilter ==
  ASSUME Inv, AskFilter
  PROVE  Inv'
<1>0. /\ ValidModule(prog) /\ ValidOperations(prog) /\ QueueInv /\ ListsInv /\ TodoInv /\ CallbacksInv
      /\ phase \in {"globals", "filterGlobals", "find", "filterAllocas", "instrument", "done", "exit"}
  BY InvFacts
<1>1. /\ Filtering /\ queue # <<>> /\ prog' = prog
      /\ UNCHANGED <<conf, phase, todo, queue, collector, functionMap, callbacks>>
      /\ StartFilter(Head(queue), IF phase = "filterGlobals" THEN "none" ELSE Val(Head(queue)).fn)
  BY Zenon DEF AskFilter, passVars
<1>2. Head(queue) \in Values
  BY <1>0, <1>1, HeadAndTail DEF QueueInv
<1>3. SearchInv'
  BY <1>1, <1>2, StepStart
<1>4. QueueInv'
  BY <1>0, <1>1, QueueSame
<1>5. ListsInv'
  BY <1>0, <1>1, ListsSame
<1>6. TodoInv'
  BY <1>0, <1>1, TodoSame
<1>7. CallbacksInv'
  BY <1>0, <1>1, CallbacksSame
<1> QED
  BY <1>0, <1>1, <1>3, <1>4, <1>5, <1>6, <1>7, ModuleSame DEF Inv, PassInv

LEMMA StepSearch ==
  ASSUME Inv, Search
  PROVE  Inv'
<1>0. /\ ValidModule(prog) /\ ValidOperations(prog) /\ QueueInv /\ ListsInv /\ TodoInv /\ CallbacksInv
      /\ phase \in {"globals", "filterGlobals", "find", "filterAllocas", "instrument", "done", "exit"}
      /\ SearchInv
  BY InvFacts
<1>1. /\ FilterStep /\ UNCHANGED <<conf, phase, todo, queue, collector, functionMap, callbacks>>
  BY DEF Search, passVars
<1>2. verdict = "open" /\ prog' = prog
  BY <1>1 DEF FilterStep, Precheck, Successor, PopValue, FollowDef, EnterDef, Return, In
<1>3. SearchInv'
  BY <1>0, <1>1, StepOfFilter
<1>4. QueueInv'
  <2>1. Filtering /\ queue # <<>>
    BY <1>0, <1>2 DEF QueueInv
  <2> QED
    BY <1>0, <1>1, <1>2, <2>1, QueueSame
<1>5. ListsInv'
  BY <1>0, <1>1, <1>2, ListsSame
<1>6. TodoInv'
  BY <1>0, <1>1, <1>2, TodoSame
<1>7. CallbacksInv'
  BY <1>0, <1>1, <1>2, CallbacksSame
<1> QED
  BY <1>0, <1>1, <1>2, <1>3, <1>4, <1>5, <1>6, <1>7, ModuleSame DEF Inv, PassInv

\* The list the head of the queue belongs on is the one that may grow.
LEMMA ListsTaken ==
  ASSUME Inv, Filtering, queue # <<>>,
         collector' = collector \/ collector' = [collector EXCEPT ![KeptList] = Append(@, Head(queue))],
         NEW kept, kept = IF phase = "filterGlobals" THEN collector.globals ELSE collector.allocas,
         NEW new, new = IF phase = "filterGlobals" THEN collector'.globals ELSE collector'.allocas
  PROVE  /\ kept \in Seq(Values) /\ collector' \in Collected
         /\ collector' = [collector EXCEPT ![KeptList] = Append(@, Head(queue))] => new = Append(kept, Head(queue))
         /\ new = kept \/ new = Append(kept, Head(queue))
         /\ collector'.mallocs = collector.mallocs /\ collector'.frees = collector.frees
         /\ phase = "filterGlobals" => collector'.allocas = collector.allocas
         /\ phase = "filterAllocas" => collector'.globals = collector.globals
<1>0. phase \in {"filterGlobals", "filterAllocas"}
  BY DEF Filtering
<1>1. collector \in Collected /\ queue \in Seq(Values) /\ Head(queue) \in Values
  BY InvFacts, HeadAndTail DEF QueueInv, ListsInv
<1>2. kept \in Seq(Values)
  BY <1>1 DEF Collected
<1>3. Append(kept, Head(queue)) \in Seq(Values)
  BY <1>1, <1>2, Appended
<1>4. CASE collector' = collector /\ collector' # [collector EXCEPT ![KeptList] = Append(@, Head(queue))]
  BY <1>1, <1>2, <1>4
<1>5. CASE collector' = [collector EXCEPT ![KeptList] = Append(@, Head(queue))] /\ phase = "filterGlobals"
  <2>1. collector' = [collector EXCEPT !.globals = Append(kept, Head(queue))]
    BY <1>5 DEF KeptList
  <2> QED
    BY <1>1, <1>2, <1>3, <1>5, <2>1 DEF Collected
<1>6. CASE collector' = [collector EXCEPT ![KeptList] = Append(@, Head(queue))] /\ phase = "filterAllocas"
  <2>1. collector' = [collector EXCEPT !.allocas = Append(kept, Head(queue))]
    BY <1>6 DEF KeptList
  <2> QED
    BY <1>1, <1>2, <1>3, <1>6, <2>1 DEF Collected
<1> QED
  BY <1>0, <1>4, <1>5, <1>6

\* The head of the queue is kept or not.
LEMMA HeadTaken ==
  ASSUME Inv, Filtering, queue # <<>>, queue' = Tail(queue), verdict' = "idle",
         collector' = collector \/ collector' = [collector EXCEPT ![KeptList] = Append(@, Head(queue))],
         UNCHANGED <<prog, conf, phase, todo, functionMap, callbacks>>, SearchInv'
  PROVE  Inv'
<1>0. /\ ValidModule(prog) /\ ValidOperations(prog) /\ QueueInv /\ ListsInv /\ TodoInv /\ CallbacksInv
      /\ phase \in {"filterGlobals", "filterAllocas"}
  BY InvFacts DEF Filtering
<1> DEFINE kept == IF phase = "filterGlobals" THEN collector.globals ELSE collector.allocas
           new == IF phase = "filterGlobals" THEN collector'.globals ELSE collector'.allocas
           S == IF phase = "filterGlobals" THEN Globals ELSE AllocasOf(Head(todo))
<1>1. queue \in Seq(Values) /\ Tail(queue) \in Seq(Values)
  BY <1>0, HeadAndTail DEF QueueInv
<1>2. PICK k, n : k = kept /\ n = new
  OBVIOUS
<1>3. /\ collector' \in Collected
      /\ new = kept \/ new = Append(kept, Head(queue))
      /\ collector'.mallocs = collector.mallocs /\ collector'.frees = collector.frees
      /\ phase = "filterGlobals" => collector'.allocas = collector.allocas
      /\ phase = "filterAllocas" => collector'.globals = collector.globals
  <2>1. k = IF phase = "filterGlobals" THEN collector.globals ELSE collector.allocas
    BY <1>2
  <2>2. n = IF phase = "filterGlobals" THEN collector'.globals ELSE collector'.allocas
    BY <1>2
  <2> HIDE DEF kept, new
  <2> QED
    BY <1>2, <2>1, <2>2, ListsTaken
<1>4. Apart(kept, queue, S)
  BY <1>0 DEF QueueInv
<1> HIDE DEF kept, new, S
<1>5. Apart(new, Tail(queue), S)
  BY <1>3, <1>4, ApartNext
<1>6. Globals' = Globals /\ Values' = Values /\ Collected' = Collected
      /\ \A f : MallocsOf(f)' = MallocsOf(f) /\ FreesOf(f)' = FreesOf(f) /\ AllocasOf(f)' = AllocasOf(f)
  BY SameOperations DEF Collected
<1>7. QueueInv'
  <2>1. queue' \in Seq(Values') /\ verdict' = "idle"
    BY <1>1, <1>6
  <2>2. phase = "filterGlobals" => Apart(collector'.globals, queue', Globals')
    BY <1>5, <1>6 DEF new, S
  <2>3. phase = "filterAllocas" => Apart(collector'.allocas, queue', AllocasOf(Head(todo))')
    BY <1>5, <1>6 DEF new, S
  <2>4. phase = "filterAllocas" => Apart(collector'.globals, <<>>, Globals')
    BY <1>0, <1>3, <1>6, Zenon DEF QueueInv
  <2> QED
    BY <1>0, <2>1, <2>2, <2>3, <2>4 DEF QueueInv, Apart, NoRepeats
<1>8. ListsInv'
  <2>1. phase = "filterAllocas" => HeapLists(Head(todo), collector)'
    BY <1>0, <1>3, <1>6 DEF ListsInv, HeapLists
  <2> QED
    BY <1>0, <1>3, <1>6, <2>1 DEF ListsInv
<1>9. TodoInv'
  BY <1>0, TodoSame
<1>10. CallbacksInv'
  BY <1>0, CallbacksSame
<1> QED
  BY <1>0, <1>7, <1>8, <1>9, <1>10, ModuleSame DEF Inv, PassInv

LEMMA StepKeepUnasked ==
  ASSUME Inv, KeepUnasked
  PROVE  Inv'
<1>1. /\ Filtering /\ queue # <<>> /\ verdict = "idle" /\ queue' = Tail(queue) /\ UNCHANGED filterVars
      /\ collector' = [collector EXCEPT ![KeptList] = Append(@, Head(queue))]
      /\ UNCHANGED <<conf, phase, todo, functionMap, callbacks>>
  BY DEF KeepUnasked
<1>2. prog' = prog /\ verdict' = "idle"
  BY <1>1 DEF filterVars
<1>3. SearchInv'
  BY <1>1, InvFacts, SearchSame
<1> QED
  BY <1>1, <1>2, <1>3, HeadTaken

LEMMA StepFilterAnswers ==
  ASSUME Inv, FilterAnswers
  PROVE  Inv'
<1>1. /\ Filtering /\ verdict # "idle" /\ queue' = Tail(queue) /\ verdict' = "idle" /\ chain' = <<>> /\ acts' = <<>>
      /\ collector' = collector \/ collector' = [collector EXCEPT ![KeptList] = Append(@, Head(queue))]
      /\ UNCHANGED <<prog, conf, phase, todo, functionMap, callbacks>>
  BY DEF FilterAnswers
<1>2. queue # <<>>
  BY <1>1, InvFacts DEF QueueInv
<1>3. SearchInv'
  BY <1>1, StepIdle
<1> QED
  BY <1>1, <1>2, <1>3, HeadTaken

LEMMA StepEndGlobals ==
  ASSUME Inv, EndGlobals
  PROVE  Inv'
<1>0. /\ ValidModule(prog) /\ ValidOperations(prog) /\ QueueInv /\ ListsInv /\ TodoInv /\ CallbacksInv /\ SearchInv
  BY InvFacts
<1>1. /\ phase = "filterGlobals" /\ queue = <<>> /\ phase' = "find" /\ todo' = DefinitionsInOrder
      /\ UNCHANGED filterVars /\ UNCHANGED <<prog, verdict, conf, queue, collector, functionMap, callbacks>>
  BY DEF EndGlobals, filterVars
<1>2. Globals' = Globals /\ Values' = Values /\ Collected' = Collected /\ Definitions' = Definitions
      /\ \A f : MallocsOf(f)' = MallocsOf(f) /\ FreesOf(f)' = FreesOf(f) /\ AllocasOf(f)' = AllocasOf(f)
  BY <1>1, SameOperations DEF Collected
<1>3. QueueInv'
  <2>1. Apart(collector.globals, <<>>, Globals)
    BY <1>0, <1>1 DEF QueueInv
  <2> QED
    BY <1>0, <1>1, <1>2, <2>1 DEF QueueInv, Apart, NoRepeats
<1>4. ListsInv'
  BY <1>0, <1>1, <1>2 DEF ListsInv
<1>5. TodoInv'
  <2>1. Listing(todo', Definitions)
    BY <1>0, <1>1, DefinitionsListed
  <2>2. todo' \in Seq(Definitions) /\ NoRepeats(todo') /\ Definitions \subseteq ToSet(todo')
    BY <2>1 DEF Listing, NoRepeats, ToSet
  <2>3. \A f \in DOMAIN functionMap : ListsOf(f, functionMap[f])
    BY <1>0 DEF TodoInv
  <2>4. ASSUME NEW f \in DOMAIN functionMap' PROVE ListsOf(f, functionMap[f])'
    BY <1>1, <1>2, <2>3 DEF ListsOf, HeapLists
  <2> QED
    BY <1>1, <1>2, <2>2, <2>4 DEF TodoInv, NoRepeats
<1>6. CallbacksInv'
  BY <1>0, <1>1, CallbacksNone DEF CallbacksInv
<1>7. SearchInv'
  BY <1>0, <1>1, SearchSame
<1> QED
  BY <1>0, <1>1, <1>3, <1>4, <1>5, <1>6, <1>7, ModuleSame DEF Inv, PassInv

LEMMA StepFindInFunction ==
  ASSUME Inv, FindInFunction
  PROVE  Inv'
<1> DEFINE f == Head(todo)
           c == collect(f)
           S == {a \in ToSet(c.allocas) : ~FilteredAlloca(a, c.mallocs)}
           ends == \E m \in Mallocs(f) : conf.heap /\ CookieError(m)
<1>0. /\ ValidModule(prog) /\ ValidOperations(prog) /\ QueueInv /\ ListsInv /\ TodoInv /\ CallbacksInv /\ SearchInv
  BY InvFacts
<1>1. /\ phase = "find" /\ todo # <<>>
      /\ UNCHANGED filterVars /\ UNCHANGED <<prog, verdict, conf, todo, functionMap, callbacks>>
      /\ \/ phase' = "exit" /\ UNCHANGED <<queue, collector>>
         \/ ~ends /\ phase' = "filterAllocas" /\ queue' = InOrder(S) /\ collector' = [c EXCEPT !.allocas = <<>>]
  BY Zenon DEF FindInFunction, filterVars
<1>2. Globals' = Globals /\ Values' = Values /\ Collected' = Collected /\ Definitions' = Definitions
      /\ \A g : MallocsOf(g)' = MallocsOf(g) /\ FreesOf(g)' = FreesOf(g) /\ AllocasOf(g)' = AllocasOf(g)
  BY <1>1, SameOperations DEF Collected
<1>3. verdict = "idle" /\ Apart(collector.globals, <<>>, Globals) /\ queue \in Seq(Values) /\ collector \in Collected
      /\ collector.allocas = <<>> /\ collector.mallocs = <<>> /\ collector.frees = <<>>
  BY <1>0, <1>1 DEF QueueInv, ListsInv, Filtering
<1>4. SearchInv'
  BY <1>0, <1>1, SearchSame
<1>5. TodoInv'
  BY <1>0, <1>1, TodoSame
<1>6. CallbacksInv'
  BY <1>0, <1>1, CallbacksSame DEF Collecting
<1>7. CASE phase' = "exit" /\ UNCHANGED <<queue, collector>>
  <2>1. QueueInv' /\ ListsInv'
    BY <1>1, <1>2, <1>3, <1>7 DEF QueueInv, ListsInv, Filtering
  <2> QED
    BY <1>0, <1>1, <1>4, <1>5, <1>6, <1>7, <2>1, ModuleSame DEF Inv, PassInv
<1>8. CASE ~ends /\ phase' = "filterAllocas" /\ queue' = InOrder(S) /\ collector' = [c EXCEPT !.allocas = <<>>]
  <2>1. /\ c \in Collected /\ c.globals = collector.globals
        /\ HeapLists(f, c) /\ ToSet(c.allocas) \subseteq AllocasOf(f)
    BY <1>0, <1>3, <1>8, CollectLists
  <2>2. S \subseteq AllocasOf(f)
    BY <2>1
  <2>3. AllocasOf(f) \subseteq Values /\ \A v \in AllocasOf(f) : Val(v).kind \in {"call", "alloca"}
    BY DEF AllocasOf, OfKind, InFunction
  <2> HIDE DEF S, c
  <2>4. Listing(queue', S)
    BY <1>0, <1>8, <2>2, <2>3, InOrderLists
  <2>5. Apart(<<>>, queue', AllocasOf(f)) /\ Apart(<<>>, queue', Values)
    BY <2>2, <2>3, <2>4, ApartStart
  <2>6. /\ collector' \in Collected /\ collector'.globals = collector.globals /\ collector'.allocas = <<>>
        /\ collector'.mallocs = c.mallocs /\ collector'.frees = c.frees
    <3>1. <<>> \in Seq(Values)
      BY EmptySeq
    <3> QED
      BY <1>8, <2>1, <3>1 DEF Collected
  <2> HIDE DEF f
  <2>7. HeapLists(f, collector')
    BY <2>1, <2>6 DEF HeapLists
  <2>8. QueueInv'
    <3>1. Apart(collector'.globals, <<>>, Globals') /\ Apart(collector'.allocas, queue', AllocasOf(Head(todo))')
      BY <1>1, <1>2, <1>3, <2>5, <2>6 DEF f
    <3>2. queue' \in Seq(Values') /\ verdict' = "idle"
      BY <1>1, <1>2, <1>3, <2>5 DEF Apart
    <3> QED
      BY <1>8, <3>1, <3>2 DEF QueueInv, Apart, NoRepeats
  <2>9. ListsInv'
    <3>1. HeapLists(Head(todo), collector)'
      BY <1>1, <1>2, <2>7 DEF f, HeapLists
    <3> QED
      BY <1>1, <1>2, <1>8, <2>6, <3>1 DEF ListsInv
  <2> QED
    BY <1>0, <1>1, <1>4, <1>5, <1>6, <1>8, <2>8, <2>9, ModuleSame DEF Inv, PassInv
<1> QED
  BY <1>1, <1>7, <1>8

LEMMA StepStoreFunctionData ==
  ASSUME Inv, StoreFunctionData
  PROVE  Inv'
<1> DEFINE f == Head(todo)
           stored == [g \in DOMAIN functionMap \cup {f} |-> IF g = f THEN collector ELSE functionMap[g]]
<1>0. /\ ValidModule(prog) /\ ValidOperations(prog) /\ QueueInv /\ ListsInv /\ TodoInv /\ CallbacksInv /\ SearchInv
  BY InvFacts
<1>1. /\ phase = "filterAllocas" /\ queue = <<>> /\ functionMap' = stored /\ collector' = clear(collector)
      /\ phase' = "find" /\ todo' = Tail(todo)
      /\ UNCHANGED filterVars /\ UNCHANGED <<prog, verdict, conf, queue, callbacks>>
  BY Zenon DEF StoreFunctionData, filterVars
<1>2. Globals' = Globals /\ Values' = Values /\ Collected' = Collected /\ Definitions' = Definitions
      /\ \A g : MallocsOf(g)' = MallocsOf(g) /\ FreesOf(g)' = FreesOf(g) /\ AllocasOf(g)' = AllocasOf(g)
  BY <1>1, SameOperations DEF Collected
<1>3. /\ verdict = "idle" /\ Apart(collector.globals, <<>>, Globals) /\ queue \in Seq(Values)
      /\ collector \in Collected /\ todo # <<>> /\ HeapLists(f, collector)
      /\ Apart(collector.allocas, queue, AllocasOf(f))
  BY <1>0, <1>1 DEF QueueInv, ListsInv
<1>4. ListsOf(f, collector)
  BY <1>3 DEF ListsOf, Apart
<1>5. /\ collector' \in Collected /\ collector'.globals = collector.globals /\ collector'.allocas = <<>>
      /\ collector'.mallocs = <<>> /\ collector'.frees = <<>>
  <2>1. <<>> \in Seq(Values) /\ <<>> \in Seq(Blocks)
    BY EmptySeq
  <2> QED
    BY <1>1, <1>3, <2>1 DEF clear, Collected
<1>6. /\ f \in Definitions /\ todo' \in Seq(Definitions) /\ NoRepeats(todo')
      /\ ToSet(todo) = {f} \cup ToSet(todo')
  BY <1>0, <1>1, <1>3, HeadAndTail, TailRepeatsNot DEF TodoInv
<1>7. QueueInv'
  BY <1>1, <1>2, <1>3, <1>5 DEF QueueInv, Apart, NoRepeats
<1>8. ListsInv'
  BY <1>1, <1>2, <1>5 DEF ListsInv
<1>9. TodoInv'
  <2>1. \A g \in DOMAIN functionMap' : ListsOf(g, functionMap'[g])
    <3>1. ASSUME NEW g \in DOMAIN functionMap' PROVE ListsOf(g, functionMap'[g])
      <4>1. CASE g = f
        BY <1>1, <1>4, <4>1
      <4>2. CASE g # f
        BY <1>0, <1>1, <4>2 DEF TodoInv
      <4> QED
        BY <4>1, <4>2
    <3> QED
      BY <3>1
  <2>2. ASSUME NEW g \in DOMAIN functionMap' PROVE ListsOf(g, functionMap[g])'
    BY <1>2, <2>1 DEF ListsOf, HeapLists
  <2>3. Definitions \subseteq DOMAIN functionMap' \cup ToSet(todo')
    BY <1>0, <1>1, <1>6 DEF TodoInv
  <2> QED
    BY <1>1, <1>2, <1>6, <2>2, <2>3 DEF TodoInv, NoRepeats
<1>10. CallbacksInv'
  BY <1>0, <1>1, CallbacksNone DEF CallbacksInv
<1>11. SearchInv'
  BY <1>0, <1>1, SearchSame
<1> QED
  BY <1>0, <1>1, <1>7, <1>8, <1>9, <1>10, <1>11, ModuleSame DEF Inv, PassInv

LEMMA StepEndFind ==
  ASSUME Inv, EndFind
  PROVE  Inv'
<1> DEFINE flat == GlobalFlat(collector.globals)
<1>0. /\ ValidModule(prog) /\ ValidOperations(prog) /\ QueueInv /\ ListsInv /\ TodoInv /\ CallbacksInv /\ SearchInv
  BY InvFacts
<1>1. /\ phase = "find" /\ todo = <<>> /\ phase' = "instrument" /\ todo' = DefinitionsInOrder
      /\ UNCHANGED filterVars /\ UNCHANGED <<prog, verdict, conf, queue, collector, functionMap>>
  BY DEF EndFind, filterVars
<1>2. callbacks' = <<>> \/ callbacks' = flat
  BY Zenon DEF EndFind, GlobalFlat
<1>3. Values' = Values /\ Collected' = Collected /\ Definitions' = Definitions
      /\ \A g : MallocsOf(g)' = MallocsOf(g) /\ FreesOf(g)' = FreesOf(g) /\ AllocasOf(g)' = AllocasOf(g)
  BY <1>1, SameOperations DEF Collected
<1>4. QueueInv'
  <2>1. verdict = "idle" /\ queue \in Seq(Values)
    BY <1>0, <1>1 DEF QueueInv, Filtering
  <2> QED
    BY <1>1, <1>3, <2>1 DEF QueueInv
<1>5. ListsInv'
  BY <1>0, <1>1, <1>3 DEF ListsInv
<1>6. TodoInv'
  <2>1. Listing(todo', Definitions)
    BY <1>0, <1>1, DefinitionsListed
  <2>2. todo' \in Seq(Definitions) /\ NoRepeats(todo')
    BY <2>1 DEF Listing, NoRepeats
  <2>3. ToSet(todo) = {}
    BY <1>1, NoneOnce
  <2>4. Definitions \subseteq DOMAIN functionMap /\ \A f \in DOMAIN functionMap : ListsOf(f, functionMap[f])
    BY <1>0, <1>1, <2>3 DEF TodoInv
  <2>5. ASSUME NEW f \in DOMAIN functionMap' PROVE ListsOf(f, functionMap[f])'
    BY <1>1, <1>3, <2>4 DEF ListsOf, HeapLists
  <2> QED
    BY <1>1, <1>3, <2>2, <2>4, <2>5 DEF TodoInv, NoRepeats
<1>7. CallbacksInv'
  <2>1. flat \in Seq(GlobalOf) /\ Once(flat)
    BY <1>0, <1>1, GlobalFlatOnce DEF QueueInv, Apart
  <2>2. GlobalOf' = GlobalOf
    BY <1>1, SameCallbacks
  <2> HIDE DEF flat
  <2>3. callbacks' \in Seq(GlobalOf) /\ Once(callbacks')
    BY <1>2, <2>1, NoneOnce, EmptySeq, Zenon
  <2>4. callbacks' \in Seq(GlobalOf' \cup UNION {CallbacksOf(f)' : f \in Definitions' \ ToSet(todo')})
    BY <2>2, <2>3, SeqMonotonic
  <2> QED
    BY <1>1, <2>3, <2>4 DEF CallbacksInv, Once
<1>8. SearchInv'
  BY <1>0, <1>1, SearchSame
<1> QED
  BY <1>0, <1>1, <1>4, <1>5, <1>6, <1>7, <1>8, ModuleSame DEF Inv, PassInv

LEMMA StepInstrumentFunction ==
  ASSUME Inv, InstrumentFunction
  PROVE  Inv'
<1> DEFINE f == Head(todo)
           heap == HeapAdded(f, functionMap[f])
           stack == StackAdded(f, functionMap[f])
           Done == GlobalOf \cup UNION {CallbacksOf(g) : g \in Definitions \ ToSet(todo)}
<1>0. /\ ValidModule(prog) /\ ValidOperations(prog) /\ QueueInv /\ ListsInv /\ TodoInv /\ CallbacksInv /\ SearchInv
  BY InvFacts
<1>1. /\ phase = "instrument" /\ todo # <<>> /\ todo' = Tail(todo)
      /\ UNCHANGED filterVars /\ UNCHANGED <<prog, verdict, conf, phase, queue, collector, functionMap>>
  BY DEF InstrumentFunction, filterVars
<1>2. callbacks' = callbacks \o heap \o stack
  BY Zenon DEF InstrumentFunction, HeapAdded, StackAdded, HeapFlat, FreeFlat, StackFlat
<1>3. Values' = Values /\ Collected' = Collected /\ Definitions' = Definitions
      /\ \A g : MallocsOf(g)' = MallocsOf(g) /\ FreesOf(g)' = FreesOf(g) /\ AllocasOf(g)' = AllocasOf(g)
  BY <1>1, SameOperations DEF Collected
<1>4. /\ f \in Definitions /\ todo' \in Seq(Definitions) /\ NoRepeats(todo')
      /\ ToSet(todo) = {f} \cup ToSet(todo') /\ f \notin ToSet(todo')
  BY <1>0, <1>1, HeadAndTail, TailRepeatsNot DEF TodoInv
<1>5. ListsOf(f, functionMap[f])
  BY <1>0, <1>1, <1>4 DEF TodoInv
<1>6. QueueInv' /\ ListsInv'
  BY <1>0, <1>1, <1>3 DEF QueueInv, ListsInv, Filtering
<1>7. TodoInv'
  <2>1. ASSUME NEW g \in DOMAIN functionMap' PROVE ListsOf(g, functionMap[g])'
    BY <1>0, <1>1, <1>3 DEF TodoInv, ListsOf, HeapLists
  <2> QED
    BY <1>0, <1>1, <1>3, <1>4, <2>1 DEF TodoInv, NoRepeats
<1>8. CallbacksInv'
  <2>1. heap \o stack \in Seq(CallbacksOf(f)) /\ Once(heap \o stack)
        /\ heap \in Seq(CallbacksOf(f)) /\ stack \in Seq(CallbacksOf(f))
    BY <1>0, <1>5, AddedOnce
  <2>2. Different(Done, CallbacksOf(f))
    BY <1>0, <1>4, FunctionsApart
  <2>3. callbacks \in Seq(Done) /\ Once(callbacks)
    BY <1>0 DEF CallbacksInv
  <2> HIDE DEF heap, stack, Done
  <2>4. /\ callbacks \o (heap \o stack) \in Seq(Done \cup CallbacksOf(f)) /\ Once(callbacks \o (heap \o stack))
    BY <2>1, <2>2, <2>3, ConcatOnce
  <2>5. (callbacks \o heap) \o stack = callbacks \o (heap \o stack)
    <3>1. /\ callbacks \in Seq(Done \cup CallbacksOf(f)) /\ heap \in Seq(Done \cup CallbacksOf(f))
          /\ stack \in Seq(Done \cup CallbacksOf(f))
      BY <2>1, <2>3, SeqMonotonic
    <3> QED
      BY <3>1, ConcatAssociative
  <2>6. callbacks' \in Seq(Done \cup CallbacksOf(f)) /\ Once(callbacks')
    BY <1>2, <2>4, <2>5
  <2>7. Done \cup CallbacksOf(f) \subseteq GlobalOf \cup UNION {CallbacksOf(g) : g \in Definitions \ ToSet(todo')}
    BY <1>4 DEF Done
  <2>8. callbacks' \in Seq(GlobalOf \cup UNION {CallbacksOf(g) : g \in Definitions \ ToSet(todo')})
    BY <2>6, <2>7, SeqMonotonic
  <2>9. (GlobalOf \cup UNION {CallbacksOf(g) : g \in Definitions \ ToSet(todo)})'
        = GlobalOf \cup UNION {CallbacksOf(g) : g \in Definitions \ ToSet(todo')}
    BY <1>1, <1>3, SameCallbacks
  <2> QED
    BY <1>1, <2>6, <2>8, <2>9 DEF CallbacksInv, Once
<1>9. SearchInv'
  BY <1>0, <1>1, SearchSame
<1> QED
  BY <1>0, <1>1, <1>6, <1>7, <1>8, <1>9, ModuleSame DEF Inv, PassInv

LEMMA StepEndPass ==
  ASSUME Inv, EndPass
  PROVE  Inv'
<1>0. /\ ValidModule(prog) /\ ValidOperations(prog) /\ QueueInv /\ ListsInv /\ TodoInv /\ CallbacksInv /\ SearchInv
  BY InvFacts
<1>1. /\ phase = "instrument" /\ phase' = "done"
      /\ UNCHANGED filterVars
      /\ UNCHANGED <<prog, verdict, conf, todo, queue, collector, functionMap, callbacks>>
  BY DEF EndPass, filterVars
<1>2. Values' = Values /\ Collected' = Collected
  BY <1>1, SameOperations DEF Collected
<1>3. QueueInv' /\ ListsInv'
  BY <1>0, <1>1, <1>2 DEF QueueInv, ListsInv, Filtering
<1>4. TodoInv'
  BY <1>0, <1>1, TodoSame
<1>5. CallbacksInv'
  BY <1>0, <1>1, CallbacksSame DEF Collecting
<1>6. SearchInv'
  BY <1>0, <1>1, SearchSame
<1> QED
  BY <1>0, <1>1, <1>3, <1>4, <1>5, <1>6, ModuleSame DEF Inv, PassInv

LEMMA Starts ==
  ASSUME PassInit
  PROVE  Inv
<1>1. PICK i \in Inputs : prog = Program[i.prog]
  BY DEF PassInit
<1>2. ValidModule(prog) /\ ValidOperations(prog)
  BY <1>1, ProgramAssumption, InputsAssumption
<1>3. /\ phase = "globals" /\ todo = <<>> /\ queue = <<>> /\ collector = Nothing /\ functionMap = <<>>
      /\ callbacks = <<>> /\ verdict = "idle" /\ chain = <<>> /\ acts = <<>>
  BY DEF PassInit, Idle
<1>4. /\ \A S : <<>> \in Seq(S)
      /\ DOMAIN <<>> = {}
  BY EmptySeq
<1>5. NoRepeats(<<>>) /\ Once(<<>>)
  BY <1>4 DEF NoRepeats, Once
<1>6. QueueInv /\ TodoInv /\ CallbacksInv
  BY <1>3, <1>4, <1>5 DEF QueueInv, TodoInv, CallbacksInv
<1>7. ListsInv
  BY <1>3, <1>4 DEF ListsInv, Nothing, Collected
<1>8. NoneAgain(chain, start)
  BY <1>3, <1>4 DEF NoneAgain
<1>9. SearchInv
  BY <1>3, <1>4, <1>8 DEF SearchInv
<1> QED
  BY <1>2, <1>3, <1>6, <1>7, <1>9 DEF Inv, PassInv

LEMMA Stutters ==
  ASSUME Inv, UNCHANGED vars
  PROVE  Inv'
<1>0. /\ ValidModule(prog) /\ ValidOperations(prog) /\ QueueInv /\ ListsInv /\ TodoInv /\ CallbacksInv /\ SearchInv
      /\ phase \in {"globals", "filterGlobals", "find", "filterAllocas", "instrument", "done", "exit"}
  BY InvFacts
<1>1. /\ UNCHANGED filterVars
      /\ UNCHANGED <<prog, verdict, conf, phase, todo, queue, collector, functionMap, callbacks>>
  BY DEF vars, passVars, filterVars
<1>2. QueueInv'
  BY <1>0, <1>1, QueueSame DEF QueueInv
<1> QED
  BY <1>0, <1>1, <1>2, ListsSame, TodoSame, CallbacksSame, SearchSame, ModuleSame DEF Inv, PassInv

LEMMA InvInductive ==
  ASSUME Inv, [Next]_vars
  PROVE  Inv'
<1>1. CASE FindGlobals
  BY <1>1, StepFindGlobals
<1>2. CASE AskFilter
  BY <1>2, StepAskFilter
<1>3. CASE KeepUnasked
  BY <1>3, StepKeepUnasked
<1>4. CASE FilterAnswers
  BY <1>4, StepFilterAnswers
<1>5. CASE EndGlobals
  BY <1>5, StepEndGlobals
<1>6. CASE FindInFunction
  BY <1>6, StepFindInFunction
<1>7. CASE StoreFunctionData
  BY <1>7, StepStoreFunctionData
<1>8. CASE EndFind
  BY <1>8, StepEndFind
<1>9. CASE InstrumentFunction
  BY <1>9, StepInstrumentFunction
<1>10. CASE EndPass
  BY <1>10, StepEndPass
<1>11. CASE Search
  BY <1>11, StepSearch
<1>12. CASE UNCHANGED vars
  BY <1>12, Stutters
<1> QED
  BY <1>1, <1>2, <1>3, <1>4, <1>5, <1>6, <1>7, <1>8, <1>9, <1>10, <1>11, <1>12 DEF Next

\* The inductive invariant holds of every module and all options.
THEOREM PassInvariant == Spec => []Inv
<1>1. PassInit => Inv
  BY Starts
<1>2. Inv /\ [Next]_vars => Inv'
  BY InvInductive
<1> QED
  BY <1>1, <1>2, PTL DEF Spec

\* The chain of the call filter is that of the functions it is in, and recursion
\* ends the search.
THEOREM ChainFollowsCalls == Spec => []ChainMatchesCalls
<1>1. Inv => ChainMatchesCalls
  BY InvFacts, SearchInvSuffices
<1> QED
  BY <1>1, PassInvariant, PTL

\* Every operation gets its callback once, whatever the functions of the module
\* and the options.
THEOREM InstrumentedOnce == Spec => []OncePerOperation
<1>1. Inv => OncePerOperation
  BY InvFacts DEF CallbacksInv, Once, Same, OncePerOperation
<1> QED
  BY <1>1, PassInvariant, PTL

-----------------------------------------------------------------------------
(* What a heap callback says of the block.                                 *)

LEMMA Quotient ==
  ASSUME NEW n \in Nat, NEW s \in Nat \ {0}
  PROVE  (n \div s) * s <= n /\ n - (n \div s) * s < s
OBVIOUS

\* The first cast of a block is one of them.
LEMMA FirstOfIsOne ==
  ASSUME ValidModule(prog), ValidOperations(prog), NEW S, S \subseteq Values, S # {}
  PROVE  FirstOf(S) \in S
<1> DEFINE after(v) == {w \in S : Val(w).at > Val(v).at}
           counts == {Cardinality(after(v)) : v \in S}
<1>1. IsFiniteSet(S)
  BY ModuleFacts, FS_Subset
<1>2. \A v \in S : Val(v).at \in Nat
  BY OperationFacts
<1>3. \A v \in S : after(v) \subseteq S /\ v \notin after(v)
  BY <1>2
<1>4. \A v, w \in S : w \in after(v) => after(w) \subseteq after(v)
  BY <1>2
<1>5. \A v, w \in S : w \notin after(v) => Val(w).at <= Val(v).at
  BY <1>2
<1> HIDE DEF after
<1>6. ASSUME NEW v \in S PROVE IsFiniteSet(after(v)) /\ Cardinality(after(v)) \in Nat
  BY <1>1, <1>3, FS_Subset, FS_CardinalityType
<1>7. PICK least \in counts : \A k \in counts : least <= k
  <2>1. counts \subseteq Nat /\ counts # {}
    BY <1>6
  <2> HIDE DEF counts
  <2> QED
    BY <2>1, LeastNatural
<1>8. PICK v \in S : Cardinality(after(v)) = least
  BY <1>7
<1>9. ASSUME NEW w \in S, w \in after(v) PROVE FALSE
  <2>1. after(w) \subseteq after(v) \ {w}
    BY <1>3, <1>4, <1>9
  <2>2. IsFiniteSet(after(v) \ {w}) /\ Cardinality(after(v) \ {w}) = Cardinality(after(v)) - 1
    BY <1>6, <1>9, FS_RemoveElement
  <2>3. Cardinality(after(w)) <= Cardinality(after(v) \ {w})
    BY <2>1, <2>2, FS_Subset
  <2>4. least <= Cardinality(after(w))
    BY <1>7
  <2>5. Cardinality(after(w)) \in Nat /\ Cardinality(after(v)) \in Nat
    BY <1>6
  <2> QED
    BY <1>8, <2>2, <2>3, <2>4, <2>5
<1>10. \A w \in S : Val(w).at <= Val(v).at
  BY <1>5, <1>9
<1> QED
  BY <1>10 DEF FirstOf

\* The users of a value, and the casts among them.
LEMMA UserFacts ==
  ASSUME ValidModule(prog), NEW v \in Values
  PROVE  /\ Users(v) \subseteq Values
         /\ \A k : OfKind(Users(v), k) \subseteq Values
         /\ CastsOf(v) \subseteq Values /\ \A b \in CastsOf(v) : Val(b).kind = "bitcast"
<1>1. Users(v) \subseteq Values
  BY ModuleFacts DEF Users
<1> QED
  BY <1>1 DEF CastsOf, OfKind

LEMMA StoreFacts ==
  ASSUME ValidModule(prog), NEW s \in Values, Val(s).kind = "store"
  PROVE  LoadsOf(s) \subseteq Values /\ \A l \in LoadsOf(s) : CastsOf(l) # {}
<1>1. Len(Val(s).ops) = 2 /\ Val(s).ops \in Seq(Values)
  BY ModuleFacts DEF IsStore
<1>2. Pointer(s) \in Values
  BY <1>1, ElementOfSeq DEF Pointer
<1> QED
  BY <1>2, UserFacts DEF LoadsOf

\* The casts of a block.
LEMMA CastFacts ==
  ASSUME ValidModule(prog), NEW c \in Values
  PROVE  MallocBcasts(c) \subseteq Values /\ \A b \in MallocBcasts(c) : Val(b).kind = "bitcast"
<1>1. ASSUME NEW u \in Users(c), NEW b \in CastsBy(u) PROVE b \in Values /\ Val(b).kind = "bitcast"
  <2>1. u \in Values
    BY UserFacts
  <2>2. CASE Val(u).kind = "bitcast"
    BY <2>1, <2>2 DEF CastsBy
  <2>3. CASE Val(u).kind = "store"
    <3>1. PICK l \in LoadsOf(u) : b \in CastsOf(l)
      BY <2>3 DEF CastsBy
    <3>2. l \in Values
      BY <2>1, <2>3, StoreFacts
    <3> QED
      BY <3>1, <3>2, UserFacts
  <2>4. CASE Val(u).kind \notin {"bitcast", "store"}
    BY <2>4 DEF CastsBy
  <2> QED
    BY <2>2, <2>3, <2>4
<1> QED
  BY <1>1 DEF MallocBcasts

\* The one that is found first is one of them.
LEMMA FirstCastIsOne ==
  ASSUME ValidModule(prog), ValidOperations(prog), NEW c \in Values, MallocBcasts(c) # {}
  PROVE  FirstCast(c) \in MallocBcasts(c)
<1> DEFINE S == {x \in Users(c) : CastsBy(x) # {}}
           u == FirstOf(S)
           l == FirstOf(LoadsOf(u))
<1>1. S \subseteq Values /\ S # {}
  BY UserFacts DEF MallocBcasts
<1>2. u \in S
  <2> HIDE DEF S
  <2> QED
    BY <1>1, FirstOfIsOne
<1>3. FirstCast(c) = IF Val(u).kind = "bitcast" THEN u ELSE FirstOf(CastsOf(l))
  BY Zenon DEF FirstCast
<1>4. u \in Values /\ u \in Users(c) /\ CastsBy(u) # {}
  BY <1>1, <1>2
<1> HIDE DEF S, u
<1>5. FirstCast(c) \in CastsBy(u)
  <2>1. CASE Val(u).kind = "bitcast"
    BY <1>3, <2>1 DEF CastsBy
  <2>2. CASE Val(u).kind = "store"
    <3>1. LoadsOf(u) # {} /\ CastsBy(u) = UNION {CastsOf(x) : x \in LoadsOf(u)}
      BY <1>4, <2>2 DEF CastsBy
    <3>2. LoadsOf(u) \subseteq Values /\ \A x \in LoadsOf(u) : CastsOf(x) # {}
      BY <1>4, <2>2, StoreFacts
    <3>3. l \in LoadsOf(u)
      BY <3>1, <3>2, FirstOfIsOne
    <3> HIDE DEF l
    <3>4. CastsOf(l) \subseteq Values /\ CastsOf(l) # {}
      BY <3>2, <3>3, UserFacts
    <3>5. FirstOf(CastsOf(l)) \in CastsOf(l)
      BY <3>4, FirstOfIsOne
    <3>6. FirstCast(c) = FirstOf(CastsOf(l))
      BY <1>3, <2>2
    <3> QED
      BY <3>1, <3>3, <3>5, <3>6
  <2>3. CASE Val(u).kind \notin {"bitcast", "store"}
    BY <1>4, <2>3 DEF CastsBy
  <2> QED
    BY <2>1, <2>2, <2>3
<1> QED
  BY <1>4, <1>5 DEF MallocBcasts

\* The second cast of an array with a cookie is one.
LEMMA CookieFacts ==
  ASSUME ValidModule(prog), ValidOperations(prog), NEW c \in Values, MallocGeps(c) # {}, NEW k \in Cookies(c)
  PROVE  k.cast \in Values /\ Val(k.cast).kind = "bitcast"
<1> DEFINE array == FirstOf(MallocGeps(c))
<1>1. k.cast \in SingleUser(array, "bitcast")
  BY DEF Cookies
<1>2. array \in MallocGeps(c) /\ MallocGeps(c) \subseteq Values
  <2>1. MallocGeps(c) \subseteq Values
    BY UserFacts DEF MallocGeps
  <2> QED
    BY <2>1, FirstOfIsOne
<1> HIDE DEF array
<1>3. Uses(array) \in SUBSET (Values \X Nat)
  BY <1>2, ModuleFacts
<1>4. \A use \in Uses(array) : use[1] \in Values
  BY <1>3
<1> QED
  BY <1>1, <1>4 DEF SingleUser, OfKind

\* A block that is collected, and what it is taken for.
LEMMA BlockShape ==
  ASSUME ValidModule(prog), ValidOperations(prog), NEW c \in Values, ~CookieError(c)
  PROVE  LET m == MallocData(c) IN
         /\ m.call = c
         /\ m.primary = "none" => BlockType(m) = Byte
         /\ m.primary # "none" => /\ m.primary \in Values /\ Val(m.primary).kind = "bitcast"
                                  /\ BlockType(m) = Val(m.primary).type
         /\ m.cookie # <<>> => m.primary # "none" /\ m.primary = m.cookie[1].cast
<1> DEFINE m == MallocData(c)
<1>1. m.call = c
  BY BlockOf
<1>2. CASE MallocGeps(c) = {}
  <2>1. m.cookie = <<>> /\ m.primary = IF MallocBcasts(c) = {} THEN "none" ELSE FirstCast(c)
    BY <1>2, Zenon DEF MallocData
  <2>2. MallocBcasts(c) # {} =>
          FirstCast(c) \in Values /\ Val(FirstCast(c)).kind = "bitcast"
    BY CastFacts, FirstCastIsOne
  <2> HIDE DEF m
  <2> QED
    BY <1>1, <2>1, <2>2 DEF BlockType, m
<1>3. CASE MallocGeps(c) # {}
  <2> DEFINE k == CHOOSE x \in Cookies(c) : TRUE
  <2>1. m.cookie = <<k>> /\ m.primary = k.cast
    BY <1>3, Zenon DEF MallocData
  <2>2. k \in Cookies(c)
    BY <1>3 DEF CookieError
  <2> HIDE DEF m, k
  <2>3. k.cast \in Values /\ Val(k.cast).kind = "bitcast"
    BY <1>3, <2>2, CookieFacts
  <2>4. k.cast # "none"
    BY <2>3, ModuleFacts
  <2> QED
    BY <1>1, <2>1, <2>3, <2>4 DEF BlockType, m
<1> QED
  BY <1>2, <1>3

\* A heap callback is that of a block of some function.
LEMMA HeapCallbackOf ==
  ASSUME Inv, NEW i \in DOMAIN callbacks, HeapReport(callbacks[i])
  PROVE  \E f : \E c \in Mallocs(f) :
           LET d == callbacks[i]
               m == MallocData(c)
           IN  /\ ~CookieError(c) /\ d.op = c /\ d.count = ElementCount(m)
               /\ d.id = BlockType(m).id /\ d.id # UnknownType /\ d.ptr = ReportedPointer(m)
<1> DEFINE d == callbacks[i]
           All == GlobalOf \cup UNION {CallbacksOf(f) : f \in Definitions \ ToSet(todo)}
<1>0. ValidModule(prog) /\ ValidOperations(prog)
  BY InvFacts
<1>1. d \in All
  <2>1. callbacks \in Seq(All)
    BY InvFacts DEF CallbacksInv
  <2> HIDE DEF All
  <2> QED
    BY <2>1, ElementOfSeq, LenProperties
<1> HIDE DEF d
<1>2. d.name \in {"heap", "heap_omp"}
  BY DEF d, HeapReport
<1>3. d \notin GlobalOf /\ \A f : d \notin FreeOf(f) /\ d \notin StackOf(f)
  BY <1>0, <1>2, CallbackKinds
<1>4. PICK f : d \in HeapOf(f)
  BY <1>1, <1>3 DEF CallbacksOf
<1>5. PICK m \in MallocsOf(f) : d \in ToSet(HeapCallbacks(f, m))
  BY <1>4 DEF HeapOf
<1>6. PICK c \in Mallocs(f) : m = MallocData(c) /\ ~CookieError(c)
  BY <1>5, Zenon DEF MallocsOf
<1>7. /\ d.op = m.call /\ d.count = ElementCount(m) /\ m.call = c
      /\ d.id = BlockType(m).id /\ d.id # UnknownType /\ d.ptr = ReportedPointer(m)
  BY <1>2, <1>5, <1>6, HeapShape, BlockOf
<1> QED
  BY <1>6, <1>7 DEF d

\* The block a program asks for is a number of bytes.
LEMMA BlockFacts ==
  ASSUME ValidModule(prog), ValidOperations(prog), NEW f, NEW c \in Mallocs(f)
  PROVE  /\ c \in Values /\ MemOp(c) \in Allocating
         /\ MemOp(c) \in {"malloc", "calloc"} => Num(Val(c).ops[1]) \in Nat
         /\ MemOp(c) # "malloc" => Num(Val(c).ops[2]) \in Nat
         /\ Val(c).address = [block |-> c, offset |-> 0]
<1>1. c \in Values /\ MemOp(c) \in Allocating
  BY DEF Mallocs, InFunction
<1>2. Val(c).kind = "call" /\ Val(c).callee # "indirect" /\ MemOp(c) = Fun(Val(c).callee).mem
  BY <1>1 DEF MemOp, IsCall, Allocating
<1> QED
  BY <1>1, <1>2, OperationFacts DEF Allocating

\* The size the pass divides by, and the size the runtime knows: they are those of one
\* element but for long double, whose values are narrower than its memory.
LEMMA SizeFacts ==
  ASSUME NEW layouts, NEW type, ValidType(layouts, type), type.id # UnknownType
  PROVE  /\ TypeSizeIn(layouts, type.id) = type.size
         /\ type.size \in Nat \ {0} /\ type.length \in Nat \ {0}
         /\ type.id = X86_FP80 => type.size = 16 /\ TypeSize(type) = 10 * type.length
         /\ type.id # X86_FP80 => TypeSize(type) = type.size * type.length
<1>1. /\ type.id \in Nat /\ type.size \in Nat \ {0} /\ type.length \in Nat \ {0}
      /\ type.bits = IF type.id + 1 \in 1..10 THEN ScalarBits[type.id + 1] ELSE 0
      /\ TypeSizeIn(layouts, type.id) = type.size
  BY DEF ValidType, ScalarBits
<1>2. type.id \in 0..9 => type.size = BuiltinSizes[type.id + 1]
  BY <1>1 DEF TypeSizeIn, isReservedType, isBuiltinType, NumReservedIds, BuiltinSizes
<1>3. CASE type.id \in 0..9
  <2>1. type.bits = ScalarBits[type.id + 1] /\ type.size = BuiltinSizes[type.id + 1]
    BY <1>1, <1>2, <1>3
  <2>2. /\ type.bits \div 8 = IF type.id = X86_FP80 THEN 10 ELSE type.size
        /\ type.bits > 0 /\ (type.id = X86_FP80 => type.size = 16)
    BY <1>3, <2>1 DEF ScalarBits, BuiltinSizes, X86_FP80
  <2> QED
    BY <1>1, <2>2 DEF TypeSize
<1>4. CASE type.id \notin 0..9
  <2>1. type.bits = 0 /\ type.id # X86_FP80
    BY <1>1, <1>4 DEF X86_FP80
  <2> QED
    BY <1>1, <2>1 DEF TypeSize
<1> QED
  BY <1>3, <1>4

\* The type a block is taken for occupies what the runtime takes it for.
LEMMA BlockTypeValid ==
  ASSUME ValidModule(prog), ValidOperations(prog), NEW c \in Values, ~CookieError(c)
  PROVE  ValidType(prog.layouts, BlockType(MallocData(c)))
<1> DEFINE m == MallocData(c)
<1>1. CASE m.primary = "none"
  <2>1. ValidType(prog.layouts, Byte)
    BY DEF ValidType, Byte, ScalarBits, UnknownType, TypeSizeIn, isReservedType, isBuiltinType, NumReservedIds,
           BuiltinSizes
  <2>2. BlockType(m) = Byte
    BY <1>1, BlockShape
  <2> QED
    BY <2>1, <2>2
<1>2. CASE m.primary # "none"
  BY <1>2, BlockShape, OperationFacts
<1> QED
  BY <1>1, <1>2

LEMMA Products ==
  ASSUME NEW n \in Nat, NEW a \in Nat, NEW b \in Nat, a <= b
  PROVE  n * a \in Nat /\ n * b \in Nat /\ n * a <= n * b
<1>1. b - a \in Nat /\ b = a + (b - a)
  OBVIOUS
<1>2. PICK more \in Nat : b = a + more
  BY <1>1
<1>3. n * b = n * a + n * more
  BY <1>2
<1>4. n * a \in Nat /\ n * more \in Nat
  OBVIOUS
<1> QED
  BY <1>3, <1>4

\* A division by the size of a type leaves a rest.
LEMMA DividedRegion ==
  ASSUME NEW bytes \in Nat, NEW layouts, NEW type, ValidType(layouts, type), type.id # UnknownType
  PROVE  LET end == (bytes \div TypeSize(type)) * type.size IN
         /\ end \in Nat
         /\ end <= bytes \/ (type.id = X86_FP80 /\ type.length = 1)
         /\ bytes - end < type.size \/ type.length > 1
<1> DEFINE whole == TypeSize(type)
           count == bytes \div whole
           size == type.size
           length == type.length
<1>1. /\ size \in Nat \ {0} /\ length \in Nat \ {0}
      /\ type.id = X86_FP80 => size = 16 /\ whole = 10 * length
      /\ type.id # X86_FP80 => whole = size * length
  BY SizeFacts
<1> HIDE DEF whole, size, length
<1>2. size * length \in Nat \ {0}
  BY <1>1
<1>3. whole \in Nat \ {0} /\ (length > 1 => whole >= size) /\ (length = 1 /\ type.id # X86_FP80 => whole = size)
  <2>1. CASE type.id = X86_FP80
    BY <1>1, <2>1
  <2>2. CASE type.id # X86_FP80
    <3>1. whole = size * length
      BY <1>1, <2>2
    <3>2. length > 1 => size * length >= size
      BY <1>1
    <3>3. length = 1 => size * length = size
      BY <1>1
    <3> QED
      BY <1>2, <2>2, <3>1, <3>2, <3>3
  <2> QED
    BY <2>1, <2>2
<1>4. count \in Nat /\ count * whole <= bytes /\ bytes - count * whole < whole
  BY <1>3, Quotient
<1> HIDE DEF count
<1>5. CASE length > 1
  <2>1. count * size \in Nat /\ count * whole \in Nat /\ count * size <= count * whole
    BY <1>1, <1>3, <1>4, <1>5, Products
  <2> QED
    BY <1>4, <1>5, <2>1 DEF count, whole, size, length
<1>6. CASE length = 1 /\ type.id # X86_FP80
  <2>1. count * size \in Nat /\ count * size <= bytes /\ bytes - count * size < size
    BY <1>1, <1>3, <1>4, <1>6
  <2> QED
    BY <2>1 DEF count, whole, size, length
<1>7. CASE length = 1 /\ type.id = X86_FP80
  <2>1. size = 16 /\ whole = 10
    BY <1>1, <1>7
  <2>2. count * size \in Nat /\ bytes - count * size < size
    BY <1>4, <2>1
  <2> QED
    BY <1>7, <2>2 DEF count, whole, size, length
<1> QED
  BY <1>1, <1>5, <1>6, <1>7

\* The region of one block.
LEMMA RegionOfBlock ==
  ASSUME ValidModule(prog), ValidOperations(prog), NEW f, NEW c \in Mallocs(f), ~CookieError(c),
         NEW d, d.op = c, d.count = ElementCount(MallocData(c)), d.id = BlockType(MallocData(c)).id,
         d.id # UnknownType, d.ptr = ReportedPointer(MallocData(c)),
         MemOp(c) = "malloc" /\ MallocData(c).cookie # <<>> => IsNewArray(MallocData(c))
  PROVE  LET m == MallocData(c)
             element == TypeSizeIn(prog.layouts, d.id)
             length == BlockType(m).length
             asked == Num(Val(c).ops[2])
         IN  /\ Val(d.ptr).address.block = c
             /\ \/ RegionEnd(d) <= BlockSize(c)
                \/ Divided(m) /\ d.id = X86_FP80 /\ length = 1
                \/ CastCalloc(m) /\ asked < element
             /\ \/ BlockSize(c) - RegionEnd(d) < element
                \/ Divided(m) /\ length > 1
                \/ CastCalloc(m) /\ asked > element
<1> DEFINE m == MallocData(c)
           type == BlockType(m)
           first == Num(Val(c).ops[1])
           second == Num(Val(c).ops[2])
           element == TypeSizeIn(prog.layouts, d.id)
           size == type.size
           count == ElementCount(m)
           offset == Val(d.ptr).address.offset
<1>1. /\ c \in Values /\ MemOp(c) \in {"malloc", "calloc", "realloc", "aligned_alloc"}
      /\ MemOp(c) \in {"malloc", "calloc"} => first \in Nat
      /\ MemOp(c) # "malloc" => second \in Nat
      /\ Val(c).address = [block |-> c, offset |-> 0]
  BY BlockFacts DEF Allocating
<1>2. /\ m.call = c
      /\ m.primary = "none" => type = Byte
      /\ m.cookie # <<>> => type = Val(m.cookie[1].cast).type
  BY <1>1, BlockShape
<1>3. ValidType(prog.layouts, type)
  BY <1>1, BlockTypeValid
<1>4. element = size /\ size \in Nat \ {0}
  BY <1>3, SizeFacts
<1>5. BlockSize(c) = CASE MemOp(c) = "calloc" -> first * second
                       [] MemOp(c) = "malloc" -> first
                       [] OTHER -> second
  BY DEF BlockSize
<1>6. count = CASE MemOp(c) = "calloc" -> IF m.primary = "none" THEN first * second ELSE first
                [] MemOp(c) = "malloc" -> IF m.cookie # <<>> THEN Num(Stored(m.cookie[1].store))
                                          ELSE first \div TypeSize(type)
                [] OTHER -> second \div TypeSize(type)
  BY <1>2 DEF ElementCount
<1>7. RegionEnd(d) = offset + count * element
  BY Zenon DEF RegionEnd
<1>8. ~(m.cookie # <<>> /\ MemOp(c) = "malloc") => d.ptr = c /\ Val(d.ptr).address.block = c /\ offset = 0
  BY <1>1, <1>2 DEF ReportedPointer
<1>9. m.primary = "none" => size = 1
  BY <1>2 DEF Byte
<1>10. m.cookie # <<>> /\ MemOp(c) = "malloc" =>
         Val(d.ptr).address.block = c /\ offset + count * size = BlockSize(c)
  <2>1. SUFFICES ASSUME m.cookie # <<>>, MemOp(c) = "malloc"
                 PROVE  Val(d.ptr).address.block = c /\ offset + count * size = BlockSize(c)
    OBVIOUS
  <2>2. d.ptr = m.cookie[1].gep /\ count = Num(Stored(m.cookie[1].store)) /\ type = Val(m.cookie[1].cast).type
    BY <1>2, <1>6, <2>1 DEF ReportedPointer
  <2>3. IsNewArray(m)
    BY <2>1
  <2> HIDE DEF m, type, count
  <2> QED
    BY <1>2, <2>2, <2>3, Zenon DEF IsNewArray
<1>11. Divided(m) <=> (MemOp(c) # "calloc" /\ (MemOp(c) = "malloc" => m.cookie = <<>>))
  BY <1>2 DEF Divided
<1>12. CastCalloc(m) <=> (MemOp(c) = "calloc" /\ m.primary # "none")
  BY <1>2 DEF CastCalloc
<1>13. \A bytes \in Nat :
         /\ (bytes \div TypeSize(type)) * size \in Nat
         /\ (bytes \div TypeSize(type)) * size <= bytes \/ (d.id = X86_FP80 /\ type.length = 1)
         /\ bytes - (bytes \div TypeSize(type)) * size < size \/ type.length > 1
  BY <1>3, DividedRegion
<1> DEFINE end == RegionEnd(d)
           all == BlockSize(c)
           narrow == d.id = X86_FP80 /\ type.length = 1
           long == type.length > 1
<1> HIDE DEF m, type, first, second, element, size, count, offset, end, all, narrow, long
<1>14. /\ Val(d.ptr).address.block = c
       /\ end <= all \/ (Divided(m) /\ narrow) \/ (CastCalloc(m) /\ second < element)
       /\ all - end < element \/ (Divided(m) /\ long) \/ (CastCalloc(m) /\ second > element)
  <2>1. CASE m.cookie # <<>> /\ MemOp(c) = "malloc"
    <3>1. end = all /\ all = first /\ first \in Nat /\ Val(d.ptr).address.block = c
      BY <1>1, <1>4, <1>5, <1>7, <1>10, <2>1 DEF end, all
    <3> QED
      BY <1>4, <3>1
  <2>2. CASE Divided(m)
    <3>1. PICK bytes \in Nat : all = bytes /\ count = bytes \div TypeSize(type)
      BY <1>1, <1>5, <1>6, <1>11, <2>2 DEF all
    <3>2. offset = 0 /\ Val(d.ptr).address.block = c
      BY <1>8, <1>11, <2>2
    <3>3. count * size \in Nat /\ (count * size <= bytes \/ narrow) /\ (bytes - count * size < size \/ long)
      BY <1>13, <3>1 DEF narrow, long
    <3>4. end = count * size
      BY <1>4, <1>7, <3>2, <3>3 DEF end
    <3> QED
      BY <1>4, <2>2, <3>1, <3>2, <3>3, <3>4
  <2>3. CASE MemOp(c) = "calloc" /\ m.primary = "none"
    <3>1. first * second \in Nat /\ count = first * second /\ all = first * second /\ size = 1 /\ offset = 0
      BY <1>1, <1>5, <1>6, <1>8, <1>9, <2>3 DEF all
    <3>2. end = first * second
      BY <1>4, <1>7, <3>1 DEF end
    <3> QED
      BY <1>4, <1>8, <2>3, <3>1, <3>2
  <2>4. CASE CastCalloc(m)
    <3>1. MemOp(c) = "calloc" /\ first \in Nat /\ second \in Nat
      BY <1>1, <1>12, <2>4
    <3>2. all = first * second /\ count = first /\ offset = 0 /\ Val(d.ptr).address.block = c
      BY <1>5, <1>6, <1>8, <1>12, <2>4, <3>1 DEF all
    <3>3. end = first * element /\ element \in Nat \ {0} /\ first * element \in Nat /\ first * second \in Nat
      BY <1>4, <1>7, <3>1, <3>2 DEF end
    <3>4. CASE second = element
      BY <3>2, <3>3, <3>4
    <3>5. CASE second < element
      <4>1. first * second <= first * element
        BY <3>1, <3>3, <3>5, Products
      <4> QED
        BY <2>4, <3>2, <3>3, <3>5, <4>1
    <3>6. CASE second > element
      <4>1. first * element <= first * second
        BY <3>1, <3>3, <3>6, Products
      <4> QED
        BY <2>4, <3>2, <3>3, <3>6, <4>1
    <3>7. second = element \/ second < element \/ second > element
      BY <3>1, <3>3
    <3> QED
      BY <3>4, <3>5, <3>6, <3>7
  <2> QED
    BY <1>11, <1>12, <2>1, <2>2, <2>3, <2>4
<1> QED
  BY <1>14 DEF m, type, second, element, end, all, narrow, long

\* What a heap callback makes the runtime track, by the runtime's own size of the type
\* (collectHeap and getTypeSize): the elements lie inside the block, but for divided
\* counts of long doubles and for callocs of elements smaller than the type; and they
\* fill it but for less than one, except for a division by the size of an array and
\* for callocs of larger elements.  Array cookies are covered where the number in
\* front of the array is that of new[].
THEOREM RegionsDescribeBlocks == Spec => []RegionsMatch
<1>1. ASSUME Inv PROVE RegionsMatch
  <2>1. SUFFICES ASSUME NEW i \in DOMAIN callbacks, HeapReport(callbacks[i]),
                        MemOp(callbacks[i].op) = "malloc" /\ MallocData(callbacks[i].op).cookie # <<>>
                          => IsNewArray(MallocData(callbacks[i].op))
                 PROVE  LET c == callbacks[i]
                            m == MallocData(c.op)
                            element == TypeSizeIn(prog.layouts, c.id)
                            length == BlockType(m).length
                            asked == Num(Val(c.op).ops[2])
                        IN  /\ Val(c.ptr).address.block = c.op
                            /\ \/ RegionEnd(c) <= BlockSize(c.op)
                               \/ Divided(m) /\ c.id = X86_FP80 /\ length = 1
                               \/ CastCalloc(m) /\ asked < element
                            /\ \/ BlockSize(c.op) - RegionEnd(c) < element
                               \/ Divided(m) /\ length > 1
                               \/ CastCalloc(m) /\ asked > element
    BY Zenon DEF RegionsMatch
  <2> DEFINE d == callbacks[i]
             Of(c) == LET m == MallocData(c) IN
                      /\ ~CookieError(c) /\ d.op = c /\ d.count = ElementCount(m)
                      /\ d.id = BlockType(m).id /\ d.id # UnknownType /\ d.ptr = ReportedPointer(m)
  <2>2. PICK f : \E c \in Mallocs(f) : Of(c)
    BY <1>1, <2>1, HeapCallbackOf
  <2>3. PICK c \in Mallocs(f) : Of(c)
    BY <2>2
  <2>4. ValidModule(prog) /\ ValidOperations(prog)
    BY <1>1, InvFacts
  <2> HIDE DEF d
  <2> QED
    BY <2>1, <2>3, <2>4, RegionOfBlock DEF d
<1> QED
  BY <1>1, PassInvariant, PTL

-----------------------------------------------------------------------------
(* What the search has found and what it still has to look at.             *)

\* The parameters that DFSFuncFilter enters for a path that ends in a call.
Follow(d) ==
  LET i == findArg(d[2], d[1]) IN
  IF isOmpExecutor(Val(d[2]).callee) /\ canDiscardMicrotaskArg(i) THEN {} ELSE ToSet(args(d[2], i))

\* A use of a value is among the successors that are left.
OpenIn(a, x, use) == \E j \in DOMAIN a.path : a.path[j] = x /\ use \in a.left[j]

\* A value an activation is going to search from.
WaitsIn(a, y) ==
  \/ y \in ToSet(a.args)
  \/ \E d \in ToSet(a.defs) : y \in Follow(d)
  \/ a.phase = "precheck" /\ y = a.value

\* What is on the path was found, skipped calls at its end excepted.
SoundIn(a, S) ==
  /\ a.phis \subseteq S
  /\ \A j \in DOMAIN a.path : a.path[j] \in S \/ (j = Len(a.path) /\ a.left[j] = {})
  /\ a.phase # "search" => a.path = <<>>

Open(A, x, use) == \E a \in A : OpenIn(a, x, use)
Waits(A, y)     == \E a \in A : WaitsIn(a, y)
Met(A, S, y)    == y \in S \/ Waits(A, y)

\* A void pointer of the target API.
TargetUse(use) ==
  /\ IsCall(use[1]) /\ Val(use[1]).callee # "indirect"
  /\ Fun(Val(use[1]).callee).match /\ Fun(Val(use[1]).callee).deep
  /\ Fun(Val(use[1]).callee).void[use[2]]

\* The parameter p of a definition or of a parallel region.
HandedAs(use, p) ==
  \/ /\ Val(use[1]).callee # "indirect" /\ ~IsDecl(Val(use[1]).callee)
     /\ p = Fun(Val(use[1]).callee).params[use[2]]
  \/ /\ isOmpExecutor(Val(use[1]).callee) /\ use[2] > 3
     /\ p = Fun(getMicrotask(use[1])).params[use[2] - 1]

\* A use that was looked at.
Done(A, S, use) ==
  IF IsCall(use[1]) THEN ~TargetUse(use) /\ \A p : HandedAs(use, p) => Met(A, S, p)
  ELSE use[1] \in S

StoreDone(A, S, x) ==
  IsStore(x) /\ Val(x).pointer => Pointer(x) \in S \/ Open(A, x, <<Pointer(x), 0>>)

UsesDone(A, S, x) == \A use \in Uses(x) : Open(A, x, use) \/ Done(A, S, use)

\* The values S were found by the activations A: what a value of S flows to is in
\* S, or waits to be looked at.
Covers(A, S) ==
  /\ S \subseteq Values
  /\ \A x \in S : Val(x).kind # "ret" /\ StoreDone(A, S, x) /\ UsesDone(A, S, x)
  /\ \A a \in A : SoundIn(a, S)

\* What was found, and what was waiting, is so after a step.
Keeps(A, S, A2, T) == Covers(A2, T) /\ \A y : Met(A, S, y) => Met(A2, T, y)

\* A step of the search replaces an activation t by activations B and finds T.
Advances(A, S, t, B, A2, T) ==
  /\ Covers(A, S) /\ S \subseteq T /\ T \subseteq Values
  /\ t \in A /\ A \ {t} \subseteq A2 /\ B \subseteq A2 /\ A2 \subseteq A \cup B
  /\ \A y : WaitsIn(t, y) => Met(A2, T, y)
  /\ \A x \in S : \A use :
       OpenIn(t, x, use) =>
         \/ Open(A2, x, use)
         \/ /\ use \in Uses(x) => Done(A2, T, use)
            /\ IsStore(x) /\ use = <<Pointer(x), 0>> => Pointer(x) \in T
  /\ \A x \in T \ S : Val(x).kind # "ret" /\ StoreDone(A2, T, x) /\ UsesDone(A2, T, x)
  /\ \A b \in B : SoundIn(b, T)

LEMMA CoversStep ==
  ASSUME NEW A, NEW S, NEW t, NEW B, NEW A2, NEW T, Advances(A, S, t, B, A2, T)
  PROVE  Keeps(A, S, A2, T)
<1>0. /\ Covers(A, S) /\ S \subseteq T /\ T \subseteq Values
      /\ t \in A /\ A \ {t} \subseteq A2 /\ B \subseteq A2 /\ A2 \subseteq A \cup B
      /\ \A y : WaitsIn(t, y) => Met(A2, T, y)
      /\ \A x \in S : \A use :
           OpenIn(t, x, use) =>
             \/ Open(A2, x, use)
             \/ /\ use \in Uses(x) => Done(A2, T, use)
                /\ IsStore(x) /\ use = <<Pointer(x), 0>> => Pointer(x) \in T
      /\ \A x \in T \ S : Val(x).kind # "ret" /\ StoreDone(A2, T, x) /\ UsesDone(A2, T, x)
      /\ \A b \in B : SoundIn(b, T)
  BY Zenon DEF Advances
<1>1. ASSUME NEW y, Met(A, S, y) PROVE Met(A2, T, y)
  <2>1. CASE y \in S
    BY <1>0, <2>1 DEF Met
  <2>2. CASE Waits(A, y)
    <3>1. PICK a \in A : WaitsIn(a, y)
      BY <2>2 DEF Waits
    <3>2. CASE a = t
      BY <1>0, <3>1, <3>2, Zenon
    <3>3. CASE a # t
      BY <1>0, <3>1, <3>3 DEF Met, Waits
    <3> QED
      BY <3>2, <3>3
  <2> QED
    BY <1>1, <2>1, <2>2 DEF Met
<1>2. \A use : Done(A, S, use) => Done(A2, T, use)
  BY <1>0, <1>1, Zenon DEF Done
<1>3. ASSUME NEW x \in S, NEW use, Open(A, x, use)
      PROVE  \/ Open(A2, x, use)
             \/ /\ use \in Uses(x) => Done(A2, T, use)
                /\ IsStore(x) /\ use = <<Pointer(x), 0>> => Pointer(x) \in T
  <2>1. PICK a \in A : OpenIn(a, x, use)
    BY <1>3 DEF Open
  <2>2. CASE a = t
    BY <1>0, <2>1, <2>2, Zenon
  <2>3. CASE a # t
    BY <1>0, <2>1, <2>3 DEF Open
  <2> QED
    BY <2>2, <2>3
<1>4. ASSUME NEW x \in T PROVE Val(x).kind # "ret" /\ StoreDone(A2, T, x) /\ UsesDone(A2, T, x)
  <2>1. CASE x \in S
    <3>1. Val(x).kind # "ret" /\ StoreDone(A, S, x) /\ UsesDone(A, S, x)
      BY <1>0, <2>1, Zenon DEF Covers
    <3>2. StoreDone(A2, T, x)
      <4>1. ASSUME IsStore(x), Val(x).pointer PROVE Pointer(x) \in T \/ Open(A2, x, <<Pointer(x), 0>>)
        <5>1. Pointer(x) \in S \/ Open(A, x, <<Pointer(x), 0>>)
          BY <1>0, <3>1, <4>1, Zenon DEF StoreDone
        <5>2. ASSUME Open(A, x, <<Pointer(x), 0>>) PROVE Pointer(x) \in T \/ Open(A2, x, <<Pointer(x), 0>>)
          BY <1>3, <2>1, <4>1, <5>2, Zenon
        <5> QED
          BY <1>0, <5>1, <5>2
      <4> QED
        BY <4>1, Zenon DEF StoreDone
    <3>3. UsesDone(A2, T, x)
      <4>1. ASSUME NEW use \in Uses(x) PROVE Open(A2, x, use) \/ Done(A2, T, use)
        <5>1. Open(A, x, use) \/ Done(A, S, use)
          BY <3>1, Zenon DEF UsesDone
        <5> QED
          BY <1>2, <1>3, <2>1, <5>1, Zenon
      <4> QED
        BY <4>1, Zenon DEF UsesDone
    <3> QED
      BY <3>1, <3>2, <3>3
  <2>2. CASE x \notin S
    BY <1>0, <2>2, Zenon
  <2> QED
    BY <2>1, <2>2
<1>5. ASSUME NEW a \in A2 PROVE SoundIn(a, T)
  <2>1. CASE a \in B
    BY <1>0, <2>1
  <2>2. CASE a \in A
    <3>1. SoundIn(a, S)
      BY <1>0, <2>2, Zenon DEF Covers
    <3> QED
      BY <1>0, <3>1 DEF SoundIn
  <2> QED
    BY <1>0, <2>1, <2>2
<1> QED
  BY <1>0, <1>1, <1>4, <1>5, Zenon DEF Covers, Keeps

LEMMA OneElement ==
  \A p : p \in ToSet(<<p>>)
<1> TAKE p
<1>1. DOMAIN <<p>> = {1} /\ <<p>>[1] = p
  <2>1. 1..1 = {1}
    OBVIOUS
  <2> QED
    BY <2>1
<1> QED
  BY <1>1, Zenon DEF ToSet

LEMMA NotDiscarded ==
  \A n \in Nat : n > 3 => ~canDiscardMicrotaskArg(n)
BY DEF canDiscardMicrotaskArg

\* The position of a value that is passed once.
LEMMA FindArgOnce ==
  ASSUME ValidModule(prog), NEW c \in Values, NEW x, NEW k \in DOMAIN Val(c).ops, Val(c).ops[k] = x,
         ~PassedTwice(c, x)
  PROVE  findArg(c, x) = k
<1> DEFINE at == {i \in DOMAIN Val(c).ops : Val(c).ops[i] = x}
<1>1. Len(Val(c).ops) \in Nat /\ DOMAIN Val(c).ops = 1..Len(Val(c).ops)
  BY ModuleFacts, LenProperties
<1>2. at = {k}
  BY DEF PassedTwice
<1>3. findArg(c, x) = IF at = {} THEN 0 ELSE CHOOSE i \in at : \A j \in at : i <= j
  BY DEF findArg
<1> HIDE DEF at
<1>4. k <= k
  BY <1>1
<1>5. \A i \in at : i = k
  BY <1>2
<1>6. \E i \in at : \A j \in at : i <= j
  BY <1>2, <1>4
<1> QED
  BY <1>2, <1>3, <1>5, <1>6, Zenon

\* The facts about a use by a call.
LEMMA CallFacts ==
  ASSUME ValidModule(prog), NEW x \in Values, NEW use \in Uses(x), IsCall(use[1])
  PROVE  /\ use[1] \in Values /\ use[2] \in DOMAIN Val(use[1]).ops /\ Val(use[1]).ops[use[2]] = x
         /\ use[2] \in Nat \ {0} /\ DOMAIN Val(use[1]).ops = 1..Len(Val(use[1]).ops)
         /\ Val(use[1]).callee # "indirect" =>
              LET f == Val(use[1]).callee IN
              /\ f \in Functions
              /\ Fun(f).omp = "fork" => Fun(f).kind = "decl"
              /\ Fun(f).match => Fun(f).kind # "intrinsic" /\ Fun(f).omp = "none"
<1>1. Uses(x) \in SUBSET (Values \X Nat)
  BY ModuleFacts
<1>2. use[1] \in Values
  BY <1>1
<1>3. use[2] \in DOMAIN Val(use[1]).ops /\ Val(use[1]).ops[use[2]] = x
  BY Zenon DEF ValidModule, Values, Uses, Val
<1>4. Val(use[1]).ops \in Seq(Values)
  BY <1>2, ModuleFacts
<1>5. DOMAIN Val(use[1]).ops = 1..Len(Val(use[1]).ops) /\ Len(Val(use[1]).ops) \in Nat
  BY <1>4, LenProperties
<1>6. use[2] \in Nat \ {0}
  BY <1>3, <1>5
<1>7. ASSUME Val(use[1]).callee # "indirect"
      PROVE  LET f == Val(use[1]).callee IN
             /\ f \in Functions
             /\ Fun(f).omp = "fork" => Fun(f).kind = "decl"
             /\ Fun(f).match => Fun(f).kind # "intrinsic" /\ Fun(f).omp = "none"
  <2>1. Val(use[1]).callee \in Functions
    BY <1>2, <1>7, ModuleFacts
  <2> QED
    BY <2>1, Zenon DEF ValidModule, Functions, Fun
<1> QED
  BY <1>2, <1>3, <1>5, <1>6, <1>7

\* A value that a call is classified with and that is not kept is handed to no void
\* pointer of the target, and the parameter it is passed as is entered.
LEMMA CallVisited ==
  ASSUME ValidModule(prog), NEW x \in Values, NEW use \in Uses(x), IsCall(use[1]),
         callsite(use[1], x) # "Keep",
         "definition" \notin GivenUp(use[1], x, callsite(use[1], x)),
         "same argument" \notin GivenUp(use[1], x, callsite(use[1], x))
  PROVE  /\ ~TargetUse(use)
         /\ \A p : HandedAs(use, p) => callsite(use[1], x) = "FollowDef" /\ p \in Follow(<<x, use[1]>>)
<1> DEFINE c == use[1]
           f == Val(c).callee
           k == use[2]
           status == callsite(c, x)
<1>1. /\ c \in Values /\ k \in DOMAIN Val(c).ops /\ Val(c).ops[k] = x /\ k \in Nat \ {0}
  BY CallFacts
<1>2. f # "indirect"
  BY Zenon DEF callsite
<1>3. /\ Fun(f).omp = "fork" => Fun(f).kind = "decl"
      /\ Fun(f).match => Fun(f).kind # "intrinsic" /\ Fun(f).omp = "none"
  BY <1>2, CallFacts
<1>4. Matters(c) => findArg(c, x) = k
  <2>1. Matters(c) => ~PassedTwice(c, x)
    BY DEF GivenUp
  <2> HIDE DEF c, k
  <2> QED
    BY <1>1, <2>1, FindArgOnce
<1>5. ~TargetUse(use)
  <2> SUFFICES ASSUME TargetUse(use) PROVE FALSE
    OBVIOUS
  <2>1. Fun(f).match /\ Fun(f).deep /\ Fun(f).void[k]
    BY DEF TargetUse
  <2>2. findArg(c, x) = k /\ k # 0
    BY <1>1, <1>4, <2>1 DEF Matters
  <2>3. Correlated(c, x)
    BY <2>1, <2>2 DEF Correlated
  <2>4. /\ impl # "std" => CGDecl(c, x) = "Keep"
        /\ StdDecl(c, x) = "Keep" /\ StdDef(c, x) = "Keep"
    BY <2>1, <2>3, Zenon DEF CGDecl, StdDecl, StdDef
  <2>5. Fun(f).kind # "intrinsic" /\ ~isOmpExecutor(f) /\ ~isOmpHelper(f)
    BY <1>3, <2>1 DEF isOmpExecutor, isOmpHelper
  <2>6. status = "Keep"
    BY <1>2, <2>4, <2>5 DEF callsite
  <2> QED
    BY <2>6
<1>6. ASSUME NEW p, ~IsDecl(f), p = Fun(f).params[k]
      PROVE  status = "FollowDef" /\ p \in Follow(<<x, c>>)
  <2>1. status = "FollowDef"
    BY <1>6 DEF GivenUp
  <2>2. ~isOmpExecutor(f)
    BY <1>2, <1>3, <1>6 DEF IsDecl, isOmpExecutor
  <2>3. findArg(c, x) = k /\ k # 0
    BY <1>1, <1>4, <1>6 DEF Matters
  <2>4. args(c, k) = <<p>>
    BY <1>6, <2>2, <2>3 DEF args
  <2>5. Follow(<<x, c>>) = ToSet(<<p>>)
    BY <2>2, <2>3, <2>4 DEF Follow
  <2> QED
    BY <2>1, <2>5, OneElement, Zenon
<1>7. ASSUME NEW p, isOmpExecutor(f), k > 3, p = Fun(getMicrotask(c)).params[k - 1]
      PROVE  status = "FollowDef" /\ p \in Follow(<<x, c>>)
  <2>1. IsDecl(f) /\ Fun(f).kind = "decl"
    BY <1>2, <1>3, <1>7 DEF IsDecl, isOmpExecutor
  <2>2. status = "FollowDef"
    <3>1. Fun(f).kind # "intrinsic"
      BY <2>1
    <3> QED
      BY <1>2, <1>7, <2>1, <3>1, Zenon DEF callsite
  <2>3. findArg(c, x) = k /\ k # 0
    BY <1>1, <1>4, <1>7 DEF Matters
  <2>4. args(c, k) = <<p>>
    BY <1>7, <2>3 DEF args, getArgOffsetToMicrotask
  <2>5. ~canDiscardMicrotaskArg(k)
    BY <1>1, <1>7, NotDiscarded, Zenon
  <2>6. Follow(<<x, c>>) = ToSet(<<p>>)
    BY <2>3, <2>4, <2>5 DEF Follow
  <2> QED
    BY <2>2, <2>6, OneElement, Zenon
<1> QED
  BY <1>5, <1>6, <1>7 DEF HandedAs

\* A call at which it does not matter what is passed.
LEMMA CallIgnored ==
  ASSUME NEW use, IsCall(use[1]), ~Matters(use[1])
  PROVE  ~TargetUse(use) /\ \A p : ~HandedAs(use, p)
BY DEF Matters, TargetUse, HandedAs

-----------------------------------------------------------------------------
(* What was found is all that the value flows to.                          *)

\* The values that can be reached in up to n steps.
IsReach(v, n, R) ==
  R = [m \in 0..n |-> IF m = 0 THEN {v} ELSE UNION {{x} \cup FlowsTo(x) : x \in R[m - 1]}]

LEMMA ReachExists ==
  ASSUME NEW v, NEW n \in Nat
  PROVE  \E R : IsReach(v, n, R)
<1> DEFINE Bad == {m \in Nat : ~\E R : IsReach(v, m, R)}
<1>1. ASSUME Bad # {} PROVE FALSE
  <2>1. PICK m \in Bad : \A k \in Bad : m <= k
    <3>1. Bad \subseteq Nat
      OBVIOUS
    <3> HIDE DEF Bad
    <3> QED
      BY <1>1, <3>1, LeastNatural
  <2> DEFINE step(g, i) == IF i = 0 THEN {v} ELSE UNION {{x} \cup FlowsTo(x) : x \in g[i - 1]}
             more(g) == [i \in 0..m |-> step(g, i)]
  <2>2. m \in Nat
    OBVIOUS
  <2>3. \E g : \A i \in 0..m : i # 0 => g[i - 1] = step(g, i - 1)
    <3>1. CASE m = 0
      <4>1. \A i \in 0..m : i = 0
        BY <3>1
      <4> QED
        BY <4>1
    <3>2. CASE m # 0
      <4>1. m - 1 \in Nat /\ ~(m <= m - 1)
        BY <2>2, <3>2
      <4>2. PICK g : IsReach(v, m - 1, g)
        BY <2>1, <4>1
      <4>3. \A i \in 0..m : i # 0 => i - 1 \in 0..(m - 1)
        BY <2>2
      <4>4. \A i \in 0..(m - 1) : g[i] = step(g, i)
        BY <4>2, Zenon DEF IsReach
      <4> QED
        BY <4>3, <4>4, Zenon
    <3> QED
      BY <3>1, <3>2
  <2>4. PICK g : \A i \in 0..m : i # 0 => g[i - 1] = step(g, i - 1)
    BY <2>3
  <2>5. ASSUME NEW i \in 0..m, i # 0 PROVE more(g)[i - 1] = g[i - 1]
    <3>1. i - 1 \in 0..m
      BY <2>2, <2>5
    <3>2. more(g)[i - 1] = step(g, i - 1)
      BY <3>1, Zenon
    <3> QED
      BY <2>4, <2>5, <3>2, Zenon
  <2>6. \A i \in 0..m : step(more(g), i) = step(g, i)
    <3> HIDE DEF more
    <3> QED
      BY <2>5, Zenon
  <2>7. IsReach(v, m, more(g))
    BY <2>6, Zenon DEF IsReach
  <2> HIDE DEF more
  <2> QED
    BY <2>1, <2>7
<1> QED
  BY <1>1

\* A set that is closed under the flow of values contains all a value flows to.
LEMMA ReachedFrom ==
  ASSUME ValidModule(prog), NEW S, NEW v \in S, \A x \in S : FlowsTo(x) \subseteq S
  PROVE  ReachableFrom(Values, {v}, FlowsTo) \subseteq S
<1> DEFINE n == Cardinality(Values)
           R == CHOOSE g : IsReach(v, n, g)
           Bad == {m \in 0..n : ~(R[m] \subseteq S)}
<1>1. n \in Nat
  BY ModuleFacts, FS_CardinalityType
<1>2. IsReach(v, n, R)
  BY <1>1, ReachExists
<1>3. ReachableFrom(Values, {v}, FlowsTo) = R[n]
  BY Zenon DEF ReachableFrom, IsReach
<1> HIDE DEF R
<1>4. \A m \in 0..n : R[m] = IF m = 0 THEN {v} ELSE UNION {{x} \cup FlowsTo(x) : x \in R[m - 1]}
  BY <1>2 DEF IsReach
<1> HIDE DEF n
<1>5. ASSUME Bad # {} PROVE FALSE
  <2>1. PICK m \in Bad : \A k \in Bad : m <= k
    <3>1. Bad \subseteq Nat
      BY <1>1
    <3> HIDE DEF Bad
    <3> QED
      BY <1>5, <3>1, LeastNatural
  <2>2. m \in 0..n /\ ~(R[m] \subseteq S)
    OBVIOUS
  <2>3. m # 0
    BY <1>4, <2>2
  <2>4. m - 1 \in 0..n /\ ~(m <= m - 1)
    BY <1>1, <2>2, <2>3
  <2>5. R[m - 1] \subseteq S
    BY <2>1, <2>4
  <2>6. R[m] = UNION {{x} \cup FlowsTo(x) : x \in R[m - 1]}
    BY <1>4, <2>2, <2>3
  <2> QED
    BY <2>2, <2>5, <2>6
<1>6. n \in 0..n
  BY <1>1
<1>7. R[n] \subseteq S
  BY <1>5, <1>6
<1> QED
  BY <1>3, <1>7

\* When no activation is left, the value was found not to reach the target.
LEMMA NothingReached ==
  ASSUME ValidModule(prog), NEW S, Covers({}, S), NEW v, Met({}, S, v)
  PROVE  ~Reaches(v)
<1>1. v \in S
  BY DEF Met, Waits
<1>2. /\ S \subseteq Values
      /\ \A x \in S : Val(x).kind # "ret" /\ StoreDone({}, S, x) /\ UsesDone({}, S, x)
  BY DEF Covers
<1>3. \A x \in S : \A use \in Uses(x) :
        IF IsCall(use[1]) THEN ~TargetUse(use) /\ \A p : HandedAs(use, p) => p \in S ELSE use[1] \in S
  BY <1>2, Zenon DEF UsesDone, Open, Done, Met, Waits
<1>4. \A x \in S : IsStore(x) /\ Val(x).pointer => Pointer(x) \in S
  BY <1>2, Zenon DEF StoreDone, Open
<1>5. ASSUME NEW x \in S, NEW y \in FlowsTo(x) PROVE y \in S
  <2>1. CASE y \in {u \in Users(x) : ~IsStore(u) /\ ~IsCall(u)}
    BY <1>3, <2>1 DEF Users
  <2>2. CASE y \in {Pointer(s) : s \in {u \in Users(x) : IsStore(u) /\ Stored(u) = x /\ Val(u).pointer}}
    <3>1. PICK use \in Uses(x) : IsStore(use[1]) /\ Val(use[1]).pointer /\ y = Pointer(use[1])
      BY <2>2 DEF Users
    <3>2. ~IsCall(use[1])
      BY <3>1 DEF IsStore, IsCall
    <3> QED
      BY <1>3, <1>4, <3>1, <3>2
  <2>3. CASE y \in {Fun(Val(use[1]).callee).params[use[2]] :
          use \in {w \in Uses(x) : IsCall(w[1]) /\ Val(w[1]).callee # "indirect" /\ ~IsDecl(Val(w[1]).callee)}}
    <3>1. PICK use \in Uses(x) : /\ IsCall(use[1]) /\ Val(use[1]).callee # "indirect" /\ ~IsDecl(Val(use[1]).callee)
                                 /\ y = Fun(Val(use[1]).callee).params[use[2]]
      BY <2>3
    <3>2. HandedAs(use, y)
      BY <3>1 DEF HandedAs
    <3> QED
      BY <1>3, <3>1, <3>2
  <2>4. CASE y \in {Fun(getMicrotask(use[1])).params[use[2] - 1] :
          use \in {w \in Uses(x) : IsCall(w[1]) /\ isOmpExecutor(Val(w[1]).callee) /\ w[2] > 3}}
    <3>1. PICK use \in Uses(x) : /\ IsCall(use[1]) /\ isOmpExecutor(Val(use[1]).callee) /\ use[2] > 3
                                 /\ y = Fun(getMicrotask(use[1])).params[use[2] - 1]
      BY <2>4
    <3>2. HandedAs(use, y)
      BY <3>1 DEF HandedAs
    <3> QED
      BY <1>3, <3>1, <3>2
  <2>5. Val(x).kind # "ret"
    BY <1>2
  <2> QED
    BY <2>1, <2>2, <2>3, <2>4, <2>5, Zenon DEF FlowsTo
<1>6. ReachableFrom(Values, {v}, FlowsTo) \subseteq S
  BY <1>1, <1>5, ReachedFrom
<1>7. \A x \in S : \A use \in Uses(x) : ~TargetUse(use)
  BY <1>3, Zenon DEF TargetUse
<1> HIDE DEF Reaches
<1>8. ASSUME Reaches(v) PROVE FALSE
  <2>1. PICK x \in ReachableFrom(Values, {v}, FlowsTo) : \E use \in Uses(x) : TargetUse(use)
    BY <1>8, Zenon DEF Reaches, TargetUse
  <2> QED
    BY <1>6, <1>7, <2>1
<1> QED
  BY <1>8

-----------------------------------------------------------------------------
(* The steps of the search lose nothing.                                   *)

\* The values that the innermost activation gives way to others.
LEMMA ReplacedSet ==
  ASSUME SearchInv, verdict = "open", NEW a \in Activations
  PROVE  /\ Top \in ToSet(acts) /\ ToSet(acts) \ {Top} \subseteq ToSet(Replace(a))
         /\ a \in ToSet(Replace(a)) /\ ToSet(Replace(a)) \subseteq ToSet(acts) \cup {a}
<1> DEFINE n == Len(acts)
           bs == Replace(a)
<1>1. /\ bs \in Seq(Activations) /\ Len(bs) = n /\ \A k \in 1..(n - 1) : bs[k] = acts[k]
      /\ bs[n] = a
  BY Replaced
<1>2. n \in Nat \ {0} /\ Top = acts[n]
  BY Innermost
<1>3. DOMAIN acts = 1..n /\ DOMAIN bs = 1..n
  BY <1>1, LenProperties DEF SearchInv
<1> HIDE DEF bs, n
<1>4. n \in 1..n /\ \A k \in 1..n : k \in 1..(n - 1) \/ k = n
  BY <1>2
<1>5. Top \in ToSet(acts) /\ a \in ToSet(bs)
  BY <1>1, <1>2, <1>3, <1>4 DEF ToSet
<1>6. ASSUME NEW t \in ToSet(acts), t # Top PROVE t \in ToSet(bs)
  <2>1. PICK k \in 1..n : acts[k] = t
    BY <1>3 DEF ToSet
  <2>2. bs[k] = t
    BY <1>1, <1>2, <1>4, <1>6, <2>1
  <2> QED
    BY <1>3, <2>2 DEF ToSet
<1>7. ASSUME NEW t \in ToSet(bs) PROVE t \in ToSet(acts) \cup {a}
  <2>1. PICK k \in 1..n : bs[k] = t
    BY <1>3 DEF ToSet
  <2>2. t = a \/ t = acts[k]
    BY <1>1, <1>4, <2>1
  <2> QED
    BY <1>3, <2>2 DEF ToSet
<1> QED
  BY <1>5, <1>6, <1>7 DEF bs

\* The innermost activation takes a step of its own.
LEMMA InsideCovers ==
  ASSUME SearchInv, verdict = "open", NEW S, Covers(ToSet(acts), S), NEW a \in Activations,
         NEW T, S \subseteq T, T \subseteq Values, acts' = Replace(a),
         \A y : WaitsIn(Top, y) => y \in T \/ WaitsIn(a, y),
         \A x \in S : \A use :
           OpenIn(Top, x, use) =>
             \/ OpenIn(a, x, use)
             \/ /\ use \in Uses(x) => Done(ToSet(acts'), T, use)
                /\ IsStore(x) /\ use = <<Pointer(x), 0>> => Pointer(x) \in T,
         \A x \in T \ S : Val(x).kind # "ret" /\ StoreDone({a}, T, x) /\ UsesDone({a}, T, x),
         SoundIn(a, T)
  PROVE  Keeps(ToSet(acts), S, ToSet(acts'), T)
<1> DEFINE A2 == ToSet(acts')
<1>1. /\ Top \in ToSet(acts) /\ ToSet(acts) \ {Top} \subseteq A2
      /\ {a} \subseteq A2 /\ A2 \subseteq ToSet(acts) \cup {a} /\ a \in A2
  BY ReplacedSet
<1> HIDE DEF A2
<1>2. \A y : WaitsIn(Top, y) => Met(A2, T, y)
  BY <1>1, Zenon DEF Met, Waits
<1>3. \A x \in S : \A use :
        OpenIn(Top, x, use) =>
          \/ Open(A2, x, use)
          \/ /\ use \in Uses(x) => Done(A2, T, use)
             /\ IsStore(x) /\ use = <<Pointer(x), 0>> => Pointer(x) \in T
  BY <1>1, Zenon DEF Open, A2
<1>4. \A b \in {a} : SoundIn(b, T)
  OBVIOUS
<1>5. ASSUME NEW x \in T \ S PROVE Val(x).kind # "ret" /\ StoreDone(A2, T, x) /\ UsesDone(A2, T, x)
  <2>1. \A use : Open({a}, x, use) => Open(A2, x, use)
    BY <1>1 DEF Open
  <2>2. \A y : Met({a}, T, y) => Met(A2, T, y)
    BY <1>1 DEF Met, Waits
  <2>3. \A use : Done({a}, T, use) => Done(A2, T, use)
    BY <2>2, Zenon DEF Done
  <2>4. Val(x).kind # "ret" /\ StoreDone({a}, T, x) /\ UsesDone({a}, T, x)
    OBVIOUS
  <2> QED
    BY <2>1, <2>3, <2>4, Zenon DEF StoreDone, UsesDone
<1>6. Advances(ToSet(acts), S, Top, {a}, A2, T)
  BY <1>1, <1>2, <1>3, <1>4, <1>5, Zenon DEF Advances
<1> QED
  BY <1>6, CoversStep, Zenon DEF A2

\* A value is popped whose uses were all looked at.
LEMMA PopCovers ==
  ASSUME SearchInv, PopValue, NEW S, Covers(ToSet(acts), S)
  PROVE  Keeps(ToSet(acts), S, ToSet(acts'), S)
<1> DEFINE t == Top
           path == Front(t.path)
           left == Front(t.left)
           ph == IF Len(t.path) = 1 THEN "definitions" ELSE "search"
           a == [t EXCEPT !.path = Front(t.path), !.left = Front(t.left),
                          !.phase = IF Len(t.path) = 1 THEN "definitions" ELSE "search"]
           n == Len(t.path)
<1>1. /\ verdict = "open" /\ t.phase = "search" /\ t.path # <<>> /\ Last(t.left) = {} /\ acts' = Replace(a)
  BY DEF PopValue, In
<1>2. /\ t \in Activations /\ t.left \in Seq(SUBSET (Values \X Nat))
      /\ Len(t.left) = Len(t.path) /\ t.path \in Seq(Values)
      /\ t \in [value : Values, phase : {"precheck", "search", "definitions"}, path : Seq(Values),
                left : Seq(SUBSET (Values \X Nat)), phis : SUBSET Values, defs : Seq(Followed), args : Seq(Values)]
      /\ t.args # <<>> => t.phase = "definitions"
      /\ t \in ToSet(acts)
  BY <1>1, Innermost, ReplacedSet DEF Activations
<1> HIDE DEF t
<1>3. /\ path \in Seq(Values) /\ Len(path) = n - 1 /\ n \in Nat \ {0}
      /\ \A i \in 1..(n - 1) : path[i] = t.path[i]
  BY <1>1, <1>2, FrontAndLast
<1>4. /\ left \in Seq(SUBSET (Values \X Nat)) /\ Len(left) = n - 1
      /\ \A i \in 1..(n - 1) : left[i] = t.left[i]
      /\ Last(t.left) = t.left[n]
  <2>1. PICK U : U = SUBSET (Values \X Nat)
    OBVIOUS
  <2>2. t.left \in Seq(U) /\ t.left # <<>>
    BY <1>2, <1>3, <2>1, EmptySeq
  <2>3. left \in Seq(U) /\ Len(left) = Len(t.left) - 1 /\ \A i \in 1..(Len(t.left) - 1) : left[i] = t.left[i]
    BY <2>2, FrontAndLast
  <2> QED
    BY <1>2, <2>1, <2>3 DEF Last
<1>5. a = [t EXCEPT !.path = path, !.left = left, !.phase = ph] /\ ph \in {"search", "definitions"}
  OBVIOUS
<1>6. DOMAIN path = 1..(n - 1) /\ DOMAIN t.path = 1..n
  BY <1>2, <1>3, LenProperties
<1>7. ph # "search" => n = 1
  OBVIOUS
<1> HIDE DEF a, path, left, ph
<1>8. /\ a \in Activations /\ a.args = t.args /\ a.defs = t.defs /\ a.phis = t.phis /\ a.path = path
      /\ a.left = left /\ a.phase = ph
  BY <1>1, <1>2, <1>3, <1>4, <1>5 DEF Activations
<1>9. \A y : WaitsIn(t, y) => WaitsIn(a, y)
  BY <1>1, <1>8, Zenon DEF WaitsIn
<1>10. \A x, use : OpenIn(t, x, use) => OpenIn(a, x, use)
  <2>1. ASSUME NEW x, NEW use, NEW j \in 1..n, t.path[j] = x, use \in t.left[j] PROVE OpenIn(a, x, use)
    <3>1. j # n
      BY <1>1, <1>4, <2>1
    <3>2. j \in 1..(n - 1)
      BY <1>3, <3>1
    <3> QED
      BY <1>3, <1>4, <1>6, <1>8, <2>1, <3>2 DEF OpenIn
  <2> QED
    BY <1>6, <2>1 DEF OpenIn
<1>11. SoundIn(a, S)
  <2>1. SoundIn(t, S)
    BY <1>2, Zenon DEF Covers
  <2>2. \A j \in 1..(n - 1) : path[j] \in S
    <3>1. \A j \in 1..(n - 1) : j \in 1..n /\ j # n
      BY <1>3
    <3> QED
      BY <1>3, <1>6, <2>1, <3>1 DEF SoundIn
  <2>3. ph # "search" => path = <<>>
    <3>1. ASSUME n = 1 PROVE path = <<>>
      <4>1. Len(path) = 0
        BY <1>3, <3>1
      <4> QED
        BY <1>3, <4>1, EmptySeq
    <3> QED
      BY <1>7, <3>1
  <2> QED
    BY <1>6, <1>8, <2>1, <2>2, <2>3 DEF SoundIn
<1>12. S \subseteq Values
  BY DEF Covers
<1> HIDE DEF n
<1> QED
  BY <1>1, <1>8, <1>9, <1>10, <1>11, <1>12, InsideCovers DEF t

LEMMA AppendSet ==
  ASSUME NEW R, NEW s \in Seq(R), NEW e \in R
  PROVE  ToSet(Append(s, e)) = ToSet(s) \cup {e}
<1> DEFINE t == Append(s, e)
           n == Len(s)
<1>1. /\ t \in Seq(R) /\ Len(t) = n + 1 /\ n \in Nat
      /\ \A i \in 1..n : t[i] = s[i]
      /\ t[n + 1] = e
  BY Appended
<1>2. DOMAIN t = 1..(n + 1) /\ DOMAIN s = 1..n
  BY <1>1, LenProperties
<1> HIDE DEF t, n
<1>3. \A i \in 1..(n + 1) : i \in 1..n \/ i = n + 1
  BY <1>1
<1>4. n + 1 \in 1..(n + 1) /\ \A i \in 1..n : i \in 1..(n + 1)
  BY <1>1
<1>5. ToSet(t) = ToSet(s) \cup {e}
  BY <1>1, <1>2, <1>3, <1>4, Zenon DEF ToSet
<1> QED
  BY <1>5 DEF t

\* A value is put on the path.
LEMMA VisitCovers ==
  ASSUME ValidModule(prog), SearchInv, verdict = "open", NEW S, Covers(ToSet(acts), S),
         NEW a \in Activations, a.args = <<>>, Top.args = <<>>, a.defs = Top.defs, a.phis \subseteq S,
         \A j \in DOMAIN a.path : a.path[j] \in S,
         NEW v \in Values, Top.phase = "precheck" => v = Top.value /\ a.path = <<>>,
         \A x \in S : \A use :
           OpenIn(Top, x, use) => OpenIn(a, x, use) \/ (a.path # <<>> /\ x = Last(a.path) /\ use[1] = v),
         Visit(a, v), verdict' # "keep", cuts' \subseteq {"uncorrelated"}
  PROVE  \E T : Keeps(ToSet(acts), S, ToSet(acts'), T)
<1> DEFINE prev == Prev(a)
           status == callsite(v, prev)
           isPhi == Val(v).kind = "phi"
           T == IF status = "Skip" THEN S ELSE S \cup {v}
           next == IF status = "Skip" THEN {} ELSE search(v, Append(a.path, v), isPhi /\ v \in a.phis)
           n == Len(a.path)
<1>0. ~Keep
  BY DEF Keep
<1>1. PICK b \in Activations :
        /\ acts' = Replace(b) /\ status # "Keep"
        /\ cuts' = cuts \cup GivenUp(v, prev, status)
        /\ VisitedAs(a, v, b)
  BY <1>0, Visited
<1>2. /\ b.args = <<>> /\ b.phase = "search" /\ b.path = Append(a.path, v)
      /\ b.phis = IF isPhi THEN a.phis \cup {v} ELSE a.phis
      /\ b.left = Append(a.left, next)
      /\ b.defs = IF status = "FollowDef" THEN Append(a.defs, <<prev, v>>) ELSE a.defs
  BY <1>1, Zenon DEF VisitedAs
<1>3. S \subseteq T /\ T \subseteq Values /\ (status # "Skip" => v \in T)
  BY DEF Covers
<1>4. "definition" \notin GivenUp(v, prev, status) /\ "skipped" \notin GivenUp(v, prev, status)
      /\ "same argument" \notin GivenUp(v, prev, status) /\ "returned" \notin GivenUp(v, prev, status)
  <2> HIDE DEF prev, status
  <2> QED
    BY <1>1
<1>5. ~IsCall(v) => status = "Continue"
  BY Zenon DEF callsite
<1>6. status = "Skip" => IsCall(v) /\ prev # "none" /\ ~IsStore(prev)
  <2> HIDE DEF prev, status
  <2> QED
    BY <1>4, <1>5 DEF GivenUp
<1> HIDE DEF T, next, isPhi
<1>7. /\ n \in Nat /\ DOMAIN a.path = 1..n /\ DOMAIN b.path = 1..(n + 1) /\ Len(b.path) = n + 1
      /\ \A j \in 1..n : b.path[j] = a.path[j] /\ b.left[j] = a.left[j]
      /\ b.path[n + 1] = v /\ b.left[n + 1] = next
  <2>1. a.path \in Seq(Values) /\ a.left \in Seq(SUBSET (Values \X Nat)) /\ Len(a.left) = n
    BY DEF Activations
  <2>2. /\ b.path \in Seq(Values) /\ Len(b.path) = n + 1 /\ n \in Nat /\ b.path[n + 1] = v
        /\ \A j \in 1..n : b.path[j] = a.path[j]
    BY <1>2, <2>1, Appended
  <2>3. DOMAIN a.path = 1..n /\ DOMAIN b.path = 1..(n + 1)
    BY <2>1, <2>2, LenProperties
  <2>4. next \in SUBSET (Values \X Nat)
    <3>1. CASE status = "Skip"
      BY <3>1 DEF next
    <3>2. CASE status # "Skip"
      BY <3>2, SearchType DEF next
    <3> QED
      BY <3>1, <3>2
  <2>5. /\ \A j \in 1..n : b.left[j] = a.left[j]
        /\ b.left[n + 1] = next
    <3>1. PICK U : U = SUBSET (Values \X Nat)
      OBVIOUS
    <3>2. a.left \in Seq(U) /\ next \in U
      BY <2>1, <2>4, <3>1
    <3> QED
      BY <1>2, <2>1, <3>2, Appended
  <2> QED
    BY <2>2, <2>3, <2>5
<1> HIDE DEF n
<1>8. n + 1 \in 1..(n + 1) /\ (\A j \in 1..n : j \in 1..(n + 1)) /\ \A j \in 1..(n + 1) : j \in 1..n \/ j = n + 1
  BY <1>7
<1>9. \A x, use : OpenIn(a, x, use) => OpenIn(b, x, use)
  <2>1. ASSUME NEW x, NEW use, NEW j \in 1..n, a.path[j] = x, use \in a.left[j]
        PROVE  \E k \in 1..(n + 1) : b.path[k] = x /\ use \in b.left[k]
    BY <1>7, <1>8, <2>1
  <2> QED
    BY <1>7, <2>1, Zenon DEF OpenIn
<1>10. \A use \in next : OpenIn(b, v, use)
  BY <1>7, <1>8 DEF OpenIn
<1>11. \A d \in ToSet(a.defs) : d \in ToSet(b.defs)
  <2>1. CASE status = "FollowDef"
    <3>1. b.defs = Append(a.defs, <<prev, v>>) /\ a.defs \in Seq(Followed)
      BY <1>2, <2>1 DEF Activations
    <3>2. PICK e : e = <<prev, v>>
      OBVIOUS
    <3>3. PICK R : R = Followed \cup {e}
      OBVIOUS
    <3>4. a.defs \in Seq(R) /\ e \in R
      BY <3>1, <3>3, SeqMonotonic
    <3>5. ToSet(Append(a.defs, e)) = ToSet(a.defs) \cup {e}
      BY <3>4, AppendSet
    <3>6. b.defs = Append(a.defs, e)
      BY <3>1, <3>2
    <3> QED
      BY <3>5, <3>6
  <2>2. CASE status # "FollowDef"
    BY <1>2, <2>2
  <2> QED
    BY <2>1, <2>2
<1>12. status = "FollowDef" => <<prev, v>> \in ToSet(b.defs)
  <2> SUFFICES ASSUME status = "FollowDef" PROVE <<prev, v>> \in ToSet(b.defs)
    OBVIOUS
  <2>1. b.defs = Append(a.defs, <<prev, v>>) /\ a.defs \in Seq(Followed)
    BY <1>2 DEF Activations
  <2>2. PICK m \in Nat : m = Len(a.defs)
    BY <2>1, LenProperties
  <2>3. PICK R : R = Followed \cup {<<prev, v>>}
    OBVIOUS
  <2>4. a.defs \in Seq(R) /\ <<prev, v>> \in R
    BY <2>1, <2>3, SeqMonotonic
  <2> QED
    BY <2>1, <2>4, AppendSet
<1>13. \A y : WaitsIn(Top, y) => y \in T \/ WaitsIn(b, y)
  <2>1. ASSUME NEW y, WaitsIn(Top, y) PROVE y \in T \/ WaitsIn(b, y)
    <3>1. ToSet(Top.args) = {}
      BY NoneOnce
    <3>2. CASE \E d \in ToSet(Top.defs) : y \in Follow(d)
      BY <1>11, <3>2 DEF WaitsIn
    <3>3. CASE Top.phase = "precheck" /\ y = Top.value
      <4>1. prev = "none"
        BY <3>3 DEF Prev
      <4> QED
        BY <1>3, <1>6, <3>3, <4>1
    <3> QED
      BY <2>1, <3>1, <3>2, <3>3 DEF WaitsIn
  <2> QED
    BY <2>1
<1>14. ASSUME NEW x \in S, NEW use, OpenIn(Top, x, use)
       PROVE  \/ OpenIn(b, x, use)
              \/ /\ use \in Uses(x) => Done(ToSet(acts'), T, use)
                 /\ IsStore(x) /\ use = <<Pointer(x), 0>> => Pointer(x) \in T
  <2>1. CASE OpenIn(a, x, use)
    BY <1>9, <2>1
  <2>2. CASE a.path # <<>> /\ x = Last(a.path) /\ use[1] = v
    <3>1. prev = x
      BY <2>2 DEF Prev
    <3>2. ASSUME IsStore(x), use = <<Pointer(x), 0>> PROVE Pointer(x) \in T
      <4>1. Pointer(x) = v
        BY <2>2, <3>2
      <4> QED
        BY <1>3, <1>6, <3>1, <3>2, <4>1
    <3>3. ASSUME use \in Uses(x), ~IsCall(v) PROVE Done(ToSet(acts'), T, use)
      BY <1>3, <1>5, <2>2, <3>3 DEF Done
    <3>4. ASSUME use \in Uses(x), IsCall(v) PROVE Done(ToSet(acts'), T, use)
      <4>1. x \in Values /\ IsCall(use[1]) /\ status = callsite(use[1], x)
        BY <2>2, <3>1, <3>4 DEF Covers
      <4>2. /\ callsite(use[1], x) # "Keep"
            /\ "definition" \notin GivenUp(use[1], x, callsite(use[1], x))
            /\ "same argument" \notin GivenUp(use[1], x, callsite(use[1], x))
        BY <1>1, <1>4, <2>2, <3>1, <4>1
      <4>3. /\ ~TargetUse(use)
            /\ \A p : HandedAs(use, p) => callsite(use[1], x) = "FollowDef" /\ p \in Follow(<<x, use[1]>>)
        BY <3>4, <4>1, <4>2, CallVisited
      <4>4. b \in ToSet(acts')
        BY <1>1, ReplacedSet
      <4>5. ASSUME NEW p, HandedAs(use, p) PROVE Met(ToSet(acts'), T, p)
        <5>1. p \in Follow(<<x, v>>) /\ status = "FollowDef"
          BY <2>2, <4>1, <4>3, <4>5
        <5>2. WaitsIn(b, p)
          BY <1>12, <3>1, <5>1 DEF WaitsIn
        <5> QED
          BY <4>4, <5>2 DEF Met, Waits
      <4> QED
        BY <4>1, <4>3, <4>5 DEF Done
    <3> QED
      BY <3>2, <3>3, <3>4
  <2> QED
    BY <1>14, <2>1, <2>2
<1>15. ASSUME NEW x \in T \ S PROVE Val(x).kind # "ret" /\ StoreDone({b}, T, x) /\ UsesDone({b}, T, x)
  <2>1. x = v /\ status # "Skip" /\ v \notin S /\ v \in T
    BY DEF T
  <2>2. next = search(v, Append(a.path, v), FALSE)
    <3>1. ~(isPhi /\ v \in a.phis)
      BY <2>1
    <3> QED
      BY <2>1, <3>1, Zenon DEF next, isPhi
  <2>3. Val(v).kind # "ret"
    <3> HIDE DEF prev, status
    <3> QED
      BY <1>4 DEF GivenUp
  <2>4. \A use \in next : Open({b}, v, use)
    BY <1>10 DEF Open
  <2>5. StoreDone({b}, T, v)
    <3> SUFFICES ASSUME IsStore(v), Val(v).pointer PROVE Pointer(v) \in T \/ Open({b}, v, <<Pointer(v), 0>>)
      BY Zenon DEF StoreDone
    <3>1. CASE Contains(Append(a.path, v), Pointer(v))
      <4>1. \E j \in 1..(n + 1) : b.path[j] = Pointer(v)
        BY <1>2, <1>7, <3>1 DEF Contains
      <4> QED
        BY <1>3, <1>7, <1>8, <2>1, <4>1
    <3>2. CASE ~Contains(Append(a.path, v), Pointer(v))
      <4>1. next = {<<Pointer(v), 0>>}
        BY <2>2, <3>2 DEF search
      <4> QED
        BY <2>4, <4>1
    <3> QED
      BY <3>1, <3>2
  <2>6. UsesDone({b}, T, v)
    <3>1. CASE IsStore(v)
      <4>1. Uses(v) = {}
        BY <3>1, Zenon DEF ValidModule, Values, Uses, IsStore, Val
      <4> QED
        BY <4>1 DEF UsesDone
    <3>2. CASE ~IsStore(v)
      <4>1. next = Uses(v)
        BY <2>2, <3>2 DEF search
      <4> QED
        BY <2>4, <4>1 DEF UsesDone
    <3> QED
      BY <3>1, <3>2
  <2> QED
    BY <2>1, <2>3, <2>5, <2>6
<1>16. SoundIn(b, T)
  <2>1. b.phis \subseteq T
    <3>1. isPhi => status # "Skip"
      BY <1>6 DEF isPhi, IsCall
    <3> QED
      BY <1>2, <1>3, <3>1
  <2>2. \A j \in 1..n : b.path[j] \in T
    BY <1>3, <1>7
  <2>3. v \in T \/ next = {}
    BY <1>3 DEF next
  <2> QED
    BY <1>2, <1>7, <1>8, <2>1, <2>2, <2>3 DEF SoundIn
<1> HIDE DEF prev, status
<1> QED
  BY <1>1, <1>3, <1>13, <1>14, <1>15, <1>16, InsideCovers

\* A successor is taken.
LEMMA SuccessorCovers ==
  ASSUME ValidModule(prog), SearchInv, Successor, NEW S, Covers(ToSet(acts), S),
         verdict' # "keep", cuts' \subseteq {"uncorrelated"}
  PROVE  \E T : Keeps(ToSet(acts), S, ToSet(acts'), T)
<1>0. /\ verdict = "open" /\ Top.phase = "search" /\ ~Keep
      /\ Top \in ToSet(acts)
  <2>1. verdict = "open" /\ Top.phase = "search" /\ ~Keep
    BY DEF Successor, In, Keep
  <2> QED
    BY <2>1, Innermost, ReplacedSet
<1>1. PICK use \in Values \X Nat, a \in Activations :
        /\ TakenAs(use, a)
        /\ \/ /\ Contains(a.path, use[1]) /\ acts' = Replace(a)
              /\ cuts' = cuts \cup {why \in {"own result"} : IsCall(use[1]) /\ Matters(use[1])}
           \/ Visit(a, use[1])
  BY <1>0, Taken
<1> DEFINE v == use[1]
           n == Len(Top.path)
           last == Last(a.path)
<1>2. /\ a.value = Top.value /\ a.phase = "search" /\ a.path = Top.path /\ a.phis = Top.phis
      /\ a.defs = Top.defs /\ a.args = <<>> /\ Top.args = <<>>
      /\ n \in Nat \ {0} /\ Len(Top.left) = n
      /\ use \in Top.left[n] /\ a.left[n] = Top.left[n] \ {use}
      /\ \A j \in 1..n : j # n => a.left[j] = Top.left[j]
  BY <1>0, <1>1 DEF TakenAs
<1>3. a.path \in Seq(Values) /\ DOMAIN Top.path = 1..n /\ n \in DOMAIN Top.path /\ last = Top.path[n] /\ a.path # <<>>
  <2>1. Top.path \in Seq(Values)
    BY <1>0, Innermost
  <2>2. DOMAIN Top.path = 1..n /\ n \in 1..n
    BY <1>2, <2>1, LenProperties
  <2> QED
    BY <1>2, <2>1, <2>2, EmptySeq DEF Last
<1>4. v \in Values /\ S \subseteq Values
  BY DEF Covers
<1>5. /\ Top.phis \subseteq S
      /\ \A j \in DOMAIN Top.path : Top.path[j] \in S
  <2>1. SoundIn(Top, S)
    BY <1>0, Zenon DEF Covers
  <2> QED
    BY <1>2, <1>3, <2>1 DEF SoundIn
<1>6. \A x, u : OpenIn(Top, x, u) => OpenIn(a, x, u) \/ (x = last /\ u = use)
  <2>1. ASSUME NEW x, NEW u, NEW j \in 1..n, Top.path[j] = x, u \in Top.left[j]
        PROVE  OpenIn(a, x, u) \/ (x = last /\ u = use)
    <3>1. CASE j # n
      BY <1>2, <1>3, <2>1, <3>1 DEF OpenIn
    <3>2. CASE j = n /\ u # use
      BY <1>2, <1>3, <2>1, <3>2 DEF OpenIn
    <3>3. CASE j = n /\ u = use
      BY <1>3, <2>1, <3>3
    <3> QED
      BY <3>1, <3>2, <3>3
  <2> QED
    BY <1>3, <2>1 DEF OpenIn
<1>7. CASE Contains(a.path, v) /\ acts' = Replace(a)
           /\ cuts' = cuts \cup {why \in {"own result"} : IsCall(v) /\ Matters(v)}
  <2>1. ~(IsCall(v) /\ Matters(v))
    <3>1. ASSUME IsCall(v) /\ Matters(v) PROVE "own result" \in cuts'
      BY <1>7, <3>1, Zenon
    <3> QED
      BY <3>1
  <2>2. v \in S
    BY <1>2, <1>3, <1>5, <1>7 DEF Contains
  <2>3. Done(ToSet(acts'), S, use)
    BY <2>1, <2>2, CallIgnored DEF Done
  <2>4. IsStore(last) /\ use = <<Pointer(last), 0>> => Pointer(last) \in S
    BY <2>2
  <2>5. \A y : WaitsIn(Top, y) => y \in S \/ WaitsIn(a, y)
    BY <1>0, <1>2, Zenon DEF WaitsIn
  <2>6. \A x \in S : \A u :
           OpenIn(Top, x, u) =>
             \/ OpenIn(a, x, u)
             \/ /\ u \in Uses(x) => Done(ToSet(acts'), S, u)
                /\ IsStore(x) /\ u = <<Pointer(x), 0>> => Pointer(x) \in S
    <3> HIDE DEF v, n, last
    <3> QED
      BY <1>6, <2>3, <2>4, Zenon
  <2>7. SoundIn(a, S)
    BY <1>2, <1>5 DEF SoundIn
  <2>8. \A x \in S \ S : Val(x).kind # "ret" /\ StoreDone({a}, S, x) /\ UsesDone({a}, S, x)
    OBVIOUS
  <2> HIDE DEF v, n, last
  <2> QED
    BY <1>0, <1>4, <1>7, <2>5, <2>6, <2>7, <2>8, InsideCovers
<1>8. CASE Visit(a, v)
  <2>1. \A x \in S : \A u :
          OpenIn(Top, x, u) => OpenIn(a, x, u) \/ (a.path # <<>> /\ x = Last(a.path) /\ u[1] = v)
    BY <1>3, <1>6
  <2>2. /\ a.phis \subseteq S /\ \A j \in DOMAIN a.path : a.path[j] \in S
        /\ Top.phase = "precheck" => v = Top.value /\ a.path = <<>>
        /\ Top.args = <<>> /\ a.defs = Top.defs /\ a.args = <<>>
    BY <1>0, <1>2, <1>5
  <2> HIDE DEF v
  <2> QED
    BY <1>0, <1>4, <1>8, <2>1, <2>2, VisitCovers
<1> QED
  BY <1>1, <1>7, <1>8

\* A function is entered, or the search ends in it.
LEMMA PrecheckCovers ==
  ASSUME ValidModule(prog), SearchInv, Precheck, NEW S, Covers(ToSet(acts), S),
         verdict' # "keep", cuts' \subseteq {"uncorrelated"}
  PROVE  \E T : Keeps(ToSet(acts), S, ToSet(acts'), T)
<1>1. verdict = "open" /\ Top.phase = "precheck" /\ ~Keep
  BY DEF Precheck, In, Keep
<1>2. Top \in Activations /\ Top.args = <<>> /\ Top.value \in Values /\ Top \in ToSet(acts)
  BY <1>1, Innermost, ReplacedSet
<1>3. Visit(Top, Top.value)
  <2>1. \/ cuts' = cuts \cup {IF Calls(CurrentFunc) = {} THEN "leaf" ELSE "temporary"}
        \/ Keep
        \/ Visit(Top, Top.value)
    BY DEF Precheck
  <2>2. ~(cuts' = cuts \cup {IF Calls(CurrentFunc) = {} THEN "leaf" ELSE "temporary"})
    OBVIOUS
  <2> QED
    BY <1>1, <2>1, <2>2
<1>4. Top.path = <<>> /\ Top.phis \subseteq S
  <2>1. SoundIn(Top, S)
    BY <1>2, Zenon DEF Covers
  <2> QED
    BY <1>1, <2>1 DEF SoundIn
<1>5. /\ \A j \in DOMAIN Top.path : Top.path[j] \in S
      /\ Top.phase = "precheck" => Top.value = Top.value /\ Top.path = <<>>
      /\ Top.defs = Top.defs
  BY <1>4, EmptySeq
<1>6. \A x \in S : \A u :
        OpenIn(Top, x, u) => OpenIn(Top, x, u) \/ (Top.path # <<>> /\ x = Last(Top.path) /\ u[1] = Top.value)
  OBVIOUS
<1> QED
  BY <1>1, <1>2, <1>3, <1>4, <1>5, <1>6, VisitCovers

\* The head of a sequence and its tail are all of it.
LEMMA HeadAndTailSet ==
  ASSUME NEW R, NEW s \in Seq(R), s # <<>>
  PROVE  /\ Head(s) \in R /\ Tail(s) \in Seq(R)
         /\ \A y \in ToSet(s) : y = Head(s) \/ y \in ToSet(Tail(s))
<1> DEFINE n == Len(s)
           t == Tail(s)
<1>1. /\ Head(s) \in R /\ t \in Seq(R) /\ Len(t) = n - 1 /\ Head(s) = s[1]
      /\ \A i \in 1..Len(t) : t[i] = s[i + 1]
  BY HeadTailProperties
<1>2. n \in Nat \ {0} /\ DOMAIN s = 1..n /\ DOMAIN t = 1..(n - 1)
  BY <1>1, LenProperties, EmptySeq
<1> HIDE DEF t, n
<1>3. ASSUME NEW i \in 1..n, i # 1 PROVE i - 1 \in 1..(n - 1) /\ t[i - 1] = s[i]
  <2>1. i - 1 \in 1..(n - 1) /\ i - 1 + 1 = i
    BY <1>2, <1>3
  <2> QED
    BY <1>1, <2>1
<1>4. ASSUME NEW i \in 1..n PROVE s[i] = Head(s) \/ s[i] \in ToSet(t)
  BY <1>1, <1>2, <1>3 DEF ToSet
<1> QED
  BY <1>1, <1>2, <1>4 DEF ToSet, t

\* A definition is taken.
LEMMA FollowDefCovers ==
  ASSUME ValidModule(prog), SearchInv, FollowDef, NEW S, Covers(ToSet(acts), S),
         cuts' \subseteq {"uncorrelated"}
  PROVE  Keeps(ToSet(acts), S, ToSet(acts'), S)
<1> DEFINE d == Head(Top.defs)
           rest == Tail(Top.defs)
           c == d[2]
           f == Val(c).callee
           i == findArg(c, d[1])
           With(r) == [Top EXCEPT !.defs = rest, !.args = r]
<1>1. /\ verdict = "open" /\ Top.phase = "definitions" /\ Top.args = <<>> /\ Top.defs # <<>>
  BY DEF FollowDef, In
<1>2. /\ Top \in Activations /\ Top \in ToSet(acts) /\ Top.defs \in Seq(Followed)
      /\ Top \in [value : Values, phase : {"precheck", "search", "definitions"}, path : Seq(Values),
                 left : Seq(SUBSET (Values \X Nat)), phis : SUBSET Values, defs : Seq(Followed), args : Seq(Values)]
      /\ Len(Top.left) = Len(Top.path)
  BY <1>1, Innermost, ReplacedSet DEF Activations
<1>3. d \in Followed /\ rest \in Seq(Followed)
      /\ \A e \in ToSet(Top.defs) : e = d \/ e \in ToSet(rest)
  BY <1>1, <1>2, HeadAndTailSet
<1>4. \E r \in Seq(Values) : Follow(d) \subseteq ToSet(r) /\ acts' = Replace(With(r))
  <2>1. CASE isOmpExecutor(f) /\ canDiscardMicrotaskArg(i)
    <3>1. acts' = Replace([Top EXCEPT !.defs = rest])
      BY <2>1 DEF FollowDef
    <3>2. [Top EXCEPT !.defs = rest] = With(<<>>)
      <4> HIDE DEF rest
      <4> QED
        BY <1>1, <1>2
    <3>3. Follow(d) = {}
      BY <2>1 DEF Follow
    <3>4. <<>> \in Seq(Values)
      BY EmptySeq
    <3> QED
      BY <3>1, <3>2, <3>3, <3>4
  <2>2. CASE ~(isOmpExecutor(f) /\ canDiscardMicrotaskArg(i))
    <3>1. "recursion" \notin cuts'
      OBVIOUS
    <3>2. acts' = Replace([[Top EXCEPT !.defs = rest] EXCEPT !.args = args(c, i)])
      BY <2>2, <3>1 DEF FollowDef
    <3>3. [[Top EXCEPT !.defs = rest] EXCEPT !.args = args(c, i)] = With(args(c, i))
      <4> HIDE DEF rest, c, i
      <4> QED
        BY <1>2
    <3>4. Follow(d) = ToSet(args(c, i))
      BY <2>2 DEF Follow
    <3>5. args(c, i) \in Seq(Values)
      BY <1>3, <2>2, EnteredWith
    <3> HIDE DEF c, i, With, d
    <3> QED
      BY <3>2, <3>3, <3>4, <3>5
  <2> QED
    BY <2>1, <2>2
<1>5. PICK r \in Seq(Values) : Follow(d) \subseteq ToSet(r) /\ acts' = Replace(With(r))
  BY <1>4
<1> DEFINE b == With(r)
<1>6. /\ b \in Activations /\ b.args = r /\ b.defs = rest /\ b.phase = "definitions"
      /\ b.path = Top.path /\ b.left = Top.left /\ b.phis = Top.phis
  <2> HIDE DEF rest
  <2> QED
    BY <1>1, <1>2, <1>3 DEF Activations
<1>7. acts' = Replace(b)
  BY <1>5
<1> HIDE DEF d, rest, b
<1>8. \A y : WaitsIn(Top, y) => WaitsIn(b, y)
  <2>1. ASSUME NEW y, NEW e \in ToSet(Top.defs), y \in Follow(e) PROVE WaitsIn(b, y)
    BY <1>3, <1>5, <1>6, <2>1 DEF WaitsIn
  <2>2. ToSet(Top.args) = {} /\ Top.phase # "precheck"
    BY <1>1, NoneOnce
  <2> QED
    BY <2>1, <2>2 DEF WaitsIn
<1>9. \A x, u : OpenIn(Top, x, u) => OpenIn(b, x, u)
  BY <1>6 DEF OpenIn
<1>10. SoundIn(b, S)
  <2>1. SoundIn(Top, S)
    BY <1>2, Zenon DEF Covers
  <2> QED
    BY <1>1, <1>6, <2>1 DEF SoundIn
<1>11. S \subseteq Values
  BY DEF Covers
<1>12. \A x \in S \ S : Val(x).kind # "ret" /\ StoreDone({b}, S, x) /\ UsesDone({b}, S, x)
  OBVIOUS
<1> QED
  BY <1>1, <1>6, <1>7, <1>8, <1>9, <1>10, <1>11, <1>12, InsideCovers

\* The definition is searched.
LEMMA EnterDefCovers ==
  ASSUME ValidModule(prog), SearchInv, EnterDef, NEW S, Covers(ToSet(acts), S)
  PROVE  Keeps(ToSet(acts), S, ToSet(acts'), S)
<1> DEFINE v == Head(Top.args)
           rest == Tail(Top.args)
           a == [Top EXCEPT !.args = Tail(Top.args)]
           new == Activation(v)
           as == Replace(a)
           A2 == ToSet(acts')
<1>1. /\ verdict = "open" /\ Top.phase = "definitions" /\ Top.args # <<>>
      /\ acts' = Append(as, new)
  BY DEF EnterDef, In
<1>2. /\ Top \in Activations /\ Top \in ToSet(acts) /\ Top.args \in Seq(Values)
      /\ Top \in [value : Values, phase : {"precheck", "search", "definitions"}, path : Seq(Values),
                 left : Seq(SUBSET (Values \X Nat)), phis : SUBSET Values, defs : Seq(Followed), args : Seq(Values)]
      /\ Len(Top.left) = Len(Top.path)
  BY <1>1, Innermost, ReplacedSet DEF Activations
<1>3. v \in Values /\ rest \in Seq(Values) /\ \A y \in ToSet(Top.args) : y = v \/ y \in ToSet(rest)
  BY <1>1, <1>2, HeadAndTailSet
<1>4. /\ a \in Activations /\ a.args = rest /\ a.defs = Top.defs /\ a.phase = "definitions"
      /\ a.path = Top.path /\ a.left = Top.left /\ a.phis = Top.phis
  <2> HIDE DEF rest
  <2>1. a = [Top EXCEPT !.args = rest]
    BY DEF rest
  <2> HIDE DEF a
  <2> QED
    BY <1>1, <1>2, <1>3, <2>1 DEF Activations
<1>5. /\ new \in Activations /\ new.value = v /\ new.phase = "precheck" /\ new.path = <<>> /\ new.phis = {}
  <2>1. /\ <<>> \in Seq(Values) /\ <<>> \in Seq(Followed) /\ <<>> \in Seq(SUBSET (Values \X Nat))
    BY EmptySeq
  <2> HIDE DEF v
  <2> QED
    BY <1>3, <2>1 DEF Activation, Activations
<1>6. ToSet(acts) \ {Top} \subseteq ToSet(as) /\ a \in ToSet(as) /\ ToSet(as) \subseteq ToSet(acts) \cup {a}
      /\ as \in Seq(Activations)
  <2> HIDE DEF a
  <2> QED
    BY <1>1, <1>4, ReplacedSet, Replaced
<1> HIDE DEF as, new, a, v, rest
<1>7. A2 = ToSet(as) \cup {new}
  <2>1. PICK R : R = Activations
    OBVIOUS
  <2>2. PICK s \in Seq(R), e \in R : s = as /\ e = new
    BY <1>5, <1>6, <2>1
  <2>3. ToSet(Append(s, e)) = ToSet(s) \cup {e}
    BY AppendSet
  <2> QED
    BY <1>1, <2>2, <2>3
<1> HIDE DEF A2
<1>8. ASSUME NEW y, WaitsIn(Top, y) PROVE Met(A2, S, y)
  <2>1. \A b \in {a, new} : WaitsIn(b, y) => Met(A2, S, y)
    BY <1>6, <1>7 DEF Met, Waits
  <2>2. CASE y \in ToSet(Top.args)
    <3>1. CASE y = v
      BY <1>5, <2>1, <3>1 DEF WaitsIn
    <3>2. CASE y \in ToSet(rest)
      BY <1>4, <2>1, <3>2 DEF WaitsIn
    <3> QED
      BY <1>3, <2>2, <3>1, <3>2
  <2>3. CASE \E d \in ToSet(Top.defs) : y \in Follow(d)
    BY <1>4, <2>1, <2>3 DEF WaitsIn
  <2> QED
    BY <1>1, <1>8, <2>2, <2>3 DEF WaitsIn
<1>9. \A x, u : OpenIn(Top, x, u) => Open(A2, x, u)
  BY <1>4, <1>6, <1>7 DEF OpenIn, Open
<1>10. \A b \in {a, new} : SoundIn(b, S)
  <2>1. SoundIn(Top, S)
    BY <1>2, Zenon DEF Covers
  <2>2. SoundIn(a, S)
    BY <1>1, <1>4, <2>1 DEF SoundIn
  <2>3. SoundIn(new, S)
    BY <1>5, EmptySeq DEF SoundIn
  <2> QED
    BY <2>2, <2>3
<1>11. S \subseteq Values /\ \A x \in S \ S : Val(x).kind # "ret" /\ StoreDone(A2, S, x) /\ UsesDone(A2, S, x)
  BY DEF Covers
<1>12. Advances(ToSet(acts), S, Top, {a, new}, A2, S)
  <2>1. /\ ToSet(acts) \ {Top} \subseteq A2 /\ {a, new} \subseteq A2 /\ A2 \subseteq ToSet(acts) \cup {a, new}
    BY <1>6, <1>7
  <2> QED
    BY <1>2, <1>8, <1>9, <1>10, <1>11, <2>1, Zenon DEF Advances
<1> QED
  BY <1>12, CoversStep, Zenon DEF A2

\* A definition was searched.
LEMMA ReturnCovers ==
  ASSUME SearchInv, Return, NEW S, Covers(ToSet(acts), S)
  PROVE  Keeps(ToSet(acts), S, ToSet(acts'), S)
<1> DEFINE A2 == ToSet(acts')
           n == Len(acts)
<1>1. /\ verdict = "open" /\ Top.phase = "definitions" /\ Top.args = <<>> /\ Top.defs = <<>>
      /\ acts' = Front(acts)
  BY DEF Return, In, ReturnFilter
<1>2. /\ acts \in Seq(Activations) /\ acts # <<>> /\ Top = acts[n] /\ Top \in ToSet(acts)
  BY <1>1, Innermost, ReplacedSet DEF SearchInv
<1>3. /\ n \in Nat \ {0} /\ acts' \in Seq(Activations) /\ Len(acts') = n - 1
      /\ \A k \in 1..(n - 1) : acts'[k] = acts[k]
  BY <1>1, <1>2, FrontAndLast
<1>4. DOMAIN acts = 1..n /\ DOMAIN acts' = 1..(n - 1)
  BY <1>2, <1>3, LenProperties
<1> HIDE DEF n
<1>5. ToSet(acts) \ {Top} \subseteq A2 /\ A2 \subseteq ToSet(acts)
  <2>1. /\ \A k \in 1..n : k \in 1..(n - 1) \/ k = n
        /\ \A k \in 1..(n - 1) : k \in 1..n
    BY <1>3
  <2> QED
    BY <1>2, <1>3, <1>4, <2>1 DEF ToSet
<1> HIDE DEF A2
<1>6. \A y : ~WaitsIn(Top, y)
  BY <1>1, NoneOnce DEF WaitsIn
<1>7. \A x, u : ~OpenIn(Top, x, u)
  <2>1. SoundIn(Top, S)
    BY <1>2, Zenon DEF Covers
  <2>2. Top.path = <<>>
    BY <1>1, <2>1 DEF SoundIn
  <2> QED
    BY <2>2, EmptySeq DEF OpenIn
<1>8. S \subseteq Values /\ \A x \in S \ S : Val(x).kind # "ret" /\ StoreDone(A2, S, x) /\ UsesDone(A2, S, x)
  BY DEF Covers
<1>9. Advances(ToSet(acts), S, Top, {}, A2, S)
  BY <1>2, <1>5, <1>6, <1>7, <1>8, Zenon DEF Advances
<1> QED
  BY <1>9, CoversStep, Zenon DEF A2

-----------------------------------------------------------------------------
(* The invariant of the search.                                            *)

\* The searched value is among what was found or waits, unless the search gave
\* something up; when it ends, nothing waits.
SearchCovers ==
  /\ verdict = "filter" => acts = <<>>
  /\ verdict \in {"open", "filter"} /\ cuts \subseteq {"uncorrelated"} =>
       \E S : Covers(ToSet(acts), S) /\ Met(ToSet(acts), S, Head(queue))

LEMMA SameCovers ==
  ASSUME prog' = prog
  PROVE  \A A, S : (Covers(A, S)' <=> Covers(A, S)) /\ \A y : Met(A, S, y)' <=> Met(A, S, y)
<1>1. Values' = Values /\ \A v : Val(v)' = Val(v) /\ Uses(v)' = Uses(v) /\ Fun(v)' = Fun(v)
  BY DEF Values, Val, Uses, Fun
<1>2. \A v, w : findArg(v, w)' = findArg(v, w)
  BY DEF findArg, Val
<1>3. \A f : isOmpExecutor(f)' = isOmpExecutor(f) /\ IsDecl(f)' = IsDecl(f)
  BY <1>1 DEF isOmpExecutor, IsDecl
<1>4. \A v : getMicrotask(v)' = getMicrotask(v)
  BY DEF getMicrotask, Val
<1>5. \A v, i : args(v, i)' = args(v, i)
  BY DEF args, isOmpExecutor, getMicrotask, Fun, Val
<1>6. \A d : Follow(d)' = Follow(d)
  BY DEF Follow, args, isOmpExecutor, getMicrotask, Fun, Val, findArg
<1>7. \A A, S, y : Met(A, S, y)' <=> Met(A, S, y)
  BY <1>6 DEF Met, Waits, WaitsIn
<1>8. \A x : IsStore(x)' = IsStore(x) /\ IsCall(x)' = IsCall(x) /\ Pointer(x)' = Pointer(x)
  BY DEF IsStore, IsCall, Pointer, Val
<1>9. \A use : TargetUse(use)' <=> TargetUse(use)
  BY DEF TargetUse, IsCall, Val, Fun
<1>10. \A use, p : HandedAs(use, p)' <=> HandedAs(use, p)
  BY DEF HandedAs, IsDecl, Val, Fun, isOmpExecutor, getMicrotask
<1>11. \A A, S, use : Done(A, S, use)' <=> Done(A, S, use)
  BY <1>7, <1>8, <1>9, <1>10, Zenon DEF Done
<1>12. \A A, S, x : UsesDone(A, S, x)' <=> UsesDone(A, S, x)
  BY <1>1, <1>11, Zenon DEF UsesDone, Open, OpenIn
<1>13. \A A, S, x : StoreDone(A, S, x)' <=> StoreDone(A, S, x)
  BY <1>1, <1>8, Zenon DEF StoreDone, Open, OpenIn
<1>14. \A A, S : Covers(A, S)' <=> Covers(A, S)
  BY <1>1, <1>12, <1>13, Zenon DEF Covers, SoundIn
<1> QED
  BY <1>7, <1>14, Zenon

\* A search starts with the value itself.
LEMMA StartCovers ==
  ASSUME NEW v, NEW f, StartFilter(v, f)
  PROVE  Covers(ToSet(acts'), {}) /\ Met(ToSet(acts'), {}, v)
<1>1. acts' = <<Activation(v)>>
  BY DEF StartFilter
<1>2. PICK a : a = Activation(v)
  OBVIOUS
<1>3. a.phase = "precheck" /\ a.value = v /\ a.path = <<>> /\ a.phis = {}
  BY <1>2 DEF Activation
<1>4. ToSet(acts') = {a}
  BY <1>1, <1>2, OneOnce
<1>5. SoundIn(a, {})
  BY <1>3, EmptySeq DEF SoundIn
<1>6. WaitsIn(a, v)
  BY <1>3 DEF WaitsIn
<1> QED
  BY <1>4, <1>5, <1>6 DEF Covers, Met, Waits

\* A step of the search keeps the invariant.
LEMMA StepCovers ==
  ASSUME ValidModule(prog), SearchInv, SearchCovers, FilterStep, queue' = queue
  PROVE  SearchCovers'
<1>1. verdict = "open" /\ prog' = prog
  BY DEF FilterStep, Precheck, Successor, PopValue, FollowDef, EnterDef, Return, In
<1>2. verdict' = "filter" => acts' = <<>>
  <2>1. ASSUME verdict' = "filter" PROVE ReturnFilter
    <3>1. CASE Precheck
      BY <1>1, <2>1, <3>1 DEF Precheck, Keep, Visit
    <3>2. CASE Successor
      BY <1>1, <2>1, <3>2 DEF Successor, Keep, Visit
    <3>3. CASE PopValue \/ FollowDef \/ EnterDef
      BY <1>1, <2>1, <3>3 DEF PopValue, FollowDef, EnterDef
    <3>4. CASE Return
      BY <3>4 DEF Return
    <3> QED
      BY <3>1, <3>2, <3>3, <3>4 DEF FilterStep
  <2>2. ASSUME verdict' = "filter" PROVE acts' = <<>>
    <3>1. Len(acts) = 1 /\ acts' = Front(acts)
      BY <2>1, <2>2 DEF ReturnFilter
    <3>2. acts \in Seq(Activations) /\ acts # <<>>
      BY <1>1 DEF SearchInv
    <3>3. Front(acts) \in Seq(Activations) /\ Len(Front(acts)) = Len(acts) - 1
      BY <3>2, FrontAndLast
    <3>4. Len(Front(acts)) = 0
      BY <3>1, <3>3
    <3> QED
      BY <3>1, <3>3, <3>4, EmptySeq
  <2> QED
    BY <2>2
<1>3. ASSUME verdict' \in {"open", "filter"}, cuts' \subseteq {"uncorrelated"}
      PROVE  \E T : Covers(ToSet(acts'), T) /\ Met(ToSet(acts'), T, Head(queue))
  <2>1. cuts \subseteq cuts'
    BY DEF FilterStep, Precheck, Successor, PopValue, FollowDef, EnterDef, Return, Keep, Visit
  <2>2. PICK S : Covers(ToSet(acts), S) /\ Met(ToSet(acts), S, Head(queue))
    BY <1>1, <1>3, <2>1 DEF SearchCovers
  <2>3. verdict' # "keep"
    BY <1>3
  <2>4. \E T : Keeps(ToSet(acts), S, ToSet(acts'), T)
    <3>1. CASE Precheck
      BY <1>3, <2>2, <2>3, <3>1, PrecheckCovers
    <3>2. CASE Successor
      BY <1>3, <2>2, <2>3, <3>2, SuccessorCovers
    <3>3. CASE PopValue
      BY <2>2, <3>3, PopCovers
    <3>4. CASE FollowDef
      BY <1>3, <2>2, <3>4, FollowDefCovers
    <3>5. CASE EnterDef
      BY <2>2, <3>5, EnterDefCovers
    <3>6. CASE Return
      BY <2>2, <3>6, ReturnCovers
    <3> QED
      BY <3>1, <3>2, <3>3, <3>4, <3>5, <3>6 DEF FilterStep
  <2> QED
    BY <2>2, <2>4 DEF Keeps
<1>4. \A A, S : (Covers(A, S)' <=> Covers(A, S)) /\ \A y : Met(A, S, y)' <=> Met(A, S, y)
  BY <1>1, SameCovers
<1>5. ASSUME verdict' \in {"open", "filter"}, cuts' \subseteq {"uncorrelated"}
      PROVE  (\E T : Covers(ToSet(acts), T) /\ Met(ToSet(acts), T, Head(queue)))'
  <2>1. PICK T : Covers(ToSet(acts'), T) /\ Met(ToSet(acts'), T, Head(queue))
    BY <1>3, <1>5
  <2>2. (Covers(ToSet(acts), T) /\ Met(ToSet(acts), T, Head(queue)))'
    BY <1>4, <2>1
  <2> QED
    BY <2>2
<1> QED
  BY <1>2, <1>5, Zenon DEF SearchCovers

-----------------------------------------------------------------------------
(* What is collected, kept and reported.                                   *)

\* The search gave something up on the way from the value.
Excused(v) == v \in DOMAIN gaps /\ gaps[v] \ {"uncorrelated"} # {}

\* The value need not be instrumented.
NeedsNone(v) == ~Reaches(v) \/ Excused(v)

OnList(v, list) == v \in ToSet(list) \/ NeedsNone(v)

Reported(v) == Val(v).type.id = UnknownType \/ NeedsNone(v) \/ \E c \in Inserted : c.ptr = v

DueGlobals == {g \in Globals : ~FilteredGlobal(g)}

\* The allocas of a function that no filter but the search leaves out.
Due(f, mallocs) == {a \in AllocasOf(f) : ~FilteredAlloca(a, mallocs)}

StoredAll(f)   == \A a \in Due(f, functionMap[f].mallocs) : OnList(a, functionMap[f].allocas)
ReportedAll(f) == \A a \in Due(f, functionMap[f].mallocs) : Reported(a)

GlobalsFound ==
  /\ phase = "filterGlobals" => \A g \in DueGlobals : g \in ToSet(queue) \/ OnList(g, collector.globals)
  /\ phase \in {"find", "filterAllocas"} => \A g \in DueGlobals : OnList(g, collector.globals)
  /\ phase \in {"instrument", "done"} /\ conf.global => \A g \in DueGlobals : Reported(g)

AllocasFound ==
  /\ phase = "filterAllocas" /\ conf.stack =>
       \A a \in Due(Head(todo), collector.mallocs) : a \in ToSet(queue) \/ OnList(a, collector.allocas)
  /\ phase \in {"find", "filterAllocas"} /\ conf.stack => \A f \in Definitions \ ToSet(todo) : StoredAll(f)
  /\ phase = "instrument" /\ conf.stack => \A f \in ToSet(todo) : StoredAll(f)
  /\ phase \in {"instrument", "done"} /\ conf.stack => \A f \in Definitions \ ToSet(todo) : ReportedAll(f)
  /\ phase = "done" => todo = <<>>

\* Nothing that reaches the target API was lost on the way.
FoundInv == SearchCovers /\ GlobalsFound /\ AllocasFound

LEMMA SameReach ==
  ASSUME prog' = prog
  PROVE  \A v : Reaches(v)' <=> Reaches(v)
BY DEF Reaches, ReachableFrom, FlowsTo, Values, Users, Uses, IsStore, IsCall, Stored, Pointer, Val, Fun,
       IsDecl, isOmpExecutor, getMicrotask

\* What is due stays due.
LEMMA SameDue ==
  ASSUME prog' = prog, conf' = conf
  PROVE  /\ DueGlobals' = DueGlobals /\ Definitions' = Definitions /\ Globals' = Globals
         /\ \A f, m : Due(f, m)' = Due(f, m)
         /\ \A v : Val(v)' = Val(v)
<1>1. Definitions' = Definitions /\ Globals' = Globals /\ \A f : AllocasOf(f)' = AllocasOf(f)
  BY SameOperations
<1>2. \A g : FilteredGlobal(g)' <=> FilteredGlobal(g)
  BY DEF FilteredGlobal, Val
<1>3. \A a, m : FilteredAlloca(a, m)' <=> FilteredAlloca(a, m)
  BY DEF FilteredAlloca, NonArrayAlloca, MallocAllocPair, PointerAlloca, OfKind, Users, Uses, Stored, Val, FirstOf
<1>4. \A v : Val(v)' = Val(v)
  BY DEF Val
<1>5. DueGlobals' = DueGlobals
  BY <1>1, <1>2 DEF DueGlobals
<1>6. \A f, m : Due(f, m)' = Due(f, m)
  BY <1>1, <1>3 DEF Due
<1> QED
  BY <1>1, <1>4, <1>5, <1>6

LEMMA ConcatSet ==
  ASSUME NEW R, NEW s \in Seq(R), NEW t \in Seq(R)
  PROVE  s \o t \in Seq(R) /\ ToSet(s \o t) = ToSet(s) \cup ToSet(t)
<1> DEFINE m == Len(s)
           n == Len(t)
           u == s \o t
<1>1. /\ u \in Seq(R) /\ Len(u) = m + n /\ m \in Nat /\ n \in Nat
      /\ \A i \in 1..(m + n) : u[i] = IF i <= m THEN s[i] ELSE t[i - m]
  BY ConcatProperties, LenProperties
<1>2. DOMAIN u = 1..(m + n) /\ DOMAIN s = 1..m /\ DOMAIN t = 1..n
  BY <1>1, LenProperties
<1> HIDE DEF u, m, n
<1>3. \A i \in 1..(m + n) : IF i <= m THEN i \in 1..m ELSE i - m \in 1..n
  BY <1>1
<1>4. \A i \in 1..m : i \in 1..(m + n) /\ i <= m
  BY <1>1
<1>5. \A i \in 1..n : i + m \in 1..(m + n) /\ ~(i + m <= m) /\ i + m - m = i
  BY <1>1
<1>6. ASSUME NEW i \in 1..n PROVE u[i + m] = t[i]
  BY <1>1, <1>5
<1>7. \A e \in ToSet(u) : e \in ToSet(s) \cup ToSet(t)
  BY <1>1, <1>2, <1>3, Zenon DEF ToSet
<1>8. \A i \in 1..m : u[i] = s[i]
  BY <1>1, <1>4
<1>9. \A e \in ToSet(s) : e \in ToSet(u)
  BY <1>2, <1>4, <1>8, Zenon DEF ToSet
<1>10. \A e \in ToSet(t) : e \in ToSet(u)
  BY <1>2, <1>5, <1>6, Zenon DEF ToSet
<1> QED
  BY <1>1, <1>7, <1>9, <1>10 DEF u

\* Lists that are put together keep their elements.
LEMMA FlattenHas ==
  ASSUME NEW R, NEW n \in Nat, NEW ss, ss = [i \in 1..n |-> ss[i]], \A i \in 1..n : ss[i] \in Seq(R)
  PROVE  \A i \in 1..n : ToSet(ss[i]) \subseteq ToSet(FlattenSeq(ss))
<1> DEFINE flat == CHOOSE g : IsFlat(ss, Len(ss), g)
           Good(m) == flat[m] \in Seq(R) /\ \A i \in 1..m : ToSet(ss[i]) \subseteq ToSet(flat[m])
           Bad == {m \in 1..n : ~Good(m)}
<1>1. Len(ss) = n
  OBVIOUS
<1>2. IsFlat(ss, n, flat)
  BY <1>1, FlatExists
<1>3. FlattenSeq(ss) = IF n = 0 THEN ss ELSE flat[n]
  <2>1. FlattenSeq(ss) = IF Len(ss) = 0 THEN ss ELSE flat[Len(ss)]
    BY Zenon DEF FlattenSeq, IsFlat
  <2> HIDE DEF flat
  <2> QED
    BY <1>1, <2>1
<1>4. \A m \in 1..n : flat[m] = IF m = 1 THEN ss[m] ELSE flat[m - 1] \o ss[m]
  <2> HIDE DEF flat
  <2> QED
    BY <1>2 DEF IsFlat
<1> HIDE DEF flat
<1>5. ASSUME Bad # {} PROVE FALSE
  <2>1. PICK m \in Bad : \A k \in Bad : m <= k
    <3>1. Bad \subseteq Nat
      OBVIOUS
    <3> HIDE DEF Bad
    <3> QED
      BY <1>5, <3>1, LeastNatural
  <2>2. m \in 1..n /\ ~Good(m) /\ ss[m] \in Seq(R)
    OBVIOUS
  <2>3. CASE m = 1
    <3>1. 1..1 = {1}
      OBVIOUS
    <3>2. flat[1] = ss[1]
      BY <1>4, <2>2, <2>3
    <3> QED
      BY <2>2, <2>3, <3>1, <3>2
  <2>4. CASE m # 1
    <3>1. /\ m - 1 \in 1..n /\ ~(m <= m - 1)
          /\ \A k \in 1..m : k \in 1..(m - 1) \/ k = m
      BY <2>2, <2>4
    <3>2. Good(m - 1)
      <4> HIDE DEF Good
      <4> QED
        BY <2>1, <3>1
    <3>3. flat[m] = flat[m - 1] \o ss[m]
      BY <1>4, <2>2, <2>4
    <3>4. flat[m] \in Seq(R) /\ ToSet(flat[m]) = ToSet(flat[m - 1]) \cup ToSet(ss[m])
      BY <2>2, <3>2, <3>3, ConcatSet
    <3> QED
      BY <2>2, <3>1, <3>2, <3>4
  <2> QED
    BY <2>3, <2>4
<1>6. ASSUME NEW i \in 1..n PROVE ToSet(ss[i]) \subseteq ToSet(FlattenSeq(ss))
  <2>1. n \in 1..n /\ n # 0
    BY <1>6
  <2>2. Good(n)
    BY <1>5, <2>1
  <2> QED
    BY <1>3, <2>1, <2>2
<1> QED
  BY <1>6

\* A listed alloca of known type has a callback.
LEMMA StackFlatHas ==
  ASSUME ValidModule(prog), ValidOperations(prog), NEW f, NEW list \in Seq(AllocasOf(f)),
         NEW a \in ToSet(list), Val(a).type.id # UnknownType
  PROVE  \E c \in ToSet(StackFlat(f, list)) : c.ptr = a
<1> DEFINE ss == [i \in DOMAIN list |-> StackCallbacks(f, list[i])]
<1>1. PICK n \in Nat : n = Len(list)
  BY LenProperties
<1>2. DOMAIN list = 1..n
  BY <1>1, LenProperties, Zenon
<1>3. \A i \in 1..n : list[i] \in AllocasOf(f)
  BY <1>1, ElementOfSeq
<1>4. PICK k \in 1..n : list[k] = a
  BY <1>2 DEF ToSet
<1>5. /\ ss = [i \in 1..n |-> ss[i]] /\ \A i \in 1..n : ss[i] = StackCallbacks(f, list[i])
      /\ StackFlat(f, list) = FlattenSeq(ss)
  BY <1>2 DEF StackFlat
<1> HIDE DEF ss
<1>6. PICK R : R = UNION {ToSet(StackCallbacks(f, b)) : b \in AllocasOf(f)}
  OBVIOUS
<1>7. ASSUME NEW i \in 1..n PROVE ss[i] \in Seq(R)
  <2>1. StackCallbacks(f, list[i]) \in Seq(ToSet(StackCallbacks(f, list[i])))
    BY <1>3, StackShape
  <2>2. ToSet(StackCallbacks(f, list[i])) \subseteq R
    BY <1>3, <1>6
  <2> QED
    BY <1>5, <2>1, <2>2, SeqMonotonic
<1>8. ToSet(ss[k]) \subseteq ToSet(FlattenSeq(ss))
  BY <1>5, <1>7, FlattenHas
<1>9. \E c \in ToSet(StackCallbacks(f, a)) : c.ptr = a
  <2> DEFINE count == IF Val(a).vla THEN Val(a).size ELSE Val(a).size * Val(a).type.length
             at(op) == Callback("stack", f, op, a, Val(a).type.id, count)
             starts == IF conf.lifetime THEN InOrder(Lifetimes(a)) ELSE <<>>
             s == [i \in DOMAIN starts |-> at(starts[i])]
  <2>1. StackCallbacks(f, a) = IF Val(a).type.id = UnknownType THEN <<>> ELSE IF starts = <<>> THEN <<at(a)>> ELSE s
    BY Zenon DEF StackCallbacks
  <2>2. \A op : at(op).ptr = a
    BY DEF Callback
  <2>3. starts \in Seq(Lifetimes(a))
    <3>1. Lifetimes(a) \subseteq Values /\ \A c \in Lifetimes(a) : Val(c).kind \in {"call", "alloca"}
      BY DEF Lifetimes, Calls, IsCall
    <3>2. Listing(InOrder(Lifetimes(a)), Lifetimes(a))
      BY <3>1, InOrderLists
    <3>3. <<>> \in Seq(Lifetimes(a))
      BY EmptySeq
    <3> QED
      BY <3>2, <3>3, Zenon DEF Listing
  <2> HIDE DEF starts, at
  <2>4. CASE starts = <<>>
    <3>1. StackCallbacks(f, a) = <<at(a)>>
      BY <2>1, <2>4
    <3> QED
      BY <2>2, <3>1, OneElement, Zenon
  <2>5. CASE starts # <<>>
    <3>1. StackCallbacks(f, a) = s
      BY <2>1, <2>5
    <3>2. 1 \in DOMAIN starts
      <4>1. Len(starts) \in Nat \ {0} /\ DOMAIN starts = 1..Len(starts)
        BY <2>3, <2>5, LenProperties, EmptySeq
      <4> QED
        BY <4>1
    <3>3. DOMAIN s = DOMAIN starts /\ s[1] = at(starts[1])
      BY <3>2
    <3> HIDE DEF s
    <3>4. at(starts[1]) \in ToSet(s)
      BY <3>2, <3>3, Zenon DEF ToSet
    <3> QED
      BY <2>2, <3>1, <3>4
  <2> QED
    BY <2>4, <2>5
<1> QED
  BY <1>4, <1>5, <1>8, <1>9

LEMMA GlobalFlatHas ==
  ASSUME NEW list \in Seq(Globals), NEW g \in ToSet(list), Val(g).type.id # UnknownType
  PROVE  \E c \in ToSet(GlobalFlat(list)) : c.ptr = g
<1> DEFINE ss == [i \in DOMAIN list |-> GlobalCallbacks(list[i])]
<1>1. PICK n \in Nat : n = Len(list)
  BY LenProperties
<1>2. DOMAIN list = 1..n
  BY <1>1, LenProperties, Zenon
<1>3. PICK k \in 1..n : list[k] = g
  BY <1>2 DEF ToSet
<1>4. /\ ss = [i \in 1..n |-> ss[i]] /\ \A i \in 1..n : ss[i] = GlobalCallbacks(list[i])
      /\ GlobalFlat(list) = FlattenSeq(ss)
  BY <1>2 DEF GlobalFlat
<1> HIDE DEF ss
<1>5. PICK R : R = UNION {ToSet(GlobalCallbacks(list[i])) : i \in 1..n}
  OBVIOUS
<1>6. ASSUME NEW i \in 1..n PROVE ss[i] \in Seq(R)
  <2>1. GlobalCallbacks(list[i]) \in Seq(ToSet(GlobalCallbacks(list[i])))
    BY GlobalShape
  <2>2. ToSet(GlobalCallbacks(list[i])) \subseteq R
    BY <1>5
  <2> QED
    BY <1>4, <2>1, <2>2, SeqMonotonic
<1>7. ToSet(ss[k]) \subseteq ToSet(FlattenSeq(ss))
  BY <1>4, <1>6, FlattenHas
<1>8. \E c \in ToSet(GlobalCallbacks(g)) : c.ptr = g
  <2> DEFINE c == [name |-> "global", op |-> g, ptr |-> g, id |-> Val(g).type.id, count |-> Val(g).type.length]
  <2>1. GlobalCallbacks(g) = <<c>>
    BY Zenon DEF GlobalCallbacks
  <2>2. c.ptr = g
    OBVIOUS
  <2> HIDE DEF c
  <2> QED
    BY <2>1, <2>2, OneElement, Zenon
<1> QED
  BY <1>3, <1>4, <1>7, <1>8

LEMMA NeedsSame ==
  ASSUME prog' = prog, gaps' = gaps
  PROVE  \A v : NeedsNone(v)' <=> NeedsNone(v)
BY SameReach DEF NeedsNone, Excused

LEMMA FoundSame ==
  ASSUME GlobalsFound, AllocasFound,
         UNCHANGED <<prog, conf, phase, todo, queue, collector, functionMap, callbacks, gaps>>
  PROVE  GlobalsFound' /\ AllocasFound'
<1>1. \A v : NeedsNone(v)' <=> NeedsNone(v)
  BY NeedsSame
<1>2. /\ DueGlobals' = DueGlobals /\ Definitions' = Definitions
      /\ \A f, m : Due(f, m)' = Due(f, m)
      /\ \A v : Val(v)' = Val(v)
  BY SameDue
<1>3. \A v : Reported(v)' <=> Reported(v)
  BY <1>1, <1>2 DEF Reported, Inserted
<1>4. \A f : ReportedAll(f)' <=> ReportedAll(f)
  BY <1>2, <1>3 DEF ReportedAll
<1>5. \A f : StoredAll(f)' <=> StoredAll(f)
  BY <1>1, <1>2 DEF StoredAll, OnList
<1>6. GlobalsFound'
  BY <1>1, <1>2, <1>3 DEF GlobalsFound, OnList
<1>7. AllocasFound'
  BY <1>1, <1>2, <1>4, <1>5 DEF AllocasFound, OnList
<1> QED
  BY <1>6, <1>7

LEMMA FoundFindGlobals ==
  ASSUME Inv, FoundInv, FindGlobals
  PROVE  FoundInv'
<1>1. /\ ValidModule(prog) /\ ValidOperations(prog) /\ QueueInv
      /\ phase = "globals" /\ phase' = "filterGlobals" /\ prog' = prog /\ conf' = conf /\ verdict' = verdict
      /\ queue' = InOrder(DueGlobals)
  BY InvFacts DEF FindGlobals, filterVars, DueGlobals, Globals
<1>2. DueGlobals \subseteq Values /\ \A v \in DueGlobals : Val(v).kind = "global"
  BY DEF DueGlobals, Globals, OfKind
<1>3. Listing(InOrder(DueGlobals), DueGlobals)
  BY <1>1, <1>2, InOrderLists
<1>4. \A g \in DueGlobals : g \in ToSet(queue')
  BY <1>1, <1>3 DEF Listing, ToSet
<1>5. GlobalsFound'
  BY <1>1, <1>4, SameDue DEF GlobalsFound
<1>6. AllocasFound'
  BY <1>1 DEF AllocasFound
<1>7. SearchCovers'
  BY <1>1 DEF SearchCovers, QueueInv, Filtering
<1> QED
  BY <1>5, <1>6, <1>7 DEF FoundInv

LEMMA FoundEndGlobals ==
  ASSUME Inv, FoundInv, EndGlobals
  PROVE  FoundInv'
<1>1. /\ ValidModule(prog) /\ ValidOperations(prog) /\ QueueInv /\ GlobalsFound
      /\ phase = "filterGlobals" /\ phase' = "find" /\ queue = <<>> /\ todo' = DefinitionsInOrder
      /\ UNCHANGED <<prog, conf, verdict, collector, gaps>>
  BY InvFacts DEF EndGlobals, filterVars, FoundInv
<1>2. ToSet(queue) = {}
  BY <1>1, NoneOnce
<1>3. \A g \in DueGlobals : OnList(g, collector.globals)
  BY <1>1, <1>2 DEF GlobalsFound
<1>4. \A g \in DueGlobals' : OnList(g, collector.globals)'
  BY <1>1, <1>3, SameDue, NeedsSame DEF OnList
<1>5. GlobalsFound'
  BY <1>1, <1>4 DEF GlobalsFound
<1>6. Definitions \subseteq ToSet(todo')
  BY <1>1, DefinitionsListed DEF Listing, ToSet
<1>7. AllocasFound'
  BY <1>1, <1>6, SameDue DEF AllocasFound
<1>8. SearchCovers'
  BY <1>1 DEF SearchCovers, QueueInv
<1> QED
  BY <1>5, <1>7, <1>8 DEF FoundInv

LEMMA FoundFindInFunction ==
  ASSUME Inv, FoundInv, FindInFunction
  PROVE  FoundInv'
<1> DEFINE f == Head(todo)
           c == collect(f)
           S == {a \in ToSet(c.allocas) : ~FilteredAlloca(a, c.mallocs)}
           ends == \E m \in Mallocs(f) : conf.heap /\ CookieError(m)
<1>0. /\ ValidModule(prog) /\ ValidOperations(prog) /\ QueueInv /\ ListsInv /\ GlobalsFound /\ AllocasFound
  BY InvFacts DEF FoundInv
<1>1. /\ phase = "find" /\ UNCHANGED <<prog, verdict, conf, todo, functionMap, callbacks, gaps>>
      /\ \/ phase' = "exit"
         \/ ~ends /\ phase' = "filterAllocas" /\ queue' = InOrder(S) /\ collector' = [c EXCEPT !.allocas = <<>>]
  BY Zenon DEF FindInFunction, filterVars
<1>2. SearchCovers'
  BY <1>0, <1>1 DEF SearchCovers, QueueInv, Filtering
<1>3. CASE phase' = "exit"
  <2>1. GlobalsFound' /\ AllocasFound'
    BY <1>3 DEF GlobalsFound, AllocasFound
  <2> QED
    BY <1>2, <2>1 DEF FoundInv
<1>4. CASE ~ends /\ phase' = "filterAllocas" /\ queue' = InOrder(S) /\ collector' = [c EXCEPT !.allocas = <<>>]
  <2>1. /\ c \in Collected /\ c.globals = collector.globals
        /\ ToSet(c.allocas) \subseteq AllocasOf(f)
        /\ conf.stack => AllocasOf(f) \subseteq ToSet(c.allocas)
    BY <1>0, <1>1, <1>4, CollectLists DEF ListsInv
  <2>2. S \subseteq AllocasOf(f) /\ (conf.stack => Due(f, c.mallocs) \subseteq S)
    BY <2>1 DEF Due
  <2>3. AllocasOf(f) \subseteq Values /\ \A v \in AllocasOf(f) : Val(v).kind \in {"call", "alloca"}
    BY DEF AllocasOf, OfKind, InFunction
  <2> HIDE DEF S, c
  <2>4. Listing(queue', S)
    BY <1>0, <1>4, <2>2, <2>3, InOrderLists
  <2>5. S \subseteq ToSet(queue')
    BY <2>4 DEF Listing, ToSet
  <2>6. collector'.globals = collector.globals /\ collector'.mallocs = c.mallocs
    BY <1>4, <2>1 DEF Collected
  <2>7. conf.stack => \A a \in Due(f, collector'.mallocs) : a \in ToSet(queue')
    BY <2>2, <2>5, <2>6
  <2> HIDE DEF f
  <2>8. \A g \in DueGlobals' : OnList(g, collector.globals)'
    BY <1>0, <1>1, <2>6, SameDue, NeedsSame DEF OnList, GlobalsFound
  <2>9. GlobalsFound'
    BY <1>4, <2>8 DEF GlobalsFound
  <2>10. conf.stack => \A g \in Definitions \ ToSet(todo) : StoredAll(g)
    BY <1>0, <1>1 DEF AllocasFound
  <2>11. \A g : StoredAll(g) => StoredAll(g)'
    BY <1>1, SameDue, NeedsSame DEF StoredAll, OnList
  <2>12. (Due(Head(todo), collector.mallocs))' = Due(f, collector'.mallocs)
    BY <1>1, SameDue DEF f
  <2>13. Definitions' = Definitions
    BY <1>1, SameDue
  <2>14. AllocasFound'
    BY <1>1, <1>4, <2>7, <2>10, <2>11, <2>12, <2>13 DEF AllocasFound
  <2> QED
    BY <1>2, <2>9, <2>14 DEF FoundInv
<1> QED
  BY <1>1, <1>3, <1>4

LEMMA FoundStoreFunctionData ==
  ASSUME Inv, FoundInv, StoreFunctionData
  PROVE  FoundInv'
<1> DEFINE f == Head(todo)
           stored == [g \in DOMAIN functionMap \cup {f} |-> IF g = f THEN collector ELSE functionMap[g]]
<1>0. /\ ValidModule(prog) /\ QueueInv /\ ListsInv /\ TodoInv /\ GlobalsFound /\ AllocasFound
  BY InvFacts DEF FoundInv
<1>1. /\ phase = "filterAllocas" /\ queue = <<>> /\ functionMap' = stored /\ collector' = clear(collector)
      /\ phase' = "find" /\ todo' = Tail(todo)
      /\ UNCHANGED <<prog, verdict, conf, callbacks, gaps>>
  BY Zenon DEF StoreFunctionData, filterVars
<1>2. collector \in Collected /\ todo # <<>> /\ verdict = "idle"
  BY <1>0, <1>1 DEF ListsInv, QueueInv
<1>3. collector'.globals = collector.globals
  BY <1>1, <1>2 DEF clear, Collected
<1>4. ToSet(todo) = {f} \cup ToSet(todo')
  BY <1>0, <1>1, <1>2, TailRepeatsNot DEF TodoInv
<1>5. ToSet(queue) = {}
  BY <1>1, NoneOnce
<1>6. \A g \in DueGlobals' : OnList(g, collector.globals)'
  BY <1>0, <1>1, <1>3, SameDue, NeedsSame DEF OnList, GlobalsFound
<1>7. GlobalsFound'
  BY <1>1, <1>6 DEF GlobalsFound
<1>8. /\ DOMAIN functionMap' = DOMAIN functionMap \cup {f} /\ functionMap'[f] = collector
      /\ \A g \in DOMAIN functionMap : g # f => functionMap'[g] = functionMap[g]
  BY <1>1
<1>9. \A m, g : Due(g, m)' = Due(g, m)
  BY <1>1, SameDue
<1>10. \A v : NeedsNone(v)' <=> NeedsNone(v)
  BY <1>1, NeedsSame
<1>11. ASSUME conf.stack, NEW g \in Definitions \ ToSet(todo') PROVE StoredAll(g)'
  <2>1. CASE g = f
    <3>1. \A a \in Due(f, collector.mallocs) : OnList(a, collector.allocas)
      BY <1>0, <1>1, <1>5, <1>11 DEF AllocasFound
    <3>2. \A a \in Due(f, functionMap'[f].mallocs) : a \in ToSet(functionMap'[f].allocas) \/ NeedsNone(a)'
      BY <1>8, <1>10, <3>1 DEF OnList
    <3> HIDE DEF f
    <3> QED
      BY <1>9, <2>1, <3>2 DEF StoredAll, OnList
  <2>2. CASE g # f
    <3>1. g \in Definitions \ ToSet(todo) /\ g \in DOMAIN functionMap
      BY <1>0, <1>1, <1>4, <1>11, <2>2 DEF TodoInv
    <3>2. StoredAll(g)
      BY <1>0, <1>1, <1>11, <3>1 DEF AllocasFound
    <3>3. functionMap'[g] = functionMap[g]
      BY <1>8, <2>2, <3>1
    <3> QED
      BY <1>9, <1>10, <3>2, <3>3 DEF StoredAll, OnList
  <2> QED
    BY <2>1, <2>2
<1>12. AllocasFound'
  BY <1>1, <1>11, SameDue DEF AllocasFound
<1>13. SearchCovers'
  BY <1>1, <1>2 DEF SearchCovers
<1> QED
  BY <1>7, <1>12, <1>13 DEF FoundInv

LEMMA FoundEndFind ==
  ASSUME Inv, FoundInv, EndFind
  PROVE  FoundInv'
<1>0. /\ ValidModule(prog) /\ ValidOperations(prog) /\ QueueInv /\ GlobalsFound /\ AllocasFound
  BY InvFacts DEF FoundInv
<1>1. /\ phase = "find" /\ todo = <<>> /\ phase' = "instrument" /\ todo' = DefinitionsInOrder
      /\ UNCHANGED <<prog, verdict, conf, collector, functionMap, gaps>>
  BY DEF EndFind, filterVars
<1>2. conf.global => callbacks' = GlobalFlat(collector.globals)
  BY Zenon DEF EndFind, GlobalFlat
<1>3. /\ DueGlobals' = DueGlobals /\ Definitions' = Definitions
      /\ \A f, m : Due(f, m)' = Due(f, m)
      /\ \A v : Val(v)' = Val(v)
  BY <1>1, SameDue
<1>4. \A v : NeedsNone(v)' <=> NeedsNone(v)
  BY <1>1, NeedsSame
<1>5. ToSet(todo) = {}
  BY <1>1, NoneOnce
<1>6. ToSet(todo') = Definitions
  <2>1. Listing(todo', Definitions)
    BY <1>0, <1>1, DefinitionsListed
  <2>2. \A f \in Definitions : f \in ToSet(todo')
    BY <2>1 DEF Listing, ToSet
  <2>3. \A f \in ToSet(todo') : f \in Definitions
    BY <2>1, ElementOfSeq, LenProperties DEF Listing, ToSet
  <2> QED
    BY <2>2, <2>3
<1>7. ASSUME conf.stack, NEW f \in Definitions PROVE StoredAll(f)'
  <2>1. StoredAll(f)
    BY <1>0, <1>1, <1>5, <1>7 DEF AllocasFound
  <2> QED
    BY <1>1, <1>3, <1>4, <2>1 DEF StoredAll, OnList
<1>8. AllocasFound'
  BY <1>1, <1>3, <1>6, <1>7 DEF AllocasFound
<1>9. ASSUME conf.global, NEW g \in DueGlobals PROVE Reported(g)'
  <2>1. OnList(g, collector.globals)
    BY <1>0, <1>1 DEF GlobalsFound
  <2>2. collector.globals \in Seq(Globals)
    BY <1>0, <1>1 DEF QueueInv, Apart
  <2>3. ASSUME g \in ToSet(collector.globals), Val(g).type.id # UnknownType PROVE \E c \in Inserted' : c.ptr = g
    BY <1>2, <1>9, <2>2, <2>3, GlobalFlatHas DEF Inserted
  <2> QED
    BY <1>3, <1>4, <2>1, <2>3 DEF Reported, OnList
<1>10. GlobalsFound'
  BY <1>1, <1>3, <1>9 DEF GlobalsFound
<1>11. SearchCovers'
  BY <1>0, <1>1 DEF SearchCovers, QueueInv, Filtering
<1> QED
  BY <1>8, <1>10, <1>11 DEF FoundInv

LEMMA FoundInstrumentFunction ==
  ASSUME Inv, FoundInv, InstrumentFunction
  PROVE  FoundInv'
<1> DEFINE f == Head(todo)
           heap == HeapAdded(f, functionMap[f])
           stack == StackAdded(f, functionMap[f])
<1>0. /\ ValidModule(prog) /\ ValidOperations(prog) /\ QueueInv /\ TodoInv /\ CallbacksInv
      /\ GlobalsFound /\ AllocasFound
  BY InvFacts DEF FoundInv
<1>1. /\ phase = "instrument" /\ todo # <<>> /\ todo' = Tail(todo)
      /\ UNCHANGED <<prog, verdict, conf, phase, collector, functionMap, gaps>>
  BY DEF InstrumentFunction, filterVars
<1>2. callbacks' = callbacks \o heap \o stack
  BY Zenon DEF InstrumentFunction, HeapAdded, StackAdded, HeapFlat, FreeFlat, StackFlat
<1>3. f \in Definitions /\ ToSet(todo) = {f} \cup ToSet(todo')
  BY <1>0, <1>1, HeadAndTail, TailRepeatsNot DEF TodoInv
<1>4. ListsOf(f, functionMap[f])
  BY <1>0, <1>1, <1>3 DEF TodoInv
<1>5. ToSet(callbacks) \subseteq ToSet(callbacks') /\ ToSet(stack) \subseteq ToSet(callbacks')
  <2>1. PICK R : R = GlobalOf \cup UNION {CallbacksOf(g) : g \in Definitions}
    OBVIOUS
  <2>2. heap \in Seq(CallbacksOf(f)) /\ stack \in Seq(CallbacksOf(f))
    BY <1>0, <1>4, AddedOnce
  <2>3. CallbacksOf(f) \subseteq R
    BY <1>3, <2>1
  <2>4. GlobalOf \cup UNION {CallbacksOf(g) : g \in Definitions \ ToSet(todo)} \subseteq R
    BY <2>1
  <2> HIDE DEF heap, stack, f
  <2>5. callbacks \in Seq(R) /\ heap \in Seq(R) /\ stack \in Seq(R)
    BY <1>0, <2>2, <2>3, <2>4, SeqMonotonic DEF CallbacksInv
  <2>6. PICK s, t, u : s = callbacks /\ t = heap /\ u = stack
    OBVIOUS
  <2>7. s \o t \in Seq(R) /\ ToSet(s \o t) = ToSet(s) \cup ToSet(t)
    BY <2>5, <2>6, ConcatSet
  <2>8. ToSet(s \o t \o u) = ToSet(s \o t) \cup ToSet(u)
    <3>1. PICK w : w = s \o t
      OBVIOUS
    <3>2. w \in Seq(R) /\ u \in Seq(R)
      BY <2>5, <2>6, <2>7, <3>1
    <3>3. ToSet(w \o u) = ToSet(w) \cup ToSet(u)
      BY <3>2, ConcatSet
    <3> QED
      BY <3>1, <3>3
  <2> QED
    BY <1>2, <2>6, <2>7, <2>8
<1>6. /\ DueGlobals' = DueGlobals /\ Definitions' = Definitions
      /\ \A g, m : Due(g, m)' = Due(g, m)
      /\ \A v : Val(v)' = Val(v)
  BY <1>1, SameDue
<1>7. \A v : NeedsNone(v)' <=> NeedsNone(v)
  BY <1>1, NeedsSame
<1>8. \A v : Reported(v) => Reported(v)'
  BY <1>5, <1>6, <1>7 DEF Reported, Inserted
<1>9. GlobalsFound'
  BY <1>0, <1>1, <1>6, <1>8 DEF GlobalsFound
<1>10. ASSUME conf.stack, NEW g, g = f PROVE ReportedAll(g)'
  <2>1. StoredAll(g)
    BY <1>0, <1>1, <1>3, <1>10 DEF AllocasFound
  <2>2. stack = StackFlat(g, functionMap[g].allocas) /\ functionMap[g].allocas \in Seq(AllocasOf(g))
    BY <1>4, <1>10 DEF StackAdded, ListsOf
  <2> HIDE DEF f, stack
  <2>3. ASSUME NEW a \in Due(g, functionMap[g].mallocs) PROVE Reported(a)'
    <3>1. OnList(a, functionMap[g].allocas)
      BY <2>1, <2>3 DEF StoredAll
    <3>2. CASE NeedsNone(a) \/ Val(a).type.id = UnknownType
      BY <1>6, <1>7, <3>2 DEF Reported
    <3>3. CASE a \in ToSet(functionMap[g].allocas) /\ Val(a).type.id # UnknownType
      <4>1. \E c \in ToSet(stack) : c.ptr = a
        BY <1>0, <2>2, <3>3, StackFlatHas
      <4> QED
        BY <1>5, <4>1 DEF Reported, Inserted
    <3> QED
      BY <3>1, <3>2, <3>3 DEF OnList
  <2> QED
    BY <1>1, <1>6, <2>3 DEF ReportedAll
<1>11. ASSUME conf.stack, NEW g \in Definitions \ ToSet(todo') PROVE ReportedAll(g)'
  <2>1. CASE g = f
    BY <1>10, <1>11, <2>1
  <2>2. CASE g # f
    <3>1. g \in Definitions \ ToSet(todo)
      BY <1>3, <1>11, <2>2
    <3> HIDE DEF f
    <3>2. ReportedAll(g)
      BY <1>0, <1>1, <1>11, <3>1 DEF AllocasFound
    <3> QED
      BY <1>1, <1>6, <1>8, <3>2 DEF ReportedAll
  <2> QED
    BY <2>1, <2>2
<1>12. ASSUME conf.stack, NEW g \in ToSet(todo') PROVE StoredAll(g)'
  <2>1. StoredAll(g)
    BY <1>0, <1>1, <1>3, <1>12 DEF AllocasFound
  <2> QED
    BY <1>1, <1>6, <1>7, <2>1 DEF StoredAll, OnList
<1>13. AllocasFound'
  BY <1>1, <1>6, <1>11, <1>12 DEF AllocasFound
<1>14. SearchCovers'
  BY <1>0, <1>1 DEF SearchCovers, QueueInv, Filtering
<1> QED
  BY <1>9, <1>13, <1>14 DEF FoundInv

LEMMA FoundEndPass ==
  ASSUME Inv, FoundInv, EndPass
  PROVE  FoundInv'
<1>0. QueueInv /\ GlobalsFound /\ AllocasFound
  BY InvFacts DEF FoundInv
<1>1. /\ phase = "instrument" /\ phase' = "done" /\ todo = <<>>
      /\ UNCHANGED <<prog, verdict, conf, todo, queue, collector, functionMap, callbacks, gaps>>
  BY DEF EndPass, filterVars
<1>2. /\ DueGlobals' = DueGlobals /\ Definitions' = Definitions
      /\ \A g, m : Due(g, m)' = Due(g, m)
      /\ \A v : Val(v)' = Val(v)
  BY <1>1, SameDue
<1>3. \A v : Reported(v) => Reported(v)'
  BY <1>1, <1>2, NeedsSame DEF Reported, Inserted
<1>4. GlobalsFound'
  BY <1>0, <1>1, <1>2, <1>3 DEF GlobalsFound
<1>5. \A f : ReportedAll(f) => ReportedAll(f)'
  BY <1>1, <1>2, <1>3 DEF ReportedAll
<1>6. AllocasFound'
  BY <1>0, <1>1, <1>2, <1>5 DEF AllocasFound
<1>7. SearchCovers'
  BY <1>0, <1>1 DEF SearchCovers, QueueInv, Filtering
<1> QED
  BY <1>4, <1>6, <1>7 DEF FoundInv

\* The head of the queue goes to the list, or it need not be instrumented.
LEMMA HeadFound ==
  ASSUME Inv, GlobalsFound, AllocasFound, Filtering, queue # <<>>, NEW h, h = Head(queue), queue' = Tail(queue),
         collector' = collector \/ collector' = [collector EXCEPT ![KeptList] = Append(@, h)],
         NeedsNone(h)' \/ collector' = [collector EXCEPT ![KeptList] = Append(@, h)],
         \A v : v # h /\ NeedsNone(v) => NeedsNone(v)',
         UNCHANGED <<prog, conf, phase, todo, functionMap, callbacks>>
  PROVE  GlobalsFound' /\ AllocasFound'
<1>0. /\ QueueInv /\ ListsInv /\ TodoInv /\ phase \in {"filterGlobals", "filterAllocas"}
  BY InvFacts DEF Filtering
<1>1. h = Head(queue)
  OBVIOUS
<1>2. PICK kept : kept = IF phase = "filterGlobals" THEN collector.globals ELSE collector.allocas
  OBVIOUS
<1>3. PICK new : new = IF phase = "filterGlobals" THEN collector'.globals ELSE collector'.allocas
  OBVIOUS
<1>4. /\ kept \in Seq(Values)
      /\ collector' = [collector EXCEPT ![KeptList] = Append(@, h)] => new = Append(kept, h)
      /\ new = kept \/ new = Append(kept, h)
      /\ collector'.mallocs = collector.mallocs
      /\ phase = "filterAllocas" => collector'.globals = collector.globals
  BY <1>1, <1>2, <1>3, ListsTaken
<1>5. h \in Values /\ \A v \in ToSet(queue) : v = h \/ v \in ToSet(queue')
  <2>1. queue \in Seq(Values)
    BY <1>0 DEF QueueInv
  <2> QED
    BY <1>1, <2>1, HeadAndTailSet
<1>6. ToSet(Append(kept, h)) = ToSet(kept) \cup {h}
  BY <1>4, <1>5, AppendSet
<1>7. ToSet(kept) \subseteq ToSet(new) /\ (NeedsNone(h)' \/ h \in ToSet(new))
  BY <1>1, <1>4, <1>6
<1>8. \A v : v \in ToSet(queue) \/ OnList(v, kept) => v \in ToSet(queue') \/ v \in ToSet(new) \/ NeedsNone(v)'
  BY <1>1, <1>5, <1>7 DEF OnList
<1>9. /\ DueGlobals' = DueGlobals /\ Definitions' = Definitions
      /\ \A f, m : Due(f, m)' = Due(f, m)
      /\ \A v : Val(v)' = Val(v)
  BY SameDue
<1>10. CASE phase = "filterGlobals"
  <2>1. kept = collector.globals /\ new = collector'.globals
    BY <1>2, <1>3, <1>10
  <2>2. \A g \in DueGlobals : g \in ToSet(queue') \/ g \in ToSet(collector'.globals) \/ NeedsNone(g)'
    BY <1>8, <1>10, <2>1 DEF GlobalsFound
  <2>3. GlobalsFound'
    BY <1>9, <1>10, <2>2 DEF GlobalsFound, OnList
  <2>4. AllocasFound'
    BY <1>10 DEF AllocasFound
  <2> QED
    BY <2>3, <2>4
<1>11. CASE phase = "filterAllocas"
  <2>1. kept = collector.allocas /\ new = collector'.allocas
    BY <1>2, <1>3, <1>11
  <2>2. PICK t : t = Head(todo)
    OBVIOUS
  <2>3. h \in AllocasOf(t)
    <3>1. queue \in Seq(AllocasOf(t))
      BY <1>0, <1>11, <2>2 DEF QueueInv, Apart
    <3> QED
      BY <1>1, <3>1, HeadAndTailSet
  <2>4. Val(h).kind = "alloca" /\ Val(h).fn = t
    BY <2>3 DEF AllocasOf, OfKind, InFunction
  <2>5. t \in ToSet(todo)
    BY <1>0, <1>11, <2>2, TailRepeatsNot DEF TodoInv, ListsInv
  <2>6. \A g \in DueGlobals : g # h
    BY <2>4 DEF DueGlobals, Globals, OfKind
  <2>7. \A g \in DueGlobals : g \in ToSet(collector'.globals) \/ NeedsNone(g)'
    BY <1>1, <1>4, <1>11, <2>6 DEF GlobalsFound, OnList
  <2>8. GlobalsFound'
    BY <1>9, <1>11, <2>7 DEF GlobalsFound, OnList
  <2>9. conf.stack => \A a \in Due(t, collector'.mallocs) :
          a \in ToSet(queue') \/ a \in ToSet(collector'.allocas) \/ NeedsNone(a)'
    BY <1>4, <1>8, <1>11, <2>1, <2>2 DEF AllocasFound
  <2>10. ASSUME conf.stack, NEW f \in Definitions \ ToSet(todo) PROVE StoredAll(f)'
    <3>1. StoredAll(f) /\ f # t
      BY <1>11, <2>5, <2>10 DEF AllocasFound
    <3>2. \A a \in Due(f, functionMap[f].mallocs) : a # h
      BY <2>4, <3>1 DEF Due, AllocasOf, OfKind, InFunction
    <3> QED
      BY <1>1, <1>9, <3>1, <3>2 DEF StoredAll, OnList
  <2>11. (Due(Head(todo), collector.mallocs))' = Due(t, collector'.mallocs)
    BY <1>9, <2>2
  <2>12. AllocasFound'
    BY <1>9, <1>11, <2>9, <2>10, <2>11 DEF AllocasFound, OnList
  <2> QED
    BY <2>8, <2>12
<1> QED
  BY <1>0, <1>10, <1>11

LEMMA FoundKeepUnasked ==
  ASSUME Inv, FoundInv, KeepUnasked
  PROVE  FoundInv'
<1>1. /\ Filtering /\ queue # <<>> /\ verdict = "idle" /\ queue' = Tail(queue)
      /\ collector' = [collector EXCEPT ![KeptList] = Append(@, Head(queue))]
      /\ UNCHANGED <<prog, verdict, conf, phase, todo, functionMap, callbacks, gaps>>
  BY DEF KeepUnasked, filterVars
<1>2. \A v : NeedsNone(v) => NeedsNone(v)'
  BY <1>1, NeedsSame
<1>3. GlobalsFound' /\ AllocasFound'
  BY <1>1, <1>2, HeadFound DEF FoundInv
<1>4. SearchCovers'
  BY <1>1 DEF SearchCovers
<1> QED
  BY <1>3, <1>4 DEF FoundInv

\* What the search finds not to reach the target is not instrumented.
LEMMA FoundFilterAnswers ==
  ASSUME Inv, FoundInv, FilterAnswers
  PROVE  FoundInv'
<1>0. ValidModule(prog) /\ QueueInv /\ SearchCovers
  BY InvFacts DEF FoundInv
<1>1. /\ Filtering /\ verdict \in {"keep", "filter"} /\ queue' = Tail(queue) /\ verdict' = "idle"
      /\ collector' = IF verdict = "filter" THEN collector
                      ELSE [collector EXCEPT ![KeptList] = Append(@, Head(queue))]
      /\ gaps' = [v \in DOMAIN gaps \cup {Head(queue)} |-> IF v = Head(queue) THEN cuts ELSE gaps[v]]
      /\ UNCHANGED <<prog, conf, phase, todo, functionMap, callbacks>>
  BY DEF FilterAnswers
<1>2. queue # <<>>
  BY <1>0, <1>1 DEF QueueInv
<1>3. \A v : v # Head(queue) /\ Excused(v) => Excused(v)'
  BY <1>1 DEF Excused
<1>4. \A v : v # Head(queue) /\ NeedsNone(v) => NeedsNone(v)'
  BY <1>1, <1>3, SameReach DEF NeedsNone
<1>5. PICK h : h = Head(queue)
  OBVIOUS
<1>6. ASSUME verdict = "filter" PROVE NeedsNone(h)'
  <2>1. CASE cuts \subseteq {"uncorrelated"}
    <3>1. ToSet(acts) = {}
      BY <1>0, <1>6, NoneOnce DEF SearchCovers
    <3>2. PICK S : Covers({}, S) /\ Met({}, S, h)
      BY <1>0, <1>5, <1>6, <2>1, <3>1 DEF SearchCovers
    <3>3. ~Reaches(h)
      BY <1>0, <3>2, NothingReached
    <3> QED
      BY <1>1, <3>3, SameReach DEF NeedsNone
  <2>2. CASE ~(cuts \subseteq {"uncorrelated"})
    <3>1. h \in DOMAIN gaps' /\ gaps'[h] = cuts
      BY <1>1, <1>5
    <3>2. Excused(h)'
      BY <2>2, <3>1 DEF Excused
    <3> QED
      BY <3>2 DEF NeedsNone
  <2> QED
    BY <2>1, <2>2
<1>7. GlobalsFound' /\ AllocasFound'
  BY <1>1, <1>2, <1>4, <1>5, <1>6, HeadFound DEF FoundInv
<1>8. SearchCovers'
  BY <1>1 DEF SearchCovers
<1> QED
  BY <1>7, <1>8 DEF FoundInv

LEMMA FoundAskFilter ==
  ASSUME Inv, FoundInv, AskFilter
  PROVE  FoundInv'
<1>1. /\ prog' = prog /\ UNCHANGED <<conf, phase, todo, queue, collector, functionMap, callbacks, gaps>>
      /\ StartFilter(Head(queue), IF phase = "filterGlobals" THEN "none" ELSE Val(Head(queue)).fn)
  BY Zenon DEF AskFilter, passVars
<1>2. GlobalsFound' /\ AllocasFound'
  BY <1>1, FoundSame DEF FoundInv
<1>3. PICK h, f : h = Head(queue) /\ f = IF phase = "filterGlobals" THEN "none" ELSE Val(Head(queue)).fn
  OBVIOUS
<1>4. StartFilter(h, f)
  BY <1>1, <1>3
<1>5. Covers(ToSet(acts'), {}) /\ Met(ToSet(acts'), {}, h)
  BY <1>4, StartCovers
<1>6. (Covers(ToSet(acts), {}) /\ Met(ToSet(acts), {}, h))'
  BY <1>1, <1>5, SameCovers
<1>7. (\E S : Covers(ToSet(acts), S) /\ Met(ToSet(acts), S, Head(queue)))'
  BY <1>1, <1>3, <1>6
<1>8. verdict' = "open"
  BY <1>4 DEF StartFilter
<1>9. SearchCovers'
  BY <1>7, <1>8 DEF SearchCovers
<1> QED
  BY <1>2, <1>9 DEF FoundInv

LEMMA FoundSearch ==
  ASSUME Inv, FoundInv, Search
  PROVE  FoundInv'
<1>1. FilterStep /\ UNCHANGED <<conf, phase, todo, queue, collector, functionMap, callbacks, gaps>>
  BY DEF Search, passVars
<1>2. prog' = prog
  BY <1>1 DEF FilterStep, Precheck, Successor, PopValue, FollowDef, EnterDef, Return, In
<1>3. SearchCovers'
  BY <1>1, InvFacts, StepCovers DEF FoundInv
<1>4. GlobalsFound' /\ AllocasFound'
  BY <1>1, <1>2, FoundSame DEF FoundInv
<1> QED
  BY <1>3, <1>4 DEF FoundInv

LEMMA FoundStutters ==
  ASSUME FoundInv, UNCHANGED vars
  PROVE  FoundInv'
<1>1. UNCHANGED <<prog, acts, verdict, cuts, conf, phase, todo, queue, collector, functionMap, callbacks, gaps>>
  BY DEF vars, passVars, filterVars
<1>2. GlobalsFound' /\ AllocasFound'
  BY <1>1, FoundSame DEF FoundInv
<1>3. SearchCovers'
  <2>1. \A A, S : (Covers(A, S)' <=> Covers(A, S)) /\ \A y : Met(A, S, y)' <=> Met(A, S, y)
    BY <1>1, SameCovers
  <2>2. ASSUME NEW S, Covers(ToSet(acts), S) /\ Met(ToSet(acts), S, Head(queue))
        PROVE  (Covers(ToSet(acts), S) /\ Met(ToSet(acts), S, Head(queue)))'
    BY <1>1, <2>1, <2>2
  <2>3. (\E S : Covers(ToSet(acts), S) /\ Met(ToSet(acts), S, Head(queue)))
        => (\E S : Covers(ToSet(acts), S) /\ Met(ToSet(acts), S, Head(queue)))'
    BY <2>2
  <2> QED
    BY <1>1, <2>3 DEF FoundInv, SearchCovers
<1> QED
  BY <1>2, <1>3 DEF FoundInv

LEMMA FoundInductive ==
  ASSUME Inv, FoundInv, [Next]_vars
  PROVE  FoundInv'
<1>1. CASE FindGlobals
  BY <1>1, FoundFindGlobals
<1>2. CASE AskFilter
  BY <1>2, FoundAskFilter
<1>3. CASE KeepUnasked
  BY <1>3, FoundKeepUnasked
<1>4. CASE FilterAnswers
  BY <1>4, FoundFilterAnswers
<1>5. CASE EndGlobals
  BY <1>5, FoundEndGlobals
<1>6. CASE FindInFunction
  BY <1>6, FoundFindInFunction
<1>7. CASE StoreFunctionData
  BY <1>7, FoundStoreFunctionData
<1>8. CASE EndFind
  BY <1>8, FoundEndFind
<1>9. CASE InstrumentFunction
  BY <1>9, FoundInstrumentFunction
<1>10. CASE EndPass
  BY <1>10, FoundEndPass
<1>11. CASE Search
  BY <1>11, FoundSearch
<1>12. CASE UNCHANGED vars
  BY <1>12, FoundStutters
<1> QED
  BY <1>1, <1>2, <1>3, <1>4, <1>5, <1>6, <1>7, <1>8, <1>9, <1>10, <1>11, <1>12 DEF Next

LEMMA FoundSuffices ==
  ASSUME Inv, FoundInv
  PROVE  ReachingInstrumented
<1>0. ValidModule(prog) /\ GlobalsFound /\ AllocasFound
  BY InvFacts DEF FoundInv
<1>1. ASSUME phase = "done", NEW v \in OfKind(Values, "global")
      PROVE  ~Reaches(v) \/ LeftOut(v) \/ (\E c \in Inserted : c.ptr = v) \/ Excused(v)
  <2>1. CASE conf.global /\ ~FilteredGlobal(v)
    <3>1. Reported(v)
      BY <1>0, <1>1, <2>1 DEF GlobalsFound, DueGlobals, Globals
    <3> QED
      BY <3>1 DEF Reported, NeedsNone, LeftOut
  <2>2. CASE ~conf.global \/ FilteredGlobal(v)
    BY <1>1, <2>2 DEF LeftOut, OfKind
  <2> QED
    BY <2>1, <2>2
<1>2. ASSUME phase = "done", NEW v \in OfKind(Values, "alloca")
      PROVE  ~Reaches(v) \/ LeftOut(v) \/ (\E c \in Inserted : c.ptr = v) \/ Excused(v)
  <2>1. PICK f : f = Val(v).fn
    OBVIOUS
  <2>2. v \in Values /\ Val(v).kind = "alloca"
    BY <1>2 DEF OfKind
  <2>3. f \in Functions /\ Fun(f).kind = "def"
    BY <1>0, <2>1, <2>2 DEF ValidModule, Values, Functions, Val, Fun
  <2>4. CASE conf.stack /\ ~FilteredAlloca(v, functionMap[f].mallocs) /\ ~Fun(f).typeart
    <3>1. v \in Due(f, functionMap[f].mallocs)
      BY <2>1, <2>2, <2>4 DEF Due, AllocasOf, OfKind, InFunction
    <3>2. f \in Definitions \ ToSet(todo)
      BY <1>0, <1>2, <2>3, <2>4, NoneOnce DEF Definitions, AllocasFound
    <3>3. Reported(v)
      BY <1>0, <1>2, <2>4, <3>1, <3>2 DEF AllocasFound, ReportedAll
    <3> QED
      BY <3>3 DEF Reported, NeedsNone, LeftOut
  <2>5. CASE ~(conf.stack /\ ~FilteredAlloca(v, functionMap[f].mallocs) /\ ~Fun(f).typeart)
    BY <2>1, <2>2, <2>5 DEF LeftOut
  <2> QED
    BY <2>4, <2>5
<1> QED
  BY <1>1, <1>2 DEF ReachingInstrumented, Excused

\* What reaches the target API is instrumented, of every module and with all
\* options, unless the search gave something up or an option leaves it out.
THEOREM NothingLost == Spec => []ReachingInstrumented
<1>1. PassInit => FoundInv
  BY DEF PassInit, Idle, FoundInv, SearchCovers, GlobalsFound, AllocasFound
<1>2. Inv /\ FoundInv /\ [Next]_vars => FoundInv'
  BY FoundInductive
<1>3. Inv /\ FoundInv => ReachingInstrumented
  BY FoundSuffices
<1> QED
  BY <1>1, <1>2, <1>3, PassInvariant, PTL DEF Spec
=============================================================================
