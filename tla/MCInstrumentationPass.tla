----------------------- MODULE MCInstrumentationPass ------------------------
(***************************************************************************)
(* Modules and options for TLC.  The modules follow the tests of the       *)
(* repository (test/pass/filter, test/pass/array_cookie) and the shapes at *)
(* which the search gives up.                                              *)
(***************************************************************************)
EXTENDS InstrumentationPass, TLC

\* Functions.
Fn(kind, at, params, void) ==
  [kind |-> kind, at |-> at, params |-> params, void |-> void, match |-> FALSE, deep |-> FALSE,
   oracle |-> "none", omp |-> "none", ompContext |-> FALSE, mem |-> "none", lifetime |-> FALSE,
   typeart |-> FALSE, callees |-> {}]
Def(at, params)  == Fn("def", at, params, [i \in DOMAIN params |-> FALSE])
Outlined(at, ps) == [Def(at, ps) EXCEPT !.ompContext = TRUE]
Decl(void)       == Fn("decl", 0, <<>>, void)
Memory(op)       == [Decl(<<FALSE, FALSE>>) EXCEPT !.mem = op, !.oracle = "skip"]

Library ==
  [MPI_Send |-> [Decl(<<TRUE, FALSE>>) EXCEPT !.match = TRUE, !.deep = TRUE],
   printf   |-> [Decl(<<FALSE>>) EXCEPT !.oracle = "skip"],
   sqrt     |-> [Decl(<<FALSE>>) EXCEPT !.oracle = "continue"],
   ext      |-> Decl(<<FALSE>>),
   fork     |-> [Decl(<<FALSE, FALSE, FALSE>>) EXCEPT !.omp = "fork"],
   omp_get  |-> [Decl(<<FALSE>>) EXCEPT !.omp = "helper"],
   task     |-> [Decl(<<FALSE>>) EXCEPT !.omp = "task"],
   newtask  |-> [Decl(<<FALSE>>) EXCEPT !.omp = "taskalloc"],
   memcpy   |-> Fn("intrinsic", 0, <<>>, <<FALSE, FALSE>>),
   lifetime |-> [Fn("intrinsic", 0, <<>>, <<FALSE, FALSE>>) EXCEPT !.lifetime = TRUE],
   malloc   |-> Memory("malloc"), calloc |-> Memory("calloc"), realloc |-> Memory("realloc"),
   aligned  |-> Memory("aligned_alloc"), free |-> Memory("free")]

\* Types and values; an address is a block and an offset in it.
Ty(name, id, bits, size) ==
  [name |-> name, id |-> id, bits |-> bits, size |-> size, length |-> 1, array |-> FALSE]
I32    == Ty("i32", 2, 32, 4)
I64    == Ty("i64", 3, 64, 8)
F80    == Ty("x86_fp80", X86_FP80, 80, 16)
Ptr    == Ty("ptr", 10, 0, 8)
Odd    == Ty("i128", UnknownType, 128, 16)
Struct == Ty("struct", NumReservedIds, 0, 16)
ArrOf(type, n) == [type EXCEPT !.length = n, !.array = TRUE]
Arr(n) == ArrOf(I32, n)

Node(kind, at, fn, ops) == [kind |-> kind, at |-> at, fn |-> fn, ops |-> ops]
At(b, n)                == [block |-> b, offset |-> n]
Alloca(at, fn, type) ==
  [kind |-> "alloca", at |-> at, fn |-> fn, ops |-> <<>>, type |-> type, size |-> 1, vla |-> FALSE,
   pointer |-> type = Ptr]
Global(at, type) ==
  [kind |-> "global", at |-> at, fn |-> "none", ops |-> <<>>, type |-> type, internal |-> FALSE]
Arg(fn)              == Node("arg", 0, fn, <<>>)
Function(f)          == [kind |-> "function", at |-> 0, fn |-> "none", ops |-> <<>>, function |-> f]
Const(n)             == [kind |-> "const", at |-> 0, fn |-> "none", ops |-> <<>>, num |-> n]
Inst(at, fn, ops)    == Node("inst", at, fn, ops)
Call(at, fn, f, ops) == [kind |-> "call", at |-> at, fn |-> fn, ops |-> ops, callee |-> f]
Store(at, fn, v, p)  == [kind |-> "store", at |-> at, fn |-> fn, ops |-> <<v, p>>, pointer |-> TRUE]
Block(at, fn, f, ops, b) ==
  [kind |-> "call", at |-> at, fn |-> fn, ops |-> ops, callee |-> f, address |-> At(b, 0)]
Cast(at, fn, v, type, a) ==
  [kind |-> "bitcast", at |-> at, fn |-> fn, ops |-> <<v>>, type |-> type, address |-> a]
Gep(at, fn, v, a)  == [kind |-> "gep", at |-> at, fn |-> fn, ops |-> <<v>>, address |-> a]
Load(at, fn, v, a) == [kind |-> "load", at |-> at, fn |-> fn, ops |-> <<v>>, address |-> a]

\* Every operand of a value is a use; the call graph has the direct calls.
Module(values, functions) ==
  LET callees(f) ==
        {values[c].callee : c \in {v \in DOMAIN values : /\ values[v].kind = "call" /\ values[v].fn = f
                                                         /\ values[v].callee # "indirect"}}
      uses(v) == UNION {{<<u, i>> : i \in {j \in DOMAIN values[u].ops : values[u].ops[j] = v}} : u \in DOMAIN values}
  IN  [layouts |-> NumReservedIds :> [extent |-> Struct.size],
       values |-> values, uses |-> [v \in DOMAIN values |-> uses(v)] @@ <<>>,
       functions |-> [f \in DOMAIN functions |-> [functions[f] EXCEPT !.callees = callees(f)]] @@ Library]

\* x is sent, y is printed, z goes to a function that calls nothing.
Direct ==
  Module([x |-> Alloca(1, "main", Arr(4)), y |-> Alloca(2, "main", I32), z |-> Alloca(3, "main", I32),
          q |-> [Alloca(4, "main", I32) EXCEPT !.vla = TRUE, !.size = 5],
          l |-> Call(5, "main", "lifetime", <<"c", "x">>), l2 |-> Call(6, "main", "lifetime", <<"c", "y">>),
          b |-> Cast(7, "main", "x", I64, At("x", 0)), s |-> Call(8, "main", "MPI_Send", <<"b", "c">>),
          t |-> Call(9, "main", "printf", <<"y">>), u |-> Call(10, "main", "leaf", <<"z">>),
          w |-> Call(11, "main", "ext", <<"q">>), o |-> Alloca(12, "main", Odd),
          a |-> Store(13, "main", "o", "z"), c |-> Const(4), p |-> Arg("leaf")],
         [main |-> Def(1, <<>>), leaf |-> Def(2, <<"p">>)])

\* Through two functions, as the second argument; sqrt returns what it is given.
Chain ==
  Module([x |-> Alloca(1, "main", I32), y |-> Alloca(2, "main", I32), c1 |-> Call(3, "main", "foo", <<"y", "x">>),
          a |-> Arg("foo"), p |-> Arg("foo"), m |-> Call(4, "foo", "sqrt", <<"p">>),
          c2 |-> Call(5, "foo", "bar", <<"m">>), c3 |-> Call(6, "foo", "printf", <<"a">>),
          r |-> Arg("bar"), s |-> Call(7, "bar", "MPI_Send", <<"r", "k">>), k |-> Const(1)],
         [main |-> Def(1, <<>>), foo |-> Def(2, <<"a", "p">>),
          bar |-> Def(3, <<"r">>)])

\* test/pass/filter/02_recursion.c with a send of the parameter.
Recursion ==
  Module([x |-> Alloca(1, "foo", I32), p |-> Arg("foo"), c1 |-> Call(2, "foo", "foo", <<"x">>),
          s |-> Call(3, "foo", "MPI_Send", <<"p", "k">>), k |-> Const(1)],
         [foo |-> Def(1, <<"p">>)])

\* Two functions that call each other; only the inner one sends.
Mutual ==
  Module([x |-> Alloca(1, "main", I32), c0 |-> Call(2, "main", "even", <<"x">>),
          p |-> Arg("even"), c1 |-> Call(3, "even", "odd", <<"p">>),
          r |-> Arg("odd"), c2 |-> Call(4, "odd", "even", <<"r">>), c3 |-> Call(5, "odd", "printf", <<"r">>)],
         [main |-> Def(1, <<>>), even |-> Def(2, <<"p">>), odd |-> Def(3, <<"r">>)])

\* A parallel region: the fork passes x and y on; the first is sent.
Parallel ==
  Module([x |-> Alloca(1, "main", I32), y |-> Alloca(2, "main", I32), i |-> Alloca(3, "main", I32),
          f |-> Call(4, "main", "fork", <<"i", "k", "fn", "x", "y">>), h |-> Call(5, "main", "omp_get", <<"i">>),
          fn |-> Function("out"), k |-> Const(2), g1 |-> Arg("out"), g2 |-> Arg("out"),
          px |-> Arg("out"), py |-> Arg("out"), z |-> Alloca(6, "out", I32),
          s |-> Call(7, "out", "MPI_Send", <<"px", "k">>), t |-> Call(8, "out", "printf", <<"py">>),
          n |-> Call(9, "out", "newtask", <<"k">>), d |-> Store(10, "out", "z", "n"),
          e |-> Alloca(11, "out", I32), sg |-> Node("structgep", 12, "out", <<"n">>),
          d2 |-> Store(13, "out", "e", "sg")],
         [main |-> Def(1, <<>>), out |-> Outlined(2, <<"g1", "g2", "px", "py">>)])

\* Through memory: x by a pointer variable and a loop, y by a global that a
\* function without calls sets, p by the variable its argument is kept in.
Memories ==
  Module([x |-> Alloca(1, "main", I32), q |-> Alloca(2, "main", Ptr), s1 |-> Store(3, "main", "x", "q"),
          l |-> Load(4, "main", "q", At("x", 0)), ph |-> Node("phi", 5, "main", <<"l", "g1">>),
          g1 |-> Inst(6, "main", <<"ph">>), m |-> Call(7, "main", "MPI_Send", <<"g1", "k">>),
          y |-> Alloca(8, "main", I32), c |-> Call(9, "main", "set", <<"y">>),
          p |-> Arg("set"), s2 |-> Store(10, "set", "p", "g"), g |-> Global(0, Ptr),
          l2 |-> Load(11, "main", "g", At("y", 0)), m2 |-> Call(12, "main", "MPI_Send", <<"l2", "k">>),
          v |-> Alloca(13, "main", I32), s3 |-> [Store(14, "main", "v", "x") EXCEPT !.pointer = FALSE],
          hidden |-> [Global(15, I32) EXCEPT !.internal = TRUE], k |-> Const(1)],
         [main |-> Def(1, <<>>), set |-> Def(2, <<"p">>)])

\* The argument of a function is kept in a variable, whose address is sent; x is
\* passed twice, and sent as the second argument.
Twice ==
  Module([x |-> Alloca(1, "main", I32), c |-> Call(2, "main", "foo", <<"x", "x">>),
          a |-> Arg("foo"), b |-> Arg("foo"), t |-> Alloca(3, "foo", Ptr), s |-> Store(4, "foo", "a", "t"),
          m |-> Call(5, "foo", "MPI_Send", <<"b", "k">>), m2 |-> Call(6, "foo", "MPI_Send", <<"t", "k">>),
          k |-> Const(1)],
         [main |-> Def(1, <<>>), foo |-> Def(2, <<"a", "b">>)])

\* x is stored where a function without parameters says, then passed twice.
Getter ==
  Module([x |-> Alloca(1, "main", I32), c |-> Call(2, "main", "foo", <<"x", "k">>),
          c2 |-> Call(3, "main", "foo", <<"k", "x">>),
          a |-> Arg("foo"), b |-> Arg("foo"), d |-> Call(4, "foo", "get", <<>>), s |-> Store(5, "foo", "a", "d"),
          m |-> Call(6, "foo", "MPI_Send", <<"b", "k">>), k |-> Const(1)],
         [main |-> Def(1, <<>>), foo |-> Def(2, <<"a", "b">>), get |-> Def(3, <<>>)])

\* A recursive function whose result is stored to.
Endless ==
  Module([x |-> Alloca(1, "main", I32), c |-> Call(2, "main", "foo", <<"k", "k">>), s |-> Store(3, "main", "x", "c"),
          a |-> Arg("foo"), b |-> Arg("foo"), d |-> Call(4, "foo", "foo", <<"a", "b">>),
          s2 |-> Store(5, "foo", "b", "d"), k |-> Const(1)],
         [main |-> Def(1, <<>>), foo |-> Def(2, <<"a", "b">>)])

\* g is sent by the caller of the function that returns it; x by the caller of the
\* function it is passed to and comes back from.
Returned ==
  Module([g |-> Global(0, Arr(4)), t |-> Call(1, "get", "printf", <<"k">>), r |-> Node("ret", 2, "get", <<"g">>),
          c |-> Call(3, "main", "get", <<>>), s |-> Call(4, "main", "MPI_Send", <<"c", "k">>),
          x |-> Alloca(5, "main", I32), d |-> Call(6, "main", "same", <<"x">>), p |-> Arg("same"),
          u |-> Call(7, "same", "printf", <<"p">>), r2 |-> Node("ret", 8, "same", <<"p">>),
          s2 |-> Call(9, "main", "MPI_Send", <<"d", "k">>), k |-> Const(1)],
         [main |-> Def(1, <<>>), get |-> Def(2, <<>>), same |-> Def(3, <<"p">>)])

\* x goes into a function that is named like the target, but not as a void pointer;
\* y to a function that is passed its own result; z is stored to allocated memory;
\* w is passed twice, and sent as the second argument.
Losses ==
  Module([x |-> Alloca(1, "main", I32), c |-> Call(2, "main", "MPI_Local", <<"x">>), p |-> Arg("MPI_Local"),
          m |-> Call(3, "MPI_Local", "MPI_Send", <<"p", "k">>),
          y |-> Alloca(4, "main", I32), n |-> Call(5, "main", "next", <<"y", "ph">>),
          ph |-> Node("phi", 6, "main", <<"n", "y">>), a |-> Arg("next"), b |-> Arg("next"),
          t |-> Call(7, "next", "MPI_Send", <<"b", "k">>),
          z |-> Alloca(8, "main", I32), h |-> Block(9, "main", "malloc", <<"k">>, "h"),
          s |-> Store(10, "main", "z", "h"), u |-> Call(11, "main", "MPI_Send", <<"h", "k">>), k |-> Const(8),
          w |-> Alloca(12, "main", I32), n2 |-> Call(13, "main", "next", <<"w", "w">>)],
         [main |-> Def(1, <<>>), MPI_Local |-> [Def(2, <<"p">>) EXCEPT !.match = TRUE, !.deep = TRUE],
          next |-> Def(3, <<"a", "b">>)])

\* A call through a pointer, a wrapper that is named like the target, and a task.
Unknowns ==
  Module([x |-> Alloca(1, "main", I32), c |-> Call(2, "main", "indirect", <<"x">>),
          y |-> Alloca(3, "main", I32), c2 |-> Call(4, "main", "my_MPI_Send", <<"y">>), p |-> Arg("my_MPI_Send"),
          z |-> Alloca(5, "main", I32), c3 |-> Call(6, "main", "memcpy", <<"z", "x">>),
          w |-> Alloca(7, "main", I32), c4 |-> Call(8, "main", "MPI_Send", <<"k", "w">>),
          c5 |-> Call(9, "main", "ext", <<"w">>), c6 |-> Call(10, "main", "quiet", <<"z">>), r |-> Arg("quiet"),
          c7 |-> Call(11, "other", "task", <<"v">>), v |-> Alloca(12, "other", I32), k |-> Const(1)],
         [main |-> Def(1, <<>>), my_MPI_Send |-> [Def(2, <<"p">>) EXCEPT !.match = TRUE], quiet |-> Def(3, <<"r">>),
          other |-> Def(4, <<>>)])

\* malloc with a cast, without, with a cast to an array type; calloc by size and by
\* number; realloc; aligned_alloc; variables that hold them.
Heap ==
  Module([m1 |-> Block(1, "main", "malloc", <<"n40">>, "m1"), b1 |-> Cast(2, "main", "m1", I32, At("m1", 0)),
          v1 |-> Alloca(3, "main", Ptr), s1 |-> Store(4, "main", "b1", "v1"),
          m2 |-> Block(5, "main", "malloc", <<"n40">>, "m2"), v2 |-> Alloca(6, "main", Ptr),
          s2 |-> Store(7, "main", "m2", "v2"), f2 |-> Call(8, "main", "free", <<"l2">>),
          l2 |-> Load(9, "main", "v2", At("m2", 0)), b2 |-> Cast(10, "main", "l2", I64, At("m2", 0)),
          m3 |-> Block(11, "main", "malloc", <<"n40">>, "m3"), b3 |-> Cast(12, "main", "m3", Arr(10), At("m3", 0)),
          f1 |-> Call(13, "main", "free", <<"m1">>),
          m4 |-> Block(14, "aux", "calloc", <<"n5", "n8">>, "m4"), b4 |-> Cast(15, "aux", "m4", I64, At("m4", 0)),
          m5 |-> Block(16, "aux", "calloc", <<"n5", "n8">>, "m5"), b5 |-> Cast(17, "aux", "m5", I32, At("m5", 0)),
          m6 |-> Block(18, "aux", "calloc", <<"n5", "n8">>, "m6"),
          m7 |-> Block(19, "aux", "realloc", <<"m6", "n40">>, "m7"), b7 |-> Cast(20, "aux", "m7", I64, At("m7", 0)),
          m8 |-> Block(21, "aux", "aligned", <<"n8", "n40">>, "m8"), b8 |-> Cast(22, "aux", "m8", Odd, At("m8", 0)),
          m9 |-> Block(23, "aux", "aligned", <<"n8", "n40">>, "m9"), b9 |-> Cast(24, "aux", "m9", ArrOf(F80, 2), At("m9", 0)),
          ma |-> Block(25, "aux", "malloc", <<"n40">>, "ma"), ba |-> Cast(26, "aux", "ma", Struct, At("ma", 0)),
          n5 |-> Const(5), n8 |-> Const(8), n40 |-> Const(40)],
         [main |-> Def(1, <<>>), aux |-> Outlined(2, <<>>)])

\* new[] with a cookie, and with padding before it; a pointer that is computed back;
\* a program that keeps the bytes of a block in front of what it uses of it, and one
\* that keeps a number in a block it grows.
Cookie ==
  Module([m |-> Block(1, "main", "malloc", <<"n48">>, "m"), cb |-> Cast(2, "main", "m", I64, At("m", 0)),
          cs |-> Store(3, "main", "n5", "cb"), g |-> Gep(4, "main", "m", At("m", 8)),
          ab |-> Cast(5, "main", "g", I64, At("m", 8)), back |-> Gep(6, "main", "ab", At("m", 0)),
          f |-> Call(7, "main", "free", <<"back">>), as |-> Call(8, "main", "__asan", <<"cb">>),
          w |-> Block(9, "aux", "malloc", <<"n48">>, "w"), wg |-> Gep(10, "aux", "w", At("w", 8)),
          wb |-> Cast(11, "aux", "wg", I64, At("w", 8)), ws |-> Store(12, "aux", "n2", "wb"),
          wa |-> Gep(13, "aux", "w", At("w", 16)), wc |-> Cast(14, "aux", "wa", ArrOf(Struct, 2), At("w", 16)),
          h |-> Block(15, "aux", "malloc", <<"n48">>, "h"), hv |-> Alloca(16, "aux", Ptr),
          hs |-> Store(17, "aux", "h", "hv"), hl |-> Load(18, "aux", "hv", At("h", 16)),
          hg |-> Gep(19, "aux", "hl", At("h", 0)), hf |-> Call(20, "aux", "free", <<"hg">>),
          p |-> Block(21, "aux", "malloc", <<"n48">>, "p"), pb |-> Cast(22, "aux", "p", I64, At("p", 0)),
          ps |-> Store(23, "aux", "n48", "pb"), pg |-> Gep(24, "aux", "p", At("p", 8)),
          pc |-> Cast(25, "aux", "pg", I32, At("p", 8)), r |-> Block(26, "aux", "realloc", <<"p", "n48">>, "r"),
          rb |-> Cast(27, "aux", "r", I64, At("r", 0)), rs |-> Store(28, "aux", "n5", "rb"),
          rg |-> Gep(29, "aux", "r", At("r", 8)), rc |-> Cast(30, "aux", "rg", I64, At("r", 8)),
          n2 |-> Const(2), n5 |-> Const(5), n48 |-> Const(48)],
         [main |-> Def(1, <<>>), aux |-> Def(2, <<>>), __asan |-> Decl(<<FALSE>>)])

\* An element of a block is addressed without a cast.
Indexed ==
  Module([m |-> Block(1, "main", "malloc", <<"n">>, "m"), g |-> Gep(2, "main", "m", At("m", 3)), n |-> Const(8)],
         [main |-> Def(1, <<>>)])

\* Blocks of long doubles, as malloc and as realloc.
LongDouble ==
  Module([m |-> Block(1, "main", "malloc", <<"n80">>, "m"), b |-> Cast(2, "main", "m", F80, At("m", 0)),
          r |-> Block(3, "main", "realloc", <<"m", "n80">>, "r"), rb |-> Cast(4, "main", "r", F80, At("r", 0)),
          n80 |-> Const(80)],
         [main |-> Def(1, <<>>)])

\* A struct by calloc with its arguments exchanged.
Exchanged ==
  Module([m |-> Block(1, "main", "calloc", <<"n16", "n1">>, "m"), b |-> Cast(2, "main", "m", Struct, At("m", 0)),
          n1 |-> Const(1), n16 |-> Const(16)],
         [main |-> Def(1, <<>>)])

Named ==
  <<Direct, Chain, Recursion, Mutual, Parallel, Memories, Twice, Getter, Endless, Returned, Losses, Unknowns,
    Heap, Cookie, Indexed, LongDouble, Exchanged>>

\* All modules of two functions f and g of two parameters that make two calls
\* each: of each other or itself, the parameters as they are or exchanged, or of
\* MPI_Send.  main calls f.
Params == [f |-> <<"fa", "fb">>, g |-> <<"ga", "gb">>]
Callees == <<"f", "g", "MPI_Send">>
BodyCall(fn, at, n) ==
  LET callee == Callees[1 + (n \div 2)]
      a == Params[fn][1 + (n % 2)]
      b == Params[fn][2 - (n % 2)]
  IN  Call(at, fn, callee, IF callee = "MPI_Send" THEN <<a, "k">> ELSE <<a, b>>)
TwoFunctions(n) ==
  Module([x |-> Alloca(1, "main", I32), c |-> Call(2, "main", "f", <<"x", "k">>), k |-> Const(1),
          fa |-> Arg("f"), fb |-> Arg("f"), ga |-> Arg("g"), gb |-> Arg("g"),
          f1 |-> BodyCall("f", 3, n % 6), f2 |-> BodyCall("f", 4, (n \div 6) % 6),
          g1 |-> BodyCall("g", 5, (n \div 36) % 6), g2 |-> BodyCall("g", 6, (n \div 216) % 6)],
         [main |-> Def(1, <<>>), f |-> Def(2, Params.f), g |-> Def(3, Params.g)])

\* Two calls in the order of their numbers, for each function.
Family == {n \in 0..1295 : n % 6 <= (n \div 6) % 6 /\ (n \div 36) % 6 <= n \div 216}

Modules == Named \o [n \in 1..1296 |-> TwoFunctions(n - 1)]
MCProgram == Modules

\* The defaults of TypeARTPass.cpp with stack instrumentation.
Defaults ==
  [heap |-> TRUE, stack |-> TRUE, global |-> TRUE, lifetime |-> TRUE, nonArray |-> FALSE, mallocPair |-> FALSE,
   filterGlobal |-> TRUE, callFilter |-> TRUE, pointerAlloca |-> TRUE, impl |-> "std"]

MCConfs ==
  {Defaults,
   [Defaults EXCEPT !.pointerAlloca = FALSE, !.lifetime = FALSE],
   [Defaults EXCEPT !.impl = "cg"], [Defaults EXCEPT !.impl = "nograph"],
   [Defaults EXCEPT !.callFilter = FALSE, !.nonArray = TRUE, !.filterGlobal = FALSE],
   [Defaults EXCEPT !.impl = "none", !.mallocPair = TRUE, !.pointerAlloca = FALSE],
   [Defaults EXCEPT !.stack = FALSE, !.global = FALSE],
   [Defaults EXCEPT !.heap = FALSE, !.pointerAlloca = FALSE]}

MCInputs ==
  [prog : DOMAIN Named, conf : MCConfs]
  \cup [prog : {Len(Named) + 1 + n : n \in Family}, conf : {Defaults, [Defaults EXCEPT !.impl = "cg"]}]
=============================================================================
