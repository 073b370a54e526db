----------------------------- MODULE MCSmemKernel -----------------------------
(* Functions with some operations left open: every choice of them is a        *)
(* function.  An open operation may be a use of nothing.                      *)
EXTENDS SmemKernel

MCSizes == {<<1, 1>>, <<3, 2>>}   \* sizes and alignments of buffers in straight-line code

Op(kind, block, operands) == [kind |-> kind, block |-> block, operands |-> operands, size |-> 0, align |-> 1]
Sized(op, n, a) == [op EXCEPT !.size = n, !.align = a]
Alloc(b, n) == Sized(Op("alloc", b, <<>>), n, 1)
Scratch(b, n) == Sized(Op("scratch", b, <<>>), n, 2)
Call(b, n) == Sized(Op("call", b, <<>>), n, 2)
Uses(b, S) == {Op("use", b, <<>>)} \cup {Op("use", b, <<v>>) : v \in S}
Views(b, S) == {Op("view", b, <<v>>) : v \in S}
Func(n) == Sized(Op("func", <<0, 0>>, <<>>), n, 1)
End(b) == Op("yield", b, <<>>)

A(o) == <<o, 0, 1>>      \* the result of operation o
In(o, r) == <<o, r, 1>>  \* argument of its region r
Top == <<1, 1>>

\* Four buffers, each with its last use, if any, after a buffer that follows.
Straight ==
    LET alloc(s) == Sized(Op("alloc", Top, <<>>), s[1], s[2])
        uses(n, u) == Op("use", Top, SelectSeq(<<A(2), A(3), A(5), A(7)>>, LAMBDA v : v[1] < n /\ u[v[1]] = n))
    IN {<<Func(0), alloc(s[1]), alloc(s[2]), uses(4, u), alloc(s[3]), uses(6, u), alloc(s[4]), uses(8, u), End(Top)>> :
           s \in [1 .. 4 -> MCSizes], u \in [{2, 3, 5, 7} -> {0, 4, 6, 8}]}

\* A loop with an iter arg; its first operation has no regions.
Loops ==
    LET body == <<3, 1>>
        seen == {A(2), In(3, 1)}
    IN {<<Func(0), Alloc(Top, 1), Op("for", Top, <<A(2)>>), p, q, r, Op("yield", body, <<y>>), s, u, End(Top)>> :
           p \in Uses(body, seen) \cup {Scratch(body, 1), Alloc(body, 1)},
           q \in Views(body, seen) \cup {Alloc(body, 1), Alloc(body, 2)},
           r \in Uses(body, seen \cup {A(5)}) \cup {Scratch(body, 1), Call(body, 2)},
           y \in seen \cup {A(5)},
           s \in {Scratch(Top, 1), Alloc(Top, 2)},
           u \in Uses(Top, {A(2), A(3)})}

\* A loop with a branch and an iter arg.  What the branch works with, what comes
\* out of it, and what the next iteration gets.
Branches(plainFront) ==
    LET i == IF plainFront THEN 5 ELSE 4
        body == <<3, 1>>   yes == <<i, 1>>   no == <<i, 2>>
        arg == In(3, 1)
    IN {<<Func(0), Alloc(Top, 1), Op("for", Top, <<A(2)>>)>>
           \o (IF plainFront THEN <<Op("use", body, <<>>)>> ELSE <<>>)
           \o <<Op("if", body, <<>>), p, Op("yield", yes, <<v>>), q, Op("yield", no, <<w>>),
                 Op("use", body, <<x>>), r, Op("yield", body, <<y>>), Alloc(Top, 1), Op("use", Top, <<z>>), End(Top)>> :
           p \in {Alloc(yes, 1), Scratch(yes, 2), Op("use", yes, <<arg>>)}, v \in {arg, A(2), A(i + 1)},
           q \in {Alloc(no, 1), Scratch(no, 1)}, w \in {A(2), A(i + 3)},
           x \in {arg, A(i)}, r \in {Alloc(body, 1), Scratch(body, 1)},
           y \in {arg, A(i), A(i + 6)}, z \in {A(3), A(2)}}

\* A warp_specialize op with two partitions, the second with a loop.
Specialized ==
    LET own == <<4, 1>>   one == <<4, 2>>   two == <<4, 3>>   loop == <<11, 1>>
    IN {<<Func(2), Alloc(Top, 1), Alloc(Top, 2), Sized(Op("ws", Top, <<A(2)>>), 1, 2),
          p, Op("use", own, <<A(2)>>), Op("yield", own, <<v>>),
          q, r, End(one),
          Op("for", two, <<In(4, 3)>>), s, Op("yield", loop, <<y>>), End(two),
          Op("use", Top, <<u>>), End(Top)>> :
           p \in {Alloc(own, 1), Scratch(own, 2), Op("use", own, <<A(3)>>)},
           v \in {A(2), A(3), A(5)},
           q \in {Alloc(one, 1), Op("view", one, <<In(4, 2)>>)},
           r \in {Op("use", one, <<A(8)>>), Call(one, 2)},
           s \in {Alloc(loop, 1), Scratch(loop, 1)},
           y \in {In(11, 1), A(12)},
           u \in {A(3), A(4)}}

\* A value is a buffer only if the operation it comes from gives one.
Defined(f) == \A o \in DOMAIN f : \A v \in Range(f[o].operands) :
                 v[2] = 0 => f[v[1]].kind \notin {"use", "scratch", "call"}
MCKernels == {f \in Straight \cup Loops \cup Branches(TRUE) \cup Specialized : Defined(f)}
MCLayouts == {Buffers(f, MaxId) : f \in MCKernels}
\* Loops whose first operation is the branch.
FrontKernels == {f \in Branches(FALSE) : Defined(f)}
FrontLayouts == {Buffers(f, MaxId) : f \in FrontKernels}
=============================================================================
