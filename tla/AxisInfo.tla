------------------------------ MODULE AxisInfo ------------------------------
(***************************************************************************)
(* The axis analysis (lib/Analysis/AxisInfo.cpp).  It tells for every      *)
(* integer and pointer tensor, dimension by dimension, how long its runs   *)
(* of consecutive and of equal elements are and which power of two divides *)
(* the first element of a run; loads and stores are vectorised by it.      *)
(*                                                                         *)
(* A behaviour is a program of which acc is the value of the last          *)
(* operation.  Every operation is carried out twice, on the elements as it *)
(* runs, and on the AxisInfo as its visitor does, and the properties say   *)
(* that the two agree.                                                     *)
(***************************************************************************)
EXTENDS Integers, Sequences, FiniteSets, Bitwise

CONSTANTS
  Extent,       \* the length of a dimension, a power of two
  MaxDivisor,   \* highestPowOf2Divisor(0)
  ElemBytes,    \* the bytes of a pointee
  Starts,       \* the starts of tt.make_range
  Literals,     \* the constants of the program
  Params,       \* integer arguments: [value |-> v, divisibility |-> d]
  Pointer,      \* the pointer argument, of the same form
  Terms,        \* operations on ranges that other operations use: [op, by]
  LoopOps,      \* the operations a loop may repeat
  Excluded,     \* the operands, of the three kinds below, that are left out
  ValueBound,   \* elements stay below it
  OpBound,      \* the operations of a program
  TripBound     \* the iterations of a loop

ASSUME AxisAssumption ==
  /\ \E k \in 1 .. 6 : Extent = 2^k
  /\ \E k \in 1 .. 12 : MaxDivisor = 2^k /\ MaxDivisor > ValueBound
  /\ Excluded \subseteq {"negative dividends", "varying others", "lost groups"}
  /\ \A p \in Params \union {Pointer} : p.value % p.divisibility = 0
  /\ \A c \in Literals : c \in 0 .. ValueBound

VARIABLES acc, ops
vars == <<acc, ops>>

Least(a, b) == IF a < b THEN a ELSE b
Most(a, b) == IF a < b THEN b ELSE a

RECURSIVE Gcd(_, _)
Gcd(a, b) == IF a = 0 THEN b ELSE Gcd(b % a, a)

PowerOf2Divisor(n) ==
  IF n = 0 THEN MaxDivisor
  ELSE CHOOSE p \in {2^k : k \in 0 .. 12} : n % p = 0 /\ n % (2 * p) # 0

MultiplyDivisor(a, b) == Least(a * b, MaxDivisor)

(***************************************************************************)
(* Values.  A scalar has the shape <<>>, and an AxisInfo of one dimension. *)
(* A constantValue is a set of at most one integer.                        *)
(***************************************************************************)
Scalar == <<>>
Shapes == {Scalar, <<Extent>>, <<Extent, 1>>, <<1, Extent>>, <<Extent, Extent>>}
IndicesOf == [s \in Shapes |->
  {i \in [DOMAIN s -> 0 .. Extent - 1] : \A d \in DOMAIN s : i[d] < s[d]}]
DimsOf(shape) == 1 .. Most(1, Len(shape))
SizeAt(shape, d) == IF d \in DOMAIN shape THEN shape[d] ELSE 1

MkInfo(contiguity, divisibility, constancy, constantValue) ==
  [contiguity |-> contiguity, divisibility |-> divisibility,
   constancy |-> constancy, constantValue |-> constantValue]

MkValue(type, shape, elems, info) ==
  [type |-> type, shape |-> shape, elems |-> elems, info |-> info]

Along(shape, n) == [d \in DimsOf(shape) |-> n]

Pessimistic(shape) == MkInfo(Along(shape, 1), Along(shape, 1), Along(shape, 1), {})

MakeRange(start) ==
  MkValue("int", <<Extent>>, [i \in IndicesOf[<<Extent>>] |-> start + i[1]],
          MkInfo(<<Extent>>, <<PowerOf2Divisor(start)>>, <<1>>, {}))

Constant(shape, c) ==
  MkValue("int", shape, [i \in IndicesOf[shape] |-> c],
          MkInfo(Along(shape, 1), Along(shape, PowerOf2Divisor(c)),
                 [d \in DimsOf(shape) |-> SizeAt(shape, d)], {c}))

\* An argument of a function, of which its attributes tell the divisibility.
Argument(type, p) ==
  MkValue(type, Scalar, [i \in IndicesOf[Scalar] |-> p.value],
          MkInfo(<<1>>, <<p.divisibility>>, <<1>>, {}))

Splat(x, shape) ==
  MkValue(x.type, shape, [i \in IndicesOf[shape] |-> x.elems[Scalar]],
          MkInfo(Along(shape, 1), Along(shape, x.info.divisibility[1]), shape,
                 x.info.constantValue))

\* Mutant: the divisibility of the groups is taken for one of all elements.
NewDivisibilityOfGroups(info) ==
  IF info.constantValue # {} THEN PowerOf2Divisor(CHOOSE c \in info.constantValue : TRUE)
  ELSE info.divisibility[1]

\* The divisibility of the dimension tt.expand_dims adds.
NewDivisibility(info) ==
  IF info.constantValue # {} THEN PowerOf2Divisor(CHOOSE c \in info.constantValue : TRUE)
  ELSE IF info.contiguity[1] > 1 THEN 1 ELSE info.divisibility[1]

\* tt.expand_dims of a tensor with one dimension: axis 0 comes first.
ExpandDims(x, axis) ==
  LET Insert(s, n) == IF axis = 0 THEN <<n>> \o s ELSE s \o <<n>>
      shape == Insert(x.shape, 1)
  IN MkValue(x.type, shape, [i \in IndicesOf[shape] |-> x.elems[<<i[2 - axis]>>]],
             MkInfo(Insert(x.info.contiguity, 1),
                    Insert(x.info.divisibility, NewDivisibility(x.info)),
                    Insert(x.info.constancy, 1), x.info.constantValue))

Broadcast(x, shape) ==
  LET From(i) == [d \in DOMAIN i |-> IF x.shape[d] = 1 THEN 0 ELSE i[d]]
  IN MkValue(x.type, shape, [i \in IndicesOf[shape] |-> x.elems[From(i)]],
             MkInfo([d \in DOMAIN shape |-> IF x.shape[d] = 1 THEN 1 ELSE x.info.contiguity[d]],
                    x.info.divisibility,
                    [d \in DOMAIN shape |-> IF x.shape[d] = 1 THEN shape[d]
                                            ELSE x.info.constancy[d]],
                    x.info.constantValue))

(***************************************************************************)
(* The visitors of binary operations.                                      *)
(***************************************************************************)
Dims(info) == DOMAIN info.contiguity

\* The operands' constants, if both have one.
Constants(l, r) == l.constantValue \X r.constantValue

BinaryInfo(l, r, value, contiguity, divisibility, constancy) ==
  IF value = {} THEN MkInfo(contiguity, divisibility, constancy, {})
  ELSE MkInfo([d \in Dims(l) |-> 1],
              [d \in Dims(l) |-> PowerOf2Divisor(CHOOSE c \in value : TRUE)],
              [d \in Dims(l) |-> Most(l.constancy[d], r.constancy[d])], value)

GcdConstancy(l, r, d) == Gcd(l.constancy[d], r.constancy[d])

Scaled(op, n) == IF op = "addptr" THEN MultiplyDivisor(n, ElemBytes) ELSE n

\* Mutant: a contiguous rhs is as good as a contiguous lhs, also to subtract.
SumContiguityEither(op, l, r, d) ==
  Most(Gcd(l.constancy[d], r.contiguity[d]), Gcd(l.contiguity[d], r.constancy[d]))

SumContiguity(op, l, r, d) ==
  IF op = "subi" THEN Gcd(l.contiguity[d], r.constancy[d])
  ELSE Most(Gcd(l.constancy[d], r.contiguity[d]), Gcd(l.contiguity[d], r.constancy[d]))

AddSub(op, l, r) ==
  LET contiguity[d \in Dims(l)] == SumContiguity(op, l, r, d)
      divisibility[d \in Dims(l)] == Gcd(l.divisibility[d], Scaled(op, r.divisibility[d]))
      constancy[d \in Dims(l)] == GcdConstancy(l, r, d)
      Sum(a, b) == CASE op = "addi" -> a + b [] op = "subi" -> a - b
                     [] op = "addptr" -> a + b * ElemBytes
      value == {Sum(c[1], c[2]) : c \in Constants(l, r)}
  IN BinaryInfo(l, r, value, contiguity, divisibility, constancy)

MulI(l, r) ==
  LET contiguity[d \in Dims(l)] == Most(IF r.constantValue = {1} THEN l.contiguity[d] ELSE 1,
                            IF l.constantValue = {1} THEN r.contiguity[d] ELSE 1)
      Factor(x, y, d) == IF x.contiguity[d] > 1 /\ y.constantValue # {1} THEN 1
                         ELSE x.divisibility[d]
      divisibility[d \in Dims(l)] == MultiplyDivisor(Factor(l, r, d), Factor(r, l, d))
      constancy[d \in Dims(l)] == GcdConstancy(l, r, d)
      value == {c[1] * c[2] : c \in Constants(l, r)}
  IN BinaryInfo(l, r, value, contiguity, divisibility, constancy)

isContiguousDim(info, shape, d) == info.contiguity[d] = shape[d]
isConstantDim(info, shape, d) == info.constancy[d] = shape[d]

\* Runs of this length of a contiguous lhs meet one multiple of the rhs.
CommonRun(lengths, l, r, d) == Gcd(lengths.contiguity[d], Gcd(l.divisibility[d], r.divisibility[d]))

\* C++ divides towards zero.
Abs(a) == IF a < 0 THEN -a ELSE a
Quotient(a, b) == LET q == Abs(a) \div Abs(b) IN IF (a < 0) = (b < 0) THEN q ELSE -q
Remainder(a, b) == a - b * Quotient(a, b)

Div(shape, l, r) ==
  LET contiguity[d \in Dims(l)] == IF r.constantValue = {1} THEN l.contiguity[d] ELSE 1
      constancy[d \in Dims(l)] ==
        IF shape = Scalar THEN 1
        ELSE IF isContiguousDim(l, shape, d) /\ isConstantDim(r, shape, d)
             THEN Most(GcdConstancy(l, r, d), CommonRun(l, l, r, d))
             ELSE GcdConstancy(l, r, d)
      divisibility[d \in Dims(l)] ==
        IF l.constantValue = {0} \/ r.constantValue = {1} THEN l.divisibility[d]
        ELSE IF l.contiguity[d] = 1 /\ \E k \in 0 .. 12 : r.constantValue \in {{2^k}, {-(2^k)}}
             THEN Most(1, l.divisibility[d] \div Abs(CHOOSE c \in r.constantValue : TRUE))
             ELSE 1
  IN BinaryInfo(l, r, {Quotient(c[1], c[2]) : c \in Constants(l, r)},
                contiguity, divisibility, constancy)

Rem(shape, l, r) ==
  LET contiguity[d \in Dims(l)] ==
        IF shape # Scalar /\ isContiguousDim(l, shape, d) /\ isConstantDim(r, shape, d)
        THEN CommonRun(l, l, r, d) ELSE 1
      divisibility[d \in Dims(l)] == Gcd(l.divisibility[d], r.divisibility[d])
      constancy[d \in Dims(l)] == IF shape = Scalar THEN 1
                      ELSE IF r.constantValue = {1} THEN shape[d] ELSE GcdConstancy(l, r, d)
      value == IF l.constantValue = {} /\ r.constantValue = {1} THEN {0}
               ELSE {Remainder(c[1], c[2]) : c \in Constants(l, r)}
  IN BinaryInfo(l, r, value, contiguity, divisibility, constancy)

Logical(op, l, r) ==
  LET one[d \in Dims(l)] == 1
      constancy[d \in Dims(l)] == GcdConstancy(l, r, d)
      Bits(a, b) == CASE op = "andi" -> a & b [] op = "ori" -> a | b [] op = "xori" -> a ^^ b
      value == {Bits(c[1], c[2]) : c \in Constants(l, r)}
  IN BinaryInfo(l, r, value, one, one, constancy)

\* The divisibility a shift starts from.
Shifted(l, shift, d) == IF l.contiguity[d] > 1 /\ shift # 0 THEN 1 ELSE l.divisibility[d]
KeptByShift(l, r, d) == IF r.constantValue = {0} THEN l.contiguity[d] ELSE 1

ShLI(l, r) ==
  LET shift == IF r.constantValue = {} THEN 0 ELSE CHOOSE c \in r.constantValue : TRUE
      contiguity[d \in Dims(l)] == KeptByShift(l, r, d)
      divisibility[d \in Dims(l)] == MultiplyDivisor(Shifted(l, shift, d), 2^shift)
      constancy[d \in Dims(l)] == GcdConstancy(l, r, d)
      value == {c[1] * 2^c[2] : c \in Constants(l, r)}
  IN BinaryInfo(l, r, value, contiguity, divisibility, constancy)

ShR(l, r) ==
  LET contiguity[d \in Dims(l)] == KeptByShift(l, r, d)
      divisibility[d \in Dims(l)] ==
        IF r.constantValue = {} THEN 1
        ELSE LET shift == CHOOSE c \in r.constantValue : TRUE
             IN Most(1, Shifted(l, shift, d) \div 2^shift)
      constancy[d \in Dims(l)] == GcdConstancy(l, r, d)
      value == {c[1] \div 2^c[2] : c \in Constants(l, r)}
  IN BinaryInfo(l, r, value, contiguity, divisibility, constancy)

Holds(pred, a, b) == CASE pred = "eq" -> a = b [] pred = "ne" -> a # b
                       [] pred = "slt" -> a < b [] pred = "sle" -> a =< b
                       [] pred = "sgt" -> a > b [] pred = "sge" -> a >= b
Bit(b) == IF b THEN 1 ELSE 0

\* Mutant: the predicates that tell the multiple from what is below it.
ConstantThenRangeSwapped(pred) == pred \in {"sge", "slt"}

\* The predicates that change at a multiple of the constant, if that is the
\* lhs; if it is the rhs, the others of the four do.
ConstantThenRange(pred) == pred \in {"sgt", "sle"}
RangeThenConstant(pred) == pred \in {"slt", "sge"}

Cmp(shape, pred, l, r) ==
  LET known == {Bit(Holds(pred, c[1], c[2])) : c \in Constants(l, r)}
      constancy(d) ==
        IF known # {} THEN l.constancy[d]
        ELSE IF ConstantThenRange(pred) /\ isConstantDim(l, shape, d)
             THEN Most(GcdConstancy(l, r, d), CommonRun(r, l, r, d))
        ELSE IF RangeThenConstant(pred) /\ isConstantDim(r, shape, d)
             THEN Most(GcdConstancy(l, r, d), CommonRun(l, l, r, d))
        ELSE GcdConstancy(l, r, d)
  IN IF shape = Scalar THEN Pessimistic(shape)
     ELSE MkInfo(Along(shape, 1), Along(shape, 1), [d \in DOMAIN shape |-> constancy(d)], known)

SameConstant(l, r) == IF l.constantValue = r.constantValue THEN l.constantValue ELSE {}

\* The lesser of each, of two infos that one value may have.
Lesser(l, r, constantValue) ==
  LET dims == DOMAIN l.contiguity
  IN MkInfo([d \in dims |-> Least(l.contiguity[d], r.contiguity[d])],
            [d \in dims |-> Least(l.divisibility[d], r.divisibility[d])],
            [d \in dims |-> Least(l.constancy[d], r.constancy[d])], constantValue)

MaxMin(op, l, r) ==
  LET known == {IF op = "maxsi" THEN Most(c[1], c[2]) ELSE Least(c[1], c[2]) : c \in Constants(l, r)}
  IN IF known = {} THEN Lesser(l, r, {})
     ELSE LET ones == [d \in DOMAIN l.contiguity |-> 1] IN MkInfo(ones, ones, ones, known)

Select(scalarCondition, c, l, r) ==
  LET dims == DOMAIN l.contiguity
      contiguity(d) == Least(Gcd(l.contiguity[d], c.constancy[d]), Gcd(r.contiguity[d], c.constancy[d]))
      divisibility(d) ==
        IF contiguity(d) = l.contiguity[d] /\ contiguity(d) = r.contiguity[d]
        THEN Gcd(l.divisibility[d], r.divisibility[d])
        ELSE Least(Gcd(l.divisibility[d], contiguity(d)), Gcd(r.divisibility[d], contiguity(d)))
      constancy(d) == Least(Gcd(l.constancy[d], c.constancy[d]), Gcd(r.constancy[d], c.constancy[d]))
  IN IF c.constantValue = {0} THEN r
     ELSE IF c.constantValue # {} THEN l
     ELSE IF scalarCondition THEN Lesser(l, r, SameConstant(l, r))
     ELSE MkInfo([d \in dims |-> contiguity(d)], [d \in dims |-> divisibility(d)],
                 [d \in dims |-> constancy(d)], SameConstant(l, r))

\* tt.load; the mask may be missing, and there is no look at the third operand.
LoadInfo(ptr, mask) ==
  MkInfo([d \in DOMAIN ptr.contiguity |-> 1], [d \in DOMAIN ptr.contiguity |-> 1],
         [d \in DOMAIN ptr.contiguity |->
            Gcd(ptr.constancy[d], IF mask = {} THEN 0 ELSE (CHOOSE m \in mask : TRUE).constancy[d])],
         {})

Join(l, r) ==
  LET dims == DOMAIN l.contiguity
  IN MkInfo([d \in dims |-> Gcd(l.contiguity[d], r.contiguity[d])],
            [d \in dims |-> Gcd(l.divisibility[d], r.divisibility[d])],
            [d \in dims |-> Gcd(l.constancy[d], r.constancy[d])], SameConstant(l, r))

(***************************************************************************)
(* Operations on the elements and on the infos.                            *)
(***************************************************************************)
Arithmetic == {"addi", "subi", "muli", "divsi", "remsi", "andi", "ori", "xori",
               "shli", "shrsi", "maxsi", "minsi"}
Predicates == {"eq", "ne", "slt", "sle", "sgt", "sge"}
BinaryOps == Arithmetic \union Predicates \union {"addptr"}

InfoOf(op, shape, l, r) ==
  CASE op \in {"addi", "subi", "addptr"} -> AddSub(op, l, r)
    [] op = "muli" -> MulI(l, r)
    [] op = "divsi" -> Div(shape, l, r)
    [] op = "remsi" -> Rem(shape, l, r)
    [] op \in {"andi", "ori", "xori"} -> Logical(op, l, r)
    [] op = "shli" -> ShLI(l, r)
    [] op = "shrsi" -> ShR(l, r)
    [] op \in {"maxsi", "minsi"} -> MaxMin(op, l, r)
    [] op \in Predicates -> Cmp(shape, op, l, r)

Compute(op, a, b) ==
  CASE op = "addi" -> a + b [] op = "subi" -> a - b [] op = "muli" -> a * b
    [] op = "addptr" -> a + b * ElemBytes
    [] op = "divsi" -> Quotient(a, b) [] op = "remsi" -> Remainder(a, b)
    [] op = "andi" -> a & b [] op = "ori" -> a | b [] op = "xori" -> a ^^ b
    [] op = "shli" -> a * 2^b [] op = "shrsi" -> a \div 2^b
    [] op = "maxsi" -> Most(a, b) [] op = "minsi" -> Least(a, b)
    [] op \in Predicates -> Bit(Holds(op, a, b))

\* Operands for which the operation has a result.  The logical operators are
\* on naturals.
Applies(op, x, y) ==
  /\ x.shape = y.shape
  /\ x.type = IF op = "addptr" THEN "ptr" ELSE "int"
  /\ y.type = "int"
  /\ \A i \in DOMAIN x.elems :
       CASE op \in {"divsi", "remsi"} -> y.elems[i] # 0 /\ ("negative dividends" \in Excluded => x.elems[i] >= 0 /\ y.elems[i] > 0)
         [] op \in {"andi", "ori", "xori"} -> x.elems[i] >= 0 /\ y.elems[i] >= 0
         [] op \in {"shli", "shrsi"} -> y.elems[i] \in 0 .. 6
         [] OTHER -> TRUE
  /\ op \in {"shli", "shrsi"} => y.info.constantValue \subseteq 0 .. 6

TypeAfter(op, x) == IF op \in Predicates THEN "bool" ELSE x.type

ElemsAfter(op, x, y) == [i \in DOMAIN x.elems |-> Compute(op, x.elems[i], y.elems[i])]

Apply(op, x, y) == MkValue(TypeAfter(op, x), x.shape, ElemsAfter(op, x, y),
                           InfoOf(op, x.shape, x.info, y.info))

Bounded(x) == \A i \in DOMAIN x.elems : Abs(x.elems[i]) < ValueBound

(***************************************************************************)
(* Programs.                                                               *)
(***************************************************************************)
Ranges == {MakeRange(s) : s \in Starts}
Arguments == {Argument("int", p) : p \in Params} \union {Argument("ptr", Pointer)}
Literal == {Constant(s, c) : s \in {Scalar, <<Extent>>}, c \in Literals}
Conditions == {MkValue("bool", Scalar, [i \in IndicesOf[Scalar] |-> b], Pessimistic(Scalar)) : b \in {0, 1}}
Derived == {Apply(p.op, x, Constant(<<Extent>>, p.by)) : p \in Terms, x \in Ranges}
Vectors == Ranges \union Derived
Rows == {Broadcast(ExpandDims(x, 0), <<Extent, Extent>>) : x \in Ranges}
Columns == {Broadcast(ExpandDims(x, 1), <<Extent, Extent>>) : x \in Ranges}

\* What a program begins with, and what each of its operations may use.
Sources == Vectors \union Arguments \union Literal \union Conditions \union Rows \union Columns
             \union {Splat(x, <<Extent>>) : x \in Arguments}

Operands == Sources \union {acc}
Integral == {x \in Operands : x.type = "int"}
Boolean == {x \in Operands : x.type = "bool"}

Init == acc \in Sources /\ ops = 0

Emit(x) == /\ ops < OpBound
           /\ Bounded(x)
           /\ acc' = x
           /\ ops' = ops + 1

Binary == \E z \in Operands : z.shape = acc.shape /\ \E op \in BinaryOps :
            \/ Applies(op, acc, z) /\ Emit(Apply(op, acc, z))
            \/ Applies(op, z, acc) /\ Emit(Apply(op, z, acc))

SplatOp == acc.shape = Scalar /\ \E s \in {<<Extent>>, <<Extent, Extent>>} : Emit(Splat(acc, s))

(***************************************************************************)
(* What the analysis promises of a value.                                  *)
(***************************************************************************)
\* The place along dimension d, and the first index of the group of n around i.
Place(i, d) == IF d \in DOMAIN i THEN i[d] ELSE 0
FirstOf(i, d, n) == IF d \in DOMAIN i THEN [i EXCEPT ![d] = @ - (@ % n)] ELSE i

Stride(x) == IF x.type = "ptr" THEN ElemBytes ELSE 1

GroupsOf(x, d) == {FirstOf(i, d, x.info.contiguity[d]) : i \in DOMAIN x.elems}

Consecutive(x) == \A d \in DimsOf(x.shape), i \in DOMAIN x.elems :
  LET first == FirstOf(i, d, x.info.contiguity[d])
  IN x.elems[i] = x.elems[first] + Stride(x) * (Place(i, d) - Place(first, d))

\* divisibility as AxisInfo.h defines it
Divides(x) == \A d \in DimsOf(x.shape) : \A first \in GroupsOf(x, d) :
  x.elems[first] % x.info.divisibility[d] = 0

Uniform(x) == \A d \in DimsOf(x.shape), i \in DOMAIN x.elems :
  x.elems[i] = x.elems[FirstOf(i, d, x.info.constancy[d])]

\* A cast hands its operand's info on, unless the program knows better: an
\* attribute of an operation replaces what its visitor found.
CastOp ==
  /\ acc.type # "bool"
  /\ "lost groups" \in Excluded => Divides(acc)
  /\ \E k \in 0 .. 3, d \in DimsOf(acc.shape) :
       LET n == 2^k
           Hinted(info) == [acc EXCEPT !.info = info]
           contiguity == Hinted([acc.info EXCEPT !.contiguity[d] = n])
           divisibility == Hinted([acc.info EXCEPT !.divisibility[d] = n])
           constancy == Hinted([acc.info EXCEPT !.constancy[d] = n])
       IN \/ n =< SizeAt(acc.shape, d) /\ Consecutive(contiguity) /\ Emit(contiguity)
          \/ Divides(divisibility) /\ Emit(divisibility)
          \/ n =< SizeAt(acc.shape, d) /\ Uniform(constancy) /\ Emit(constancy)

\* tt.expand_dims takes the divisibility of the groups for one of all elements.
Expand == /\ Len(acc.shape) = 1
          /\ "lost groups" \in Excluded => Divides(acc)
          /\ \E axis \in {0, 1} : Emit(ExpandDims(acc, axis))

BroadcastOp == /\ acc.shape \in {<<Extent, 1>>, <<1, Extent>>}
               /\ Emit(Broadcast(acc, <<Extent, Extent>>))

SelectOp == \E c \in Boolean, x, y \in Operands :
  /\ x.shape = y.shape /\ x.type = y.type /\ x # y
  /\ c.shape \in {Scalar, x.shape}
  /\ acc \in {c, x, y}
  /\ LET Chosen(i) == IF c.elems[IF c.shape = Scalar THEN Scalar ELSE i] = 1
                      THEN x.elems[i] ELSE y.elems[i]
     IN Emit(MkValue(x.type, x.shape, [i \in DOMAIN x.elems |-> Chosen(i)],
                     Select(c.shape = Scalar, c.info, x.info, y.info)))

\* What is in memory, an arbitrary function of the address.
Content(address) == ((address * address) + (address \div ElemBytes)) % 7

LoadOp == /\ acc.type = "ptr"
          /\ Emit(MkValue("int", acc.shape, [i \in DOMAIN acc.elems |-> Content(acc.elems[i])],
                          LoadInfo(acc.info, {})))

\* Where the mask is unset, the result is other's.
MaskedLoad == \E ptr \in {x \in Operands : x.type = "ptr"}, mask \in Boolean, other \in Integral :
  /\ mask.shape = ptr.shape /\ other.shape = ptr.shape
  /\ acc \in {ptr, mask, other}
  /\ "varying others" \in Excluded => other.info.constantValue # {}
  /\ LET Loaded(i) == IF mask.elems[i] = 1 THEN Content(ptr.elems[i]) ELSE other.elems[i]
     IN Emit(MkValue("int", ptr.shape, [i \in DOMAIN ptr.elems |-> Loaded(i)],
                     LoadInfo(ptr.info, {mask.info})))

\* The result of an scf.if: of one branch or the other.
IfOp == \E z \in Operands :
  /\ z.shape = acc.shape /\ z.type = acc.type
  /\ \E x \in {acc, z} : Emit([x EXCEPT !.info = Join(acc.info, z.info)])

\* The iter arg of an scf.for: the dataflow solver visits the body until the
\* info of the argument no longer changes.
RECURSIVE FixedPoint(_, _, _, _), Iterated(_, _, _, _)
FixedPoint(op, shape, info, z) ==
  LET next == Join(info, InfoOf(op, shape, info, z))
  IN IF next = info THEN info ELSE FixedPoint(op, shape, next, z)

\* The values of the argument in the iterations that have one.
Iterated(op, x, z, n) ==
  {x} \union IF n > 0 /\ Applies(op, x, z) /\ Bounded(x)
             THEN Iterated(op, [x EXCEPT !.elems = ElemsAfter(op, x, z)], z, n - 1) ELSE {}

ForOp == \E op \in LoopOps, z \in Operands :
  /\ Applies(op, acc, z)
  /\ LET info == FixedPoint(op, acc.shape, acc.info, z.info)
     IN \E x \in Iterated(op, acc, z, TripBound) : Emit([x EXCEPT !.info = info])

InductionVar == \E lb, step \in Integral, k \in 0 .. TripBound :
  /\ acc \in {lb, step}
  /\ {lb.shape, step.shape} = {Scalar}
  /\ step.elems[Scalar] > 0
  /\ Emit(MkValue("int", Scalar, [i \in DOMAIN lb.elems |-> lb.elems[i] + k * step.elems[i]],
                  MkInfo(<<1>>, <<Gcd(lb.info.divisibility[1], step.info.divisibility[1])>>, <<1>>, {})))

\* The parameter of a function with two calls: its attributes are the gcd.
CallOp == \E z \in Operands :
  /\ {acc.shape, z.shape} = {Scalar} /\ z.type = acc.type /\ acc.type # "bool"
  /\ \E x \in {acc, z} :
       Emit([x EXCEPT !.info = [Join(acc.info, z.info) EXCEPT !.constantValue = {}]])

Next == \/ Binary \/ CastOp \/ SplatOp \/ Expand \/ BroadcastOp \/ SelectOp \/ LoadOp
        \/ MaskedLoad \/ IfOp \/ ForOp \/ InductionVar \/ CallOp

Spec == Init /\ [][Next]_vars

(***************************************************************************)
(* Properties.                                                             *)
(***************************************************************************)
\* Elements of one group of contiguity[d] follow each other (AxisInfo.h:37-43):
\* whatever operations, branches, loops and calls a value has come through, no
\* visitor claims a group that some step has broken.
ContiguityHolds == Consecutive(acc)

\* The length of a vector access along a dimension.
getAlignment(x, d) ==
  Least(Most(x.info.divisibility[d] \div Stride(x), 1), x.info.contiguity[d])

\* The divisor that is relied on: vector accesses take what getAlignment says,
\* and operations hand on the divisibility of scalars and of equal elements.
ReliedOn(x, d) ==
  IF SizeAt(x.shape, d) = 1 \/ x.info.constancy[d] > 1 THEN x.info.divisibility[d]
  ELSE IF getAlignment(x, d) > 1 THEN getAlignment(x, d) * Stride(x) ELSE 1

\* A vector access starts at a multiple of its length: the analysis may lose
\* track of what the divisor of a group of one is a divisor of, and never claims
\* more than min(divisibility, contiguity) (getAlignment) can bear.
AccessesAligned == \A d \in DimsOf(acc.shape) : \A first \in GroupsOf(acc, d) :
  acc.elems[first] % ReliedOn(acc, d) = 0

\* Elements of one group of constancy[d] are equal (AxisInfo.h:82-88), so that
\* one bit of a mask stands for a vector of it (getMaskAlignment), also where
\* the run comes from the common multiples of a range and a constant.
\* A constantValue is the value of every element, in every iteration, after
\* every branch and for every caller.
MasksUniform ==
  /\ Uniform(acc)
  /\ \A i \in DOMAIN acc.elems : acc.info.constantValue \subseteq {acc.elems[i]}
=============================================================================
