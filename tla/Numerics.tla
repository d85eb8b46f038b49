-------------------------------- MODULE Numerics --------------------------------
(* A program that computes with the objects of one kind: integers (math.h),       *)
(* vectors (vec.h, vec_detail.h) or matrices (matrix.h) of kae.  Each starts with  *)
(* any value it can be constructed with.  What is undefined is not followed.      *)
EXTENDS Vectors

CONSTANTS
    Objects,
    VecSize,  \* the elements of a vector: 2, 3 or 4
    Scalar    \* the integer type that math.h is used with

ASSUME VecSizeAssumption == VecSize \in Nat \ {0}
ASSUME ScalarAssumption  == Scalar \in Types

VARIABLES
    kind,   \* of the objects
    memory  \* their values

vars == <<kind, memory>>

Init == \/ kind = "integer" /\ memory \in [Objects -> Values(Scalar)]
        \/ kind = "vector"  /\ memory \in [Objects -> [1 .. VecSize -> Word]]
        \/ kind = "matrix"  /\ memory \in [Objects -> [1 .. Dim * Dim -> Word]]

Put(o, value) == memory' = [memory EXCEPT ![o] = value]
-----------------------------------------------------------------------------
(* What the program may compute next                                             *)

\* The quotient of two integers is rounded.
Round(o, p) ==
    LET x == Quotient(memory[o], memory[p])
    IN /\ memory[p] # 0 /\ Castable(Scalar, x)
       /\ Put(o, ceil(Scalar, x)) \/ Put(o, floor(Scalar, x))
          \/ Put(o, trunc(Scalar, x)) \/ Put(o, ntrunc(Scalar, x))

\* -ceil2(-a) for a negative a, which is undefined of the least one.
RoundToPower(o) ==
    LET a == memory[o]
    IN \/ a >= 0 /\ Shiftable(a) /\ Put(o, ceil2(Scalar, a))
       \/ /\ a < 0 /\ -a \in Values(Scalar) /\ Shiftable(-a)
          /\ Put(o, As(Scalar, -ceil2(Scalar, -a)))

\* ASSERT(a >= 0 && unit > 0) ends the program.
Divide(o, p) == /\ memory[o] >= 0 /\ memory[p] > 0
                /\ Addable(Scalar, memory[o], memory[p])
                /\ Put(o, div_ceil(Scalar, memory[o], memory[p]))

Square(o) == /\ Scalar.signed => memory[o] * memory[o] \in Values(Scalar)
             /\ Put(o, pow2(Scalar, memory[o]))

IntegerStep == \/ \E o, p \in Objects : Round(o, p) \/ Divide(o, p)
               \/ \E o \in Objects : RoundToPower(o) \/ Square(o)

\* Element by element: o op= p, o op= x, o = x op o and o = -o.
Combine(o, op, p)    == /\ \A i \in 1 .. VecSize : Defined(op, memory[p][i])
                        /\ memory' = Compound(memory, o, op, p)
CombineWith(o, op, x) == Defined(op, x) /\ memory' = CompoundScalar(memory, o, op, x)
CombineFrom(x, op, o) == /\ \A i \in 1 .. VecSize : Defined(op, memory[o][i])
                         /\ Put(o, ScalarBinary(op, x, memory[o]))
Invert(o)             == Put(o, Negate(memory[o]))

VectorStep ==
    \/ \E o, p \in Objects, op \in Operators : Combine(o, op, p)
    \/ \E o \in Objects, op \in Operators, x \in Word :
          CombineWith(o, op, x) \/ CombineFrom(x, op, o)
    \/ \E o \in Objects : Invert(o)

MatrixStep == \E l, r \in Objects : \/ memory' = MultiplyBy(memory, l, r)
                                    \/ Put(l, Product(memory[l], memory[r]))

Next == /\ UNCHANGED kind
        /\ \/ kind = "integer" /\ IntegerStep
           \/ kind = "vector"  /\ VectorStep
           \/ kind = "matrix"  /\ MatrixStep

Spec == Init /\ [][Next]_vars
-----------------------------------------------------------------------------
(* Properties                                                                    *)

\* The functions of math.h return what their names say whenever that value is one
\* of the type, as far as the arithmetic on the way is defined: a floating-point
\* argument must be castable (math.h:15), the power of two must fit unsigned
\* whatever T is (math.h:32), and the sum of div_ceil must not wrap (math.h:41).
\* div_ceil is the ceil of the quotient.
ScalarsAgree == kind = "integer" => \A o, p \in Objects :
    LET a == memory[o]
        b == memory[p]
        x == Quotient(a, b)
    IN /\ b # 0 => \A T \in Types : Castable(T, x) => \A k \in Values(T) :
             /\ IsCeil(k, x)  => ceil(T, x) = k
             /\ IsFloor(k, x) => floor(T, x) = k
             /\ (IF a * b > 0 THEN IsFloor(k, x) ELSE IsCeil(k, x)) => trunc(T, x) = k
             /\ (IF a * b > 0 THEN IsCeil(k, x) ELSE IsFloor(k, x)) => ntrunc(T, x) = k
       /\ a >= 0 /\ b > 0 /\ a + b - 1 \in Values(Scalar)
             => div_ceil(Scalar, a, b) = ceil(Scalar, x)
       /\ a >= 0 /\ Shiftable(a) =>
             \A k \in Values(Scalar) : IsCeil2(k, a) => ceil2(Scalar, a) = k

\* Writing the left operand while the right one is read changes nothing for the
\* operators that go element by element, x op= x included: they agree with one
\* another and with the arithmetic of the elements.  A scalar operand is read once,
\* so x /= x[i] divides every element by the same number.
VectorsAgree == kind = "vector" => \A o, p \in Objects :
    LET v == memory[o]
        w == memory[p]
    IN /\ \A op \in Operators : (\A i \in 1 .. VecSize : Defined(op, w[i])) =>
             /\ Compound(memory, o, op, p)[o] = [i \in 1 .. VecSize |-> Apply(op, v[i], w[i])]
             /\ Binary(op, v, w) = Compound(memory, o, op, p)[o]
       /\ \A op \in Operators, i \in 1 .. VecSize : Defined(op, v[i]) =>
             CompoundScalar(memory, o, op, v[i])[o]
                = Binary(op, v, [j \in 1 .. VecSize |-> v[i]])
       /\ Equal(Binary("-", v, w), Negate(Binary("-", w, v)))
       /\ Equal(Binary("+", Binary("-", v, w), w), v)
       /\ Dot(v, w) = Dot(w, v)
       /\ \A x \in Word : /\ Equal(ScalarBinary("-", x, v), Negate(BinaryScalar("-", v, x)))
                          /\ Dot(BinaryScalar("*", v, x), w) = Apply("*", x, Dot(v, w))
       /\ LET func == [e \in Word |-> Apply("-", 1, e)]
          IN InPlace(memory, o, func)[o] = Transform(v, func)
       /\ \A signed \in BOOLEAN : LET T == [Element EXCEPT !.signed = signed] IN
             Convert(Element, Convert(T, Binary("+", v, w)))
                = Binary("+", Convert(Element, Convert(T, v)), Convert(Element, Convert(T, w)))

\* A product of matrices is the composition of what they do to a vector.  For *=
\* this needs two objects: m *= m reads, through rhs, elements that it has already
\* overwritten (matrix.h:132).
ProductComposes == kind = "matrix" => \A l, r \in Objects :
    LET Unit(i)     == [j \in 1 .. Dim |-> IF i = j THEN 1 ELSE 0]
        Composes(m) == \A i \in 1 .. Dim :
            Times(m, Unit(i)) = Times(memory[l], Times(memory[r], Unit(i)))
    IN /\ Composes(Product(memory[l], memory[r]))
       /\ l # r => Composes(MultiplyBy(memory, l, r)[l])
=============================================================================
