-------------------------------- MODULE Vectors --------------------------------
(* Vec2, Vec3 and Vec4 (vec.h, vec_detail.h) and Matrix (matrix.h) of kae, with    *)
(* unsigned elements.  The loops of the operators write the left operand while    *)
(* they read the right one, which may be the same object: memory is a function    *)
(* from objects to their elements.                                               *)
EXTENDS Scalars, SequencesExt

CONSTANTS
    Dim,         \* of the matrices
    ElementBits  \* of the elements

ASSUME VectorsAssumption == Dim \in Nat \ {0} /\ ElementBits \in Nat \ {0}

Element   == [signed |-> FALSE, bits |-> ElementBits]
Word      == Values(Element)
Wrap(k)   == As(Element, k)
Places(v) == [i \in 1 .. Len(v) |-> i]  \* the order of the loops

Operators == {"+", "-", "*", "/"}

\* Division by zero is undefined.
Defined(op, rhs) == op = "/" => rhs # 0

Apply(op, x, y) == CASE op = "+" -> Wrap(x + y)
                     [] op = "-" -> Wrap(x - y)
                     [] op = "*" -> Wrap(x * y)
                     [] op = "/" -> x \div y
-----------------------------------------------------------------------------
(* Vectors are sequences of their elements: x, y, z, w.                          *)

\* Mutant of Compound: the right operand is read one element behind.
CompoundBehind(mem, o, op, p) ==
    FoldLeft(LAMBDA m, i : [m EXCEPT ![o][i] = Apply(op, @, m[p][IF i = 1 THEN 1 ELSE i - 1])],
             mem, Places(mem[o]))

\* mem after o op= p, element by element.
Compound(mem, o, op, p) ==
    FoldLeft(LAMBDA m, i : [m EXCEPT ![o][i] = Apply(op, @, m[p][i])], mem, Places(mem[o]))

\* o op= rhs with a scalar, which is passed by value.
CompoundScalar(mem, o, op, rhs) ==
    FoldLeft(LAMBDA m, i : [m EXCEPT ![o][i] = Apply(op, @, rhs)], mem, Places(mem[o]))

\* lhs op rhs, through op= on a copy of lhs.
Binary(op, v, w)       == Compound([lhs |-> v, rhs |-> w], "lhs", op, "rhs").lhs
BinaryScalar(op, v, s) == CompoundScalar([lhs |-> v], "lhs", op, s).lhs
ScalarBinary(op, s, v) == [i \in DOMAIN v |-> Apply(op, s, v[i])]

Negate(v)   == [i \in DOMAIN v |-> Wrap(-v[i])]
Equal(v, w) == \A i \in DOMAIN v : v[i] = w[i]
Dot(v, w)   == FoldLeft(LAMBDA r, i : Wrap(r + Apply("*", v[i], w[i])), 0, Places(v))

\* apply, which works in place, and transform.
InPlace(mem, o, func) ==
    FoldLeft(LAMBDA m, i : [m EXCEPT ![o][i] = func[@]], mem, Places(mem[o]))
Transform(v, func) == [i \in DOMAIN v |-> func[v[i]]]

\* The conversion to a vector of another element type.
Convert(T, v) == [i \in DOMAIN v |-> As(T, v[i])]
-----------------------------------------------------------------------------
(* Matrices are sequences of their elements, row by row.                         *)

At(row, col) == row * Dim + col + 1  \* operator()

\* The turns of the three loops of *=, in order.
Turns == LET Row == [k \in 1 .. Dim * Dim * Dim |-> (k - 1) \div (Dim * Dim)]
             Col == [k \in 1 .. Dim * Dim * Dim |-> ((k - 1) \div Dim) % Dim]
         IN [k \in 1 .. Dim * Dim * Dim |->
                [row |-> Row[k], col |-> Col[k], i |-> (k - 1) % Dim]]

\* Mutant of Turn: the left operand is read where it is written.
TurnInPlace(mem, l, r, copy, t) ==
    LET k       == At(t.row, t.col)
        cleared == IF t.i = 0 THEN [mem EXCEPT ![l][k] = 0] ELSE mem
    IN [cleared EXCEPT ![l][k] =
           Wrap(@ + cleared[l][At(t.row, t.i)] * cleared[r][At(t.i, t.col)])]

\* lhs(row, col) += lhs_copy(row, i) * rhs(i, col), after lhs(row, col) = 0.
Turn(mem, l, r, copy, t) ==
    LET k       == At(t.row, t.col)
        cleared == IF t.i = 0 THEN [mem EXCEPT ![l][k] = 0] ELSE mem
    IN [cleared EXCEPT ![l][k] = Wrap(@ + copy[At(t.row, t.i)] * cleared[r][At(t.i, t.col)])]

\* mem after l *= r.
MultiplyBy(mem, l, r) ==
    FoldLeft(LAMBDA m, t : Turn(m, l, r, mem[l], t), mem, Turns)

\* operator* of matrices: *= on a copy of lhs, which is another object than rhs.
Product(a, b) == MultiplyBy([lhs |-> a, rhs |-> b], "lhs", "rhs").lhs

\* operator* of a matrix and a vector.
Times(a, v) == [k \in 1 .. Dim |->
    FoldLeft(LAMBDA r, i : Wrap(r + a[At(k - 1, i - 1)] * v[i]), 0, Places(v))]
=============================================================================
