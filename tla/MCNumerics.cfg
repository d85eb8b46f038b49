SPECIFICATION Spec
CONSTANTS
    Width       = 3
    ElementBits = 2
    Dim         = 2
    Objects     = {a, b}
    VecSize     = 3
    Scalar     <- MCScalar
SYMMETRY MCSymmetry
INVARIANTS
    ScalarsAgree
    VectorsAgree
    ProductComposes
