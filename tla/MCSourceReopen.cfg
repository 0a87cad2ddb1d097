CONSTANTS
    UpBufs = {u1, u2, u3}
    OwnBufs = {o1, o2, o3}
    NoBuf = NoBuf
    GenRows = 2
SPECIFICATION Spec
SYMMETRY Symmetry
INVARIANT ReopenRepositions
