\* Memory of programs that come and go, on three processors.
SPECIFICATION Spec
CONSTANTS
    Cpus = {c1, c2, c3}
    Spaces = {s1, s2}
    Pages = {heap}
    Stack = {}
    Frames = {f1, f2, f3, f4}
    Zero = Zero
    None = None
    Slow = TRUE
    Speculates = FALSE
SYMMETRY Symmetric
INVARIANTS
    TranslatesOwn
    ReadsOwnWrites
    FramesAccounted
