\* Two programs copy a page at the same time; nobody is slow.
SPECIFICATION Spec
CONSTANTS
    Cpus = {c1, c2}
    Spaces = {s1, s2}
    Pages = {heap}
    Stack = {}
    Frames = {f1, f2, f3, f4}
    Zero = Zero
    None = None
    Slow = FALSE
    Speculates = FALSE
SYMMETRY Symmetric
INVARIANTS
    HasHappened
