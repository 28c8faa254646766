\* Translations loaded between the invalidation and the new entry.
SPECIFICATION Spec
CONSTANTS
    Cpus = {c1, c2}
    Spaces = {s1, s2}
    Pages = {heap}
    Stack = {}
    Frames = {f1, f2, f3, f4}
    Zero = Zero
    None = None
    Slow = TRUE
    Speculates = TRUE
SYMMETRY Symmetric
INVARIANTS
    TranslatesOwn
