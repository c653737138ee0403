\* An alignment larger than the header.
SPECIFICATION Spec
CONSTANTS
    Base = 16
    HeapSize = 260
    Aligns = {32}
    Sizes = {8, 16, 34}
INVARIANT UserAligned
