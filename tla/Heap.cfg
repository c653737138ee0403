\* Every alignment the kernel asks for is 16.  Room for three or four blocks.
SPECIFICATION Spec
CONSTANTS
    Base = 16
    HeapSize = 260
    Aligns = {16}
    Sizes = {8, 16, 34}
INVARIANTS HeapSafe UserAligned
