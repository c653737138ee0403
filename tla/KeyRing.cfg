\* A ring of four slots: it wraps and it fills.  Nothing needs a bound.
SPECIFICATION FairSpec
CONSTANTS
    Cap = 4
    Elem = {a, b}
    Zero = zero
INVARIANT RingInv
PROPERTIES FifoSpec WaiterServed
