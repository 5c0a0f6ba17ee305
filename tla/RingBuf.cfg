CONSTANTS
    Capacity = 4
    Items = {x, y}
    Zero = zero
SPECIFICATION Spec
INVARIANTS TypeOK TailAhead Released
PROPERTIES QueuedStay FifoSpec
