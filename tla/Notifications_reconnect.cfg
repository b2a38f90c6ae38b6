SPECIFICATION Spec
CONSTANTS
    Kinds = {{"message"}}
    Buffer = 2
    MaxPending = 1
INVARIANT ResyncsOnReconnect
