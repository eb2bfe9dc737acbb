\* Every interleaving of the control calls with both stream threads, with
\* a condition variable that wakes only on a signal or a timeout.
SPECIFICATION Spec
INVARIANT SenderLeavesOnlyWhenStopped
PROPERTY ControlCallsReturn
