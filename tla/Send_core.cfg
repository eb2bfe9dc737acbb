\* Sending, NACK answering (packets that fit the MTU or not) and pruning, away from the 16-bit wrap.
CONSTANTS
  Keep = 2
  MaxTime = 3
  SeqStarts = {10}
  MaxPkts = 4
  Pids = {9, 10, 11, 65535}
  Offsets = {1, 2}
  Fits <- MCFitsAny
SPECIFICATION Spec
INVARIANT TypeOK BufferPruned
PROPERTY PliOnlyOnMiss
