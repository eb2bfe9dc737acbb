\* The word is scaled from 2^32 to 2^8 with the rates: no product of these
\* options reaches it, as none of the code's defaults reaches 2^32.
CONSTANTS
  Options <- MCOptions
  DwordMod = 256
  RandMax = 4
  RandDraws = {0, 1, 4}
  MaxFrames = 3
SPECIFICATION Spec
INVARIANT FrameSizesFollowRates
INVARIANT PacketStreamWellFormed
CHECK_DEADLOCK FALSE
