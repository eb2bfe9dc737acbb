\* Receive path with reordering, loss and duplication, RTX recovery and FEC, no wrap.
CONSTANTS
  Capacity = 3
  MediaStarts = {10}
  FecStarts = {1000}
  TseqStarts = {10}
  MaxSent = 4
  WithFec = TRUE
  Configs <- MCConfigsCore
  RemotePT <- MCRemotePT
SPECIFICATION Spec
INVARIANT TypeOK NackSound TwccNoFalseReceived
