\* The media sequence number crossing its 16-bit wrap.
CONSTANTS
  Capacity = 3
  MediaStarts = {65535}
  FecStarts = {0}
  TseqStarts = {10}
  MaxSent = 2
  WithFec = FALSE
  Configs <- MCConfigsTypical
  RemotePT <- MCRemotePT
SPECIFICATION Spec
INVARIANT ExtSeqReconstructed
