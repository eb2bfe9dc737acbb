\* RTX recovery with a typical codec configuration.
CONSTANTS
  Capacity = 3
  MediaStarts = {10}
  FecStarts = {0}
  TseqStarts = {10}
  MaxSent = 4
  WithFec = FALSE
  Configs <- MCConfigsTypical
  RemotePT <- MCRemotePT
SPECIFICATION Spec
INVARIANT RtxRecovers
