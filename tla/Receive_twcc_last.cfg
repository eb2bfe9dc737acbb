\* Transport-wide feedback for consecutive packets.
CONSTANTS
  Capacity = 3
  MediaStarts = {10}
  FecStarts = {0}
  TseqStarts = {10}
  MaxSent = 2
  WithFec = FALSE
  Configs <- MCConfigsTypical
  RemotePT <- MCRemotePT
SPECIFICATION Spec
INVARIANT TwccNoFalseLost
