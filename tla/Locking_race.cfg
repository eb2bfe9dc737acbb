\* Reset and the SDES setters racing onData and Send.
CONSTANTS
  MaxSessions = 3
  SigOps = {"reset", "send", "recv"}
SPECIFICATION Spec
INVARIANT SessionsLive
