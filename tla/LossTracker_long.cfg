\* A window with more holes than one NACK field holds: the 16-bit mask flush, slides by one, by several and by the whole window.
CONSTANTS
  Capacity = 19
  SeqIn <- MCSeqLong
SPECIFICATION Spec
CONSTRAINT LongConstraint
INVARIANT TypeOK
INVARIANT WindowMirrorsArrivals
INVARIANT NackSound
INVARIANT NackComplete
INVARIANT PliNackCompoundRoundTrips
PROPERTY GapSignalled
