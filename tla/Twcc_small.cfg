CONSTANTS
  MaxLen = 15
  FirstTimes = {64000, 95750}
  Steps = {127}
SPECIFICATION Spec
INVARIANT FieldRoundTrips
