\* Short fields of packets one 250 us unit apart, sent as RTCP feedback.
CONSTANTS
  MaxLen = 4
  FirstTimes = {64000}
  Steps = {1}
SPECIFICATION Spec
INVARIANT FeedbackRoundTrips
