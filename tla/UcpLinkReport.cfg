SPECIFICATION Spec
CONSTANTS
  Enabled = {{"socket"}, {"socket", "https", "ws"}}
  MaxRequests = 5
  MaxJobs = 2
INVARIANT
  AnswersReported
CHECK_DEADLOCK FALSE
