SPECIFICATION Spec
CONSTANTS
  Enabled = {{"socket"}, {"socket", "https", "ws"}}
  MaxRequests = 5
  MaxJobs = 2
INVARIANTS
  TypeOK
  AnswersMatchSubmits
  ListensWhenReady
  ReadyServes
PROPERTIES
  ImplementsExchange
  SubscribesAfterAuth
  SubmitsAnswered
CHECK_DEADLOCK FALSE
