\* One `warrenvpnctl connect` without auth-retry.
SPECIFICATION Spec
CONSTANTS
  Client = {"cli"}
  AuthRetry = FALSE
  Keyring <- MCEmptyKeyring
  MaxPrompts = 3
  MaxQueue = 2
INVARIANTS
  TypeOK
  UnansweredStaysPending
PROPERTIES
  FailureMeansEnd
  QuestionsAnswered
  ExitEndsFollow
\* a session ends for good with its process
CHECK_DEADLOCK FALSE
