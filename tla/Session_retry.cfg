\* One `warrenvpnctl connect` with auth-retry.
SPECIFICATION Spec
CONSTANTS
  Client = {"cli"}
  AuthRetry = TRUE
  Keyring <- MCEmptyKeyring
  MaxPrompts = 3
  MaxQueue = 2
INVARIANTS
  UnansweredStaysPending
\* a session ends for good with its process
CHECK_DEADLOCK FALSE
