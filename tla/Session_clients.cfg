\* The command and the GUI answer the same session, with auth-retry.
SPECIFICATION Spec
CONSTANTS
  Client = {"cli", "gui"}
  AuthRetry = TRUE
  Keyring <- MCLogin
  MaxPrompts = 2
  MaxQueue = 2
INVARIANTS
  NoPromptAnsweredTwice
\* a session ends for good with its process
CHECK_DEADLOCK FALSE
