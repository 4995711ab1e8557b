SPECIFICATION Spec
CONSTANTS
  Calls = {c1, c2}
  Nothing = Nothing
  MaxTools = 1
  MaxRestarts = 1
INVARIANTS
  LogoutIsFinal
  SignInLasts
  KeyIsKept
PROPERTY
  CallsEnd
CHECK_DEADLOCK FALSE
