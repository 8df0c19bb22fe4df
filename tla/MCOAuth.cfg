SPECIFICATION OAuthSpec
CONSTANTS
  Login = {h1, h2}
  NoFlow = NoFlow
CHECK_DEADLOCK FALSE
INVARIANT
  CodeCanArrive
