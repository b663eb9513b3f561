CONSTANTS
  Request = {r1}
  Token = {t1}
  NoToken = NoToken
  Binder = {p1}
  Method = {m1}
  Handler = {h1}
  NoHandler = NoHandler
  GivenCode = {"other", ""}
  Check = {"type", "method"}
SPECIFICATION Spec
INVARIANT GoErrorsBecomeResponses
