CONSTANTS
  m1 = m1
  m2 = m2
  unknown = unknown
  Binder = {p1, p2}
  Executor = {e1}
  Name <- MCName
  Method <- MCMethod
  Handler = {h1, h2}
  NoHandler = NoHandler
  Nobody = Nobody
SPECIFICATION FairSpec
PROPERTIES LinearSpec BindersFinish
