CONSTANTS
  Request = {r1, r2}
  Token = {t1}
  NoToken = NoToken
  Binder = {p1}
  Method = {m1, m2}
  Handler = {h1}
  NoHandler = NoHandler
  GivenCode = {"other", ""}
  Check = {"type", "method"}
SYMMETRY RequestSymmetry
SPECIFICATION Spec
INVARIANTS
  TypeOK
  OneGrantPerToken
  RefusalLeavesNoTrace
  LookupIsCurrent
  AnswerIsTheOutcome
