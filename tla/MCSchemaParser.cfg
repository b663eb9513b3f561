CONSTANTS
  Key <- MCKey
  Value <- MCValue
  File <- MCFile
  ServiceRef <- MCServiceRef
  RelationOf <- MCRelationOf
  Mode <- MCMode
  Format <- MCFormat
  Route <- MCRoute
  CountOf <- MCCountOf
  ParamsOf <- MCParamsOf
  TagsOf <- MCTagsOf
SPECIFICATION ParserSpec
INVARIANTS
  ReadsWhatIsNested
  VerdictIsTheGrammar
  MethodsHaveOneCondition
CHECK_DEADLOCK FALSE
