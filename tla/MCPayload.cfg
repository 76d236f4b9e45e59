SPECIFICATION Spec
CONSTANTS
  traceId = traceId
  oldTraceId = oldTraceId
  parentId = parentId
  name = name
  a = a
  b = b
  zeroFloat = zeroFloat
  oneFloat = oneFloat
  one = one
  nil = nil
  EmptyString = EmptyString
  Log = Log
  Zero = Zero
  True = True
  False = False
  Absent = Absent
  Data <- MCData
  TraceIdName <- MCTraceIdName
  ParentIdName <- MCParentIdName
  StringField <- MCStringField
  BoolField <- MCBoolField
  Int64Field <- MCInt64Field
  String <- MCString
  Int64 = {Zero, one}
  Float64 = {zeroFloat, oneFloat}
  Other = {nil}
  ToInt64 <- MCToInt64
  Incoming <- MCIncoming
  UserAgents = {EmptyString, a}
  KeyFieldLists <- MCKeyFieldLists
  Settings <- MCSettings
  MaxFields = 6
  MaxHops = 1
INVARIANT ExportAgrees
PROPERTY MapSpec
CHECK_DEADLOCK FALSE
