\* All documents of both families, strict and lenient, with URL parameters.
SPECIFICATION FairSpec
CONSTANTS
  Schemas   <- MCSchemas
  FieldsOf  <- MCFieldsOf
  Lenient   <- MCLenient
  Keys      <- MCKeys
  NullKey   = ""
  Nodes     <- MCNodes
  Shape     <- MCShape
  Member    <- MCMember
  Elements  <- MCElements
  Types     <- MCTypes
  Values    <- MCValues
  TypeOf    <- MCTypeOf
  Texts     <- MCTexts
  Bad       = Bad
  JsonValue <- MCJsonValue
  TextValue <- MCTextValue
  Token     <- MCToken
  Spelling  <- MCSpelling
  IndexOf   <- MCIndexOf
  Paths     <- MCPaths
  Limits    <- MCLimits
  WordBits = 6
  NarrowBits = 4
  DoubleBits = 4
  SingleBits = 3
  MaxDouble = 240
  MaxSingle = 100
  Refused   = Bad
  NoSchema  = "none"
  Calls     <- MCCalls
INVARIANTS
  TypeOK
  Faithful
  Verdict
  AllReported
  ReadBack
  ExactOrRefused
PROPERTIES
  Termination
\* The call returns.
CHECK_DEADLOCK FALSE
