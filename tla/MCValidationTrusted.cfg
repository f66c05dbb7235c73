\* A lenient schema, an object field and a field with Between, both given in the URL.
SPECIFICATION Spec
CONSTANTS
  Schemas   <- MCSchemas
  FieldsOf  <- MCFieldsOf
  Lenient   <- MCLenient
  Keys      <- MCKeys
  NullKey   = ""
  Nodes     <- MCNodes
  Shape     <- MCShape
  Member    <- MCMember
  Elements  <- MCElements
  Types     <- MCTypes
  Values    <- MCValues
  TypeOf    <- MCTypeOf
  Texts     <- MCTexts
  Bad       = Bad
  JsonValue <- MCJsonValue
  TextValue <- MCTextValue
  Token     <- MCToken
  Spelling  <- MCSpelling
  IndexOf   <- MCIndexOf
  Paths     <- MCPaths
  Limits    <- MCLimits
  WordBits = 6
  NarrowBits = 4
  DoubleBits = 4
  SingleBits = 3
  MaxDouble = 240
  MaxSingle = 100
  Refused   = Bad
  NoSchema  = "none"
  Calls     <- OfferCalls
INVARIANT Trusted
CHECK_DEADLOCK FALSE
