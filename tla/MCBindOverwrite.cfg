\* One valid request and an entry with the name of a validated field. A lenient
\* schema, for which VerdictOfValidate is evaluated, too.
SPECIFICATION Spec
CONSTANTS
  r1 = r1
  r2 = r2
  s1 = s1
  s2 = s2
  tracer = tracer
  clasher = clasher
  dotter = dotter
  R <- OneRequest
  S <- TwoSetters
  Keys <- MCKeys
  Dotted <- MCDotted
  Fields <- MCFields
  Required <- MCRequired
  Lenient = TRUE
  Enrichers <- MCEnrichers
  NoEnricher = NoEnricher
  Adds <- MCAdds
  Inputs <- GoodInputs
INVARIANT Overwrites
