\* Two requests, any order of calls: what handlers see.
SPECIFICATION Spec
CONSTANTS
  r1 = r1
  r2 = r2
  s1 = s1
  s2 = s2
  tracer = tracer
  clasher = clasher
  dotter = dotter
  R <- TwoRequests
  S <- TwoSetters
  Keys <- MCKeys
  Dotted <- MCDotted
  Fields <- MCFields
  Required <- MCRequired
  Lenient = FALSE
  Enrichers <- MCEnrichers
  NoEnricher = NoEnricher
  Adds <- MCAdds
  Inputs <- StrictInputs
INVARIANTS
  TypeOK
  HandlerSeesValidated
  WholeEnrichment
  EnrichedSince
  NilNotCalled
SYMMETRY Symmetry
PROPERTIES
  FirstWins
