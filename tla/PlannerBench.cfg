SPECIFICATION Spec
INVARIANTS
  CubeSafe
  TurnsAsAsked
  EndsAsPromised
