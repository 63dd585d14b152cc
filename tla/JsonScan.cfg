SPECIFICATION Spec
CONSTANTS
  Strings <- MCStrings
  Scalars <- MCScalars
  Malformed <- MCMalformed
  Key <- MCKey
  MaxDepth = 3
  MaxLexemes = 10
INVARIANTS
  SkipsExactlyOneValue
  FindsTheFirstMember
