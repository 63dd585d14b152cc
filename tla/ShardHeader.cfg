SPECIFICATION HeaderSpec
CONSTANTS
  MaxUint = 15
  Width <- MCWidth
  Declarations <- MCDeclarations
  Payloads = {3, 4}
INVARIANTS
  AcceptedIsDisjoint
  SizesAreExact
