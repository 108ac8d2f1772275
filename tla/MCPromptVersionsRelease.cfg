SPECIFICATION Spec
CONSTANTS
  c1 = c1
  c2 = c2
  hello = hello
  world = world
  none = none
  Clients <- TwoClients
  Contents <- TwoContents
  NoRow <- none
  MaxVersion = 3
INVARIANT NextVersionIsFree
SYMMETRY Symmetric
