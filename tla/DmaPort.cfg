SPECIFICATION FairSpec
CONSTANTS
  a1 = a1
  a2 = a2
  a3 = a3
  Actions <- MCActions
  Addr <- MCAddr
  Size <- MCSize
  LineSize = 2
INVARIANTS SomebodySends BytesAccountedFor
PROPERTIES ImplementsDmaService EveryActionCompletes
