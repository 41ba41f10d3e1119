SPECIFICATION FairSpec
CONSTANTS
  root = root
  src = src
  r1 = r1
  Runs = {r1, r2}
  Roots = {root}
  Sources = {src}
  NoRoot = NoRoot
  Vanishing = {src}
  Streams = {"stdout"}
  TableSize = 9
  Free = Free
  Foreign = Foreign
  Calls <- MountedAndBare
  Taken = {{2}}
  Times = {1}
INVARIANTS
  TypeOK
  IdsAreUnique
  NumbersStayOwn
  OnlyFailuresLeave
  CommandsConfined
  LostOnlyTogether

PROPERTIES
  ReturnsOrInputBlocks
