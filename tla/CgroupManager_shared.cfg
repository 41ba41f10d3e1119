SPECIFICATION Spec
CONSTANTS
  Runs = {r1, r2, r3}
  Pids = {p1, p2, p3}
  NoPid = NoPid
  Hosts <- FreshAndBusy
SYMMETRY Symmetry
INVARIANTS
  TypeOK
  RunsLimited
  
  OomAttributed
  DirRemoved
