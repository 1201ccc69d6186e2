SPECIFICATION Spec
CONSTANTS
  app = app
  lib = lib
  Files <- TwoFiles
  PageSize = 4
  AddrMax = 63
  Elfs <- Layouts
  Damaged <- Corrupt
  Biases <- Places
  MaxImages = 2
SYMMETRY EitherFile
INVARIANTS TypeOK ModulesExact LookupExact ProbeExact
