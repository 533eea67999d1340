CONSTANTS
  Types = {44, 65}
  TfmType = 65
  Ids = {k1, k2}
  SigSize <- MCSigSize
  MaxOps = 4
SPECIFICATION Spec
\* the bound on calls ends every behaviour
CHECK_DEADLOCK FALSE
INVARIANT SuccessUsesInstalledKey
