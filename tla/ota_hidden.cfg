SPECIFICATION Spec
CONSTANTS
  v0 = v0
  v1 = v1
  v2 = v2
  Versions = {v0, v1, v2}
  Deployed = v0
  Packages <- MCPackages
  MaxUploads = 1
  MaxOutages = 0
  CpMayFail = TRUE
INVARIANT DoneMeansInstalled
CHECK_DEADLOCK FALSE
