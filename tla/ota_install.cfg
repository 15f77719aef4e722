SPECIFICATION LiveSpec
CONSTANTS
  v0 = v0
  v1 = v1
  v2 = v2
  Versions = {v0, v1, v2}
  Deployed = v0
  Packages <- MCLivePackages
  MaxUploads = 2
  MaxOutages = 2
  CpMayFail = FALSE
PROPERTY EventuallyInstalled
