SPECIFICATION Spec
CONSTANTS
  v0 = v0
  v1 = v1
  v2 = v2
  Versions = {v0, v1, v2}
  Deployed = v0
  Packages <- MCCutPackages
  MaxUploads = 2
  MaxOutages = 2
  CpMayFail = TRUE
INVARIANTS
  DeadOnlyWithoutScript
  OneFaultKeepsPrevious
  BootIndexHonest
PROPERTY VerifiedInstall
\* Without boot.scr the device stays at the U-Boot prompt.
CHECK_DEADLOCK FALSE
