\* One update and one check on a host, three builds of which one does not load.
CONSTANTS
  Updater = {install, check}
  CheckOnly = {check}
  Build = {b1, b2, b3}
  Broken = {b3}
  NoBuild = NoBuild
  NoFile = NoFile
  Host = {"unix", "windows"}
  Inode = {1, 2, 3, 4, 5}
  MaxReleases = 1
  MaxFaults = 2
  MaxChecks = 2
SPECIFICATION Spec
INVARIANTS TypeOK BinaryKept
PROPERTIES InstalledAsVerified Converges ImageUntouched
CHECK_DEADLOCK FALSE
