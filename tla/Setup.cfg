SPECIFICATION SetupSpec
CONSTANTS
  Texts <- MCTexts
  MaxApplies = 2
  MaxEdits = 1
  FailingBoot = TRUE
  MaxInstalls = 2
  MaxAdmin = 1
  FailingBuild = TRUE
  Archives <- MCArchives
  MaxSelections = 1
  MaxOthers = 1
  FailingFiles = TRUE
  Hosts <- MCHosts
  MaxJobs = 2
  MaxMeddling = 1
CHECK_DEADLOCK FALSE
INVARIANT HostTypeOK
INVARIANT TextIsKept
INVARIANT OutcomeIsTrue
INVARIANT OnlyTheArgumentIsAdded
INVARIANT FailuresCleanUp
INVARIANT InstalledIsThere
INVARIANT ToolIsWhole
INVARIANT AcceptedArchivesInstall
 
PROPERTY OthersRegistrationStays
PROPERTY OthersToolStays
