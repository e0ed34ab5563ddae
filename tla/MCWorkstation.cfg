SPECIFICATION Spec
CONSTANTS
  User = user
  Others = {other}
  Names = {"alice", "bob"}
  Directories = {"elsewhere"}
  MaxCommands = 1
  MaxFaults = 1
CONSTRAINT MCOneTopic
CHECK_DEADLOCK FALSE
INVARIANTS
  NetworksUnmixed
  SettingsKept
  SelectedKeyResolves
  InstallKept
PROPERTIES
  SetupConverges
