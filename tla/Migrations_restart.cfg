CONSTANTS
  p1 = p1  p2 = p2
  Processes = {p1, p2}  NoProcess = NoProcess
  Names <- AnyName  Bootstrap <- BootstrapSchema  Upgrades <- SchemaUpgrades  Scripts <- ScriptsOf
  OldSchemas <- Found  Targets = {3}  All = 11
  MaxCommands = 3  MaxCrashes = 1
SPECIFICATION Spec
SYMMETRY Symmetry
INVARIANTS TypeOK RecordedIsThere 
CHECK_DEADLOCK FALSE
