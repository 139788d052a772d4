SPECIFICATION FairSpec
CONSTANTS
  None = None
  Broken = Broken
  Tools <- MCTools
  Operations <- MCOperations
  AllowedTools <- MCAllowed
  Strict = FALSE
  Docs <- MCDocs
  Document <- MCDocument
  Orgs <- MCOrgs
  Effective <- MCEffective
  Tasks = {"watch", "poll"}
  TaskOptions <- MCTaskOptions
  Manual = {"manual"}
  ManualOptions <- MCManualOptions
  Overlap = FALSE
  MaxInFlight = 1
  Faults = {"listener", "gateway"}
INVARIANT TypeOK
PROPERTIES
  NeverLoosens
  NoSwapUndone
  StopSilences
  WatchedEditLoaded
  GivenUpEditCaughtUp
