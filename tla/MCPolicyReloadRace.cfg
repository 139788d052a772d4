SPECIFICATION Spec
CONSTANTS
  None = None
  Broken = Broken
  Tools <- MCTools
  Operations <- MCOperations
  AllowedTools <- MCAllowed
  Strict = FALSE
  Docs <- MCDocs
  Document <- MCDocument
  Orgs <- MCOrgs
  Effective <- MCEffective
  Tasks = {"poll"}
  TaskOptions <- MCTaskOptions
  Manual = {"manual"}
  ManualOptions <- MCOnlyLocal
  Overlap = TRUE
  MaxInFlight = 1
  Faults = {}
PROPERTY NeverLoosens
