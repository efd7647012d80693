SPECIFICATION Spec
CONSTANTS
  Addresses = {0, 1, 2, 3, 4, 5, 6, 7}
  Sizes = {1, 2, 4, 8}
  AlwaysForbidden <- AlwaysForbiddenDef
  Private <- PrivateDef
  Invalid = Invalid
  Mentions <- MentionsDef
  MaxNotable = 1
  Policies <- PoliciesDef
  Registrable <- RegistrableDef
  Requested <- RequestedDef
  Options <- OptionsDef
  Reports <- ReportsDef
INVARIANTS
  TypeOK
  SelectionObeysPolicy
  StaysInside
  RefusedOnlyIfHopeless
  WorkerAgrees
  SummaryIsTrue
CHECK_DEADLOCK FALSE
