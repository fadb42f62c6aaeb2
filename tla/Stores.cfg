SPECIFICATION StoresSpec
CONSTANTS
  ArtPath = {p1}
  Content = {c1, c2}
  ArtRequest = {r1, r2}
  MaxVersion = 3
  Fails = TRUE
  GateRun = {g1}
  GateRequest = {r1, r2, r3}
  MaxResults = 1
  Object = {o1, o2}
  CtxRequest = {r1, r2}
  Key = {k1}
  MaxSends = 3
  File = {f1}
  Hash = {h1}
  DeltaRequest = {r1, r2}
  MaxEvents = 3
  Gone = Gone
  NumSchedules = 2
  MaxUpdated = 0
  GivenAttempts = {0, 1}
  SchedTask = {t1}
  SchedRequest = {r1, r2}
  NumSessions = 2
  Provider = {v1}
  SessionRequest = {r1, r2}
  NumHandoffs = 1
  MaxSources = 3
  MemoryRow <- MemoryRows
  ResumeRow <- ResumeRows
  BoundaryRow <- BoundaryRows
  HandoffRequest = {r1, r2}
  Fact <- FewFacts
  HandEdge <- MCHandEdge
  SyncRequest = {r1, r2}
  GraphNode <- MCNode
  Link <- MCLink
  Import <- MCImport
  Forbidden = {"x"}
  Slashed = {"b"}
  Change <- MCChange
  MaxDepth = 3
  Text = {"short", "long"}
  Parts <- MCParts
  VaultRequest = {r1, r2}
  Rule <- MCRule
  BuiltIn <- MCBuiltIn
  Ask <- MCAsk
  StaticFallback = FALSE
SYMMETRY StoresSymmetry
INVARIANTS
  StoresTypeOK
  ActiveIsNewest
  VerdictMatchesResults
  StoredOnce
  EventsFollow
  OneAttempt
  RecoveryOffersLive
  VerdictIsCurrent
  SyncedGraphMirrors
  SpreadIsReach
  VaultWhole
  AllowedHasGround
PROPERTIES
  HistoryOnlyGrows
  FlaggedStaysFlagged
  OnlyRevivedByName
CHECK_DEADLOCK FALSE
