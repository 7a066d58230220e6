SPECIFICATION SessionSpec
CONSTANTS
  lead = lead
  helper = helper
  mainRoom = mainRoom
  sideRoom = sideRoom
  Conversations = {mainRoom, sideRoom}
  MaxWakes = 5
  Targets = {lead, helper}
  ReactorSpecs <- AllSpecs
  ReactorScopes <- OneRoom
  NoReactor = noReactor
  MaxInstalls = 2
  MaxReactorRestarts = 1
  Asks = {q1, q2}
  Orchestrator = lead
  HomeThread = mainRoom
  Workers = {helper}
  ThreadOf <- WorkerThread
  People = {guest}
  Automation = automation
  Tabs = {tab1, tab2}
  MaxEdits = 3
  MaxRestartsOfServer = 1
  TriggerIds = {alarm, hook}
  Scheduled = {alarm}
  Dedicated = {alarm, hook}
  WithHandler = {hook}
  Seeded = {}
  Calls = {c1, c2}
  Period = 1
  MaxWorkers = 2
  MaxBoots = 1
  Spawned = {a, b}
  MaxTasks = 1
  MaxDrops = 1
  Folders = {f1, f2}
  SeedMounts = {f1}
  BoundTo = {f1, f2}
  MaxCallers = 1
  MaxCrashes = 1
  HostFiles = {note}
  Attachments = {photo}
  Artifacts = {report}
INVARIANTS
  TypesOK
  NoOvertaking
  FoldedExactly
  AskIsTracked
  CacheTellsTheStore
  StartersStay
  PresenceFollowsTabs
  OneWorkerEach
  HostKeepsTrack
  PrimeIsAsCreated
  DeletedHasNoPrime
  RemovedIsGone
PROPERTIES
  AskSettles
CHECK_DEADLOCK FALSE
