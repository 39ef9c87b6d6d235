SPECIFICATION Spec
CONSTANTS
  c1 = c1
  c2 = c2
  NoThread = NoThread
  Clients <- TwoClients
  Getters <- OneGetter
  RequestType = {"charRead"}
  MaxEvents = 1
CONSTRAINT NotSelfBlocked
INVARIANTS RequestTracked NoFlagLeftBehind ServicesLatestUnlessRaced
PROPERTY CallsReturn
