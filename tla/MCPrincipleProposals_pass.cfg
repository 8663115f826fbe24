SPECIFICATION Spec
CONSTANTS
  Grain = 4
  NoValue = none
  c1 = c1
  c2 = c2
  chase = chase
  caution = caution
  none = none
  NoClient = NoClient
  NoItem = NoItem
  Paths <- MCPaths
  Texts <- MCTexts
  Interpreted <- MCInterpreted
  Schema <- MCSchema
  Clients <- MCClients
  s1 = s1
  s2 = s2
  Sims <- MCSims
  MaxSets = 2
  MaxItems = 2
  FirstItems <- MCFirstItems
  Measurements <- MCMeasurements
  OldProposals <- MCOldProposals
  Answers <- MCAnswers
  Confirmable <- MCConfirmable
  SaveLists <- MCSaveLists
INVARIANTS PrincipleTypeOK AppliedOnce AnswersAgree KeysHeldInFlight ProposalsNeverLoosen
PROPERTIES FreshAcceptNeverLoosens
CHECK_DEADLOCK FALSE
SYMMETRY Swap
