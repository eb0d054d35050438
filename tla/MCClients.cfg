SPECIFICATION ClientsSpec
CONSTANTS
  Adapters = {ga, a1, a2}
  Gnss = ga
  MAX_ADAPTERS = 3
  MaskClients = {k1, k2}
  CallbackSets <- SmallCallbackSets
  mExcludedMask = {}
  EXTERNAL_DR_ENABLED = FALSE
  NmeaFromModem = TRUE
  AgpsCapable = TRUE
  MaxPriority = 1
  MaxMaskMsgs = 2
  NoAdapter = NoAdapter
  Updates <- SmallUpdates
  GpsConf <- SmallGpsConf
  CAPABILITIES = {"MSB", "MSA"}
  AGPS_CONFIG_INJECT = TRUE
  IdWrap = 3
  MaxFailedCalls = 1
  MaxControlMsgs = 2
  GeofenceIds = {1, 2}
  mDefaultId = 3
  BreachTypes = {"enter"}
  NiIds = {2}
  MaxApiSessions = 2
  MaxApiCalls = 2
  MaxRequests = 3
  ReportClients = {"gnssClient"}
  ReportCbs <- SmallReportCbs
  EngineReports <- SmallReports
  AcceptIntermediate = TRUE
  ApNmea = TRUE
  QZSS_SV_PRN_MIN = 193
  SVS_COUNT = 3
  MaxReports = 3
  MaxReportMsgs = 1
  Levels = {0, 1}
  FieldCounts = {2, 23, 404}
  maxItem = 2
  MaxStatusEvents = 3
  OsClients = {o1}
  NetworkTypes = {"mobile", "wifi"}
  ItemValues = {1}
  NoItem = NoItem
  MaxOsEvents = 3
  SvLists <- SmallSvLists
  UsedMasks <- SmallUsedMasks
  NoSentences = NoSentences
INVARIANTS
  ClientsTypeOK
  EngineMaskExact AdaptersReached
  EngineFollowsFramework VoteFollowsClient
  AnswersMatchRequests LiveCanBeEnded
  DeliveredOnce 
  DebugReportIsCurrent
  SubscribersCurrent ConnectionsCurrent
  SentencesAgree
CHECK_DEADLOCK FALSE
