\* Two overlapping calls, two clients that attach, restarts at any moment.
SPECIFICATION Spec
CONSTANTS
  HeaderName = {"accept", "cookie", "Accept"}
  InvalidName = {"Accept"}
  SensitiveName = {"cookie"}
  MaxRequestBodyBytes = 2
  MaxHeaderCount = 1
  MaxHeaderValues = 1
  MaxHeaderBytes = 2
  MaxReasonBytes = 2
  MaxTimeoutMS = 2
  Json = {"full", "short", "other", "bad"}
  NoJson = NoJson
  Milli = 2
  Slot = {s1, s2}
  h1 = h1
  h2 = h2
  Client = {h1, h2}
  BrokerId <- OneIdEach
  Kinds = {"policy", "host-aware", "state-reuse"}
  Hosts <- AttachedBy
  Setting <- SettingOf
  Malformed = {"bad"}
  Normalized <- WithDefaults
  InitialJson = "full"
  Declarations <- DeclaredInfos
  Manifest <- ManifestCapabilities
  Inputs <- Requested
  Services <- Asks
  Secrets <- SecretValues
  Unchecked <- WithoutChecks
INVARIANTS TypeOK HandshakeExact AckedConfigRuns PassedUnderHostsConfig PolicyEnforced OnlySanitisedRuns AttachAgreement NoLeakedConnection
PROPERTIES CallsEnd
