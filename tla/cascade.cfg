\* One request at a time about a credential, a domain and a route, with forced
\* deletes.
CONSTANTS
  Kinds = {"dns-credential", "domain", "route", "user", "host"}
  Ids = {"edge", "nas"}
  Keys <- MCKeys
  Slug <- MCSlug
  Passwords = {p}
  NoSecret = NoSecret
  Clients = {c1}
  ForceFlags = {TRUE, FALSE}
  Faults = {}
  Domains = {"home.cn", "my.home.cn", "my-home.cn"}
  Numerals = {"80", "443", "8080", "8443", "22", "53", "1"}
  Starts = 2
  Touches = 3
  Registries = {"hub", "own"}
  NamesAllowed <- MCAllowed
  NamesReserved <- MCReserved
  VariableValues = {"v", "w"}
  NotTouched = "untouched"
  ComposeFiles <- MCFiles
  Secrets = {"s1", "s2"}
  MaxKeys = 2
  MaxRequests = 4
  NoValue = NoValue
  Settings = {"w1", "w2"}
  Foreign = "rest"
  MaxUpdates = 4
  ConfFiles <- MCConfFiles
  ConfEnvs <- MCConfEnvs
  ConfForms <- MCConfForms
  NoConf = NoConf
  MaxPuts = 3
  MaxStarts = 3
SPECIFICATION AllSpec
INVARIANT NoDanglingSchemaRefs
CHECK_DEADLOCK FALSE
