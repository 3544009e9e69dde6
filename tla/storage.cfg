\* The chain dns-credential <- domain <- route with forced deletes; users and
\* hosts, two requests at a time, restarts and failing secret writes; runs of
\* migrate41 that are killed and repeated; starts of the store that fail; two
\* updates of a registry or of daemon.json at a time, and of gatebox.conf.  Or
\* one project with two contents of its file and one container with two images,
\* two requests at a time.
CONSTANTS
  Kinds = {"dns-credential", "domain", "route", "user", "host"}
  Ids = {"edge", "nas"}
  Keys <- MCKeys
  Slug <- MCSlug
  Passwords = {p}
  NoSecret = NoSecret
  Clients = {c1, c2}
  ForceFlags = {TRUE, FALSE}
  Faults = {"crash", "secretWrite"}
  Domains = {"home.cn", "my.home.cn", "my-home.cn"}
  Numerals = {"80", "443", "8080", "8443", "22", "53", "1"}
  Starts = 2
  Touches = 3
  Registries = {"hub", "own"}
  NamesAllowed <- MCAllowed
  NamesReserved <- MCReserved
  VariableValues = {"v", "w"}
  NotTouched = "untouched"
  ComposeFiles <- MCFiles
  Secrets = {"s1", "s2"}
  MaxKeys = 2
  MaxRequests = 4
  NoValue = NoValue
  Settings = {"w1", "w2"}
  Foreign = "rest"
  MaxUpdates = 4
  ConfFiles <- MCConfFiles
  ConfEnvs <- MCConfEnvs
  ConfForms <- MCConfForms
  NoConf = NoConf
  MaxPuts = 3
  MaxStarts = 3
  Projects = {p1}
  Begins <- MCBegins
  Yamls = {y1, y2}
  Names = {n1}
  Images = 1
  MaxMade = 3
  Handlers = {t1, t2}
  Nothing = Nothing
  Untold = Untold
  MaxAsked = 4
  MaxFailures = 2
  Events = 4
SPECIFICATION SideSpec
INVARIANTS
  CalmSecretsMatchUsers MigrationKeepsSites ValidObjectsRender
  SmoothSecretsKept VariablesMoveOnce SettingsKept
  CalmRestoreIsLastDeployed NameNeverVacant CalmRoutesFollow
PROPERTIES OnlyCascadeDangles SecondRunIsQuiet
SYMMETRY Symmetry
CHECK_DEADLOCK FALSE
