\* Two projects, the name of one begins that of the other; one container,
\* one request at a time.
CONSTANTS
  Projects = {p1, p2}
  Begins <- MCBegins
  Yamls = {y1}
  Names = {n1}
  Images = 1
  MaxMade = 3
  Handlers = {t1}
  Nothing = Nothing
  Untold = Untold
  MaxAsked = 2
  MaxFailures = 3
  Events = 5
SPECIFICATION MCDockerSpec
PROPERTY OnlyOwnVolumesGo
CHECK_DEADLOCK FALSE
