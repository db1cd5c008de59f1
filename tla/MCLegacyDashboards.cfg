\* Links with and without a dashboard, a project and values; two events and one failure.
SPECIFICATION FairSpec
CONSTANTS
  Boards <- MCBoards
  Shared = {"d2"}
  Names = {"namespace", "pod", "interval"}
  Variables <- MCVariables
  Template <- MCTemplate
  Values = {1, 2, 3, 4, 5}
  All = 9
  Projects = {2, 8}
  AllProjects = 8
  Offered <- MCOffered
  Urls <- MCUrls
  MaxEvents = 2
  MaxFailures = 1
INVARIANTS TypeOK OptionsMatchQueries
PROPERTIES ComesToRest LinksAreKept
\* The user may stop.
CHECK_DEADLOCK FALSE
