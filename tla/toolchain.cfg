SPECIFICATION MCSpec
CONSTANTS
  Curated <- MCCurated
  Releases <- MCReleases
  Archive <- MCArchive
  GitName = "g"
  GitFiles <- MCGitFiles
  BridgeName = "u"
  BridgeKey = "py:u"
  SourceFiles = {"a.dtr", "b.dtr"}
  CrlfTexts = {"one_crlf"}
  Unix <- MCUnix
  Mentions <- MCMentions
  ShaChoices = {TRUE}
  MaxCommands = 5
  Root <- M
  SourceSet <- MCSources
  ImportGraphs <- MCAllGraphs
  DeclTables <- MCDecls
  ForeignFiles = {}
  ExplicitFiles = {}
  DefectSets <- MCDefects
  EditBudgets = {0, 3}
  JobBudgets = {1, 3}
  UserFns <- MCUserFns
  W = 8
  N = 4
  Programs <- MCPrograms
  ClassFields <- MCClassFields
INVARIANTS LockedIsOnDisk ValidMeansComplete NoStaleCheck BuildIsSound CallMatchesImport BackendsAgree NumbersAgree FoldPreserves
PROPERTY OthersUntouched
CHECK_DEADLOCK FALSE
