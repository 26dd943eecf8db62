SPECIFICATION Spec
CONSTANTS
  Words <- MCWords
  Slugs = {"declared", "undeclared", "misdeclared"}
  RootsOf <- MCRootsOf
  DirsIn <- MCDirsIn
  DependencyDirs = {"vendor"}
  Mark <- MCMark
  Checkouts = {"app", "workspace"}
  Positions = {"l12", "l34"}
  FrameWords = {"at", "File"}
  ErrorWords = {"TypeError"}
  TransientWords = {"ECONNRESET"}
  MaxFrames = 2
  Entries <- MCEntries
  Runs <- MCRuns
  Issues <- MCIssues
  MaxDecided = 2
INVARIANT FallbackIsNarrow
