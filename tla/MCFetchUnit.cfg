SPECIFICATION FairSpec
CONSTANTS
  Indices = {0, 1}
  Pages = {"p", "q"}
  TablePages = {"root", "t"}
  RootPage = "root"
  Contexts <- MCContexts
  SamePage <- MCSamePage
  PageTables <- MCPageTables
  IndexCount = 2
  ZeroPage = "zero"
  Requests = {"none", "sfence.vma"}
  Values = {0, 1}
  Memories <- MCMemories
  Stores <- MCStores
  Targets <- MCTargets
  InitialPc <- MCInitialPc
  Following <- MCFollowing
INVARIANT FetchedIsFresh
PROPERTIES
  TakenOnce
  KeepsFetching
