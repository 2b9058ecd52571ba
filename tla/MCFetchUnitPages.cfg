SPECIFICATION Spec
CONSTANTS
  Indices = {0, 1}
  Pages = {"p", "q"}
  TablePages = {"root", "t"}
  RootPage = "root"
  Contexts <- MCContexts
  SamePage <- MCSamePage
  PageTables <- MCPageTables
  IndexCount = 2
  ZeroPage = "zero"
  Requests = {"none", "sfence.vma"}
  Values = {0, 1}
  Memories <- MCMemories
  Stores <- MCStores
  Targets <- PagesTargets
  InitialPc <- PagesInitialPc
  Following <- PagesFollowing
INVARIANT FetchesItsPage
