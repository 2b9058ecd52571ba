SPECIFICATION FairSpec
CONSTANTS
  Indices = {0, 1}
  Pages = {"p", "q"}
  TablePages = {"root", "t"}
  RootPage = "root"
  Contexts <- MCContexts
  SamePage <- MCSamePage
  LineSize = 2
  WordCount = 2
  WordOf <- MCWordOf
  Insns <- MCInsns
  Memories <- MCMemories
  PageTables <- MCPageTables
PROPERTIES
  TablesKeepMappings
  ImplementsMemoryPort
  EveryAccessEnds
