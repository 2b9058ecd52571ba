SPECIFICATION Spec
CONSTANTS
  Xlen = 32
  Levels = 2
  VpnCount = 2
  Bytes = {0, 1}
  Pages <- MCPages
  NextPage <- MCNextPage
  Ppns <- MCPpns
  Entries <- MCEntries
  Statuses <- MCStatuses
  TrapLevels = {"Machine"}
INVARIANTS TypeOK CheckSuffices
PROPERTIES OnlyMarksOrStores StoresAreMapped ReservationProtects
