SPECIFICATION Spec
CONSTANTS
  M = 5
  NKeys = 140
  CStr <- NoNul
  Workloads <- ShallowAndDeep
VIEW TreeView
INVARIANTS
  NodesWellFormed
  PointersConsistent
  SeparatorsTight
  SearchComplete
  ScanSorted
PROPERTIES
  ImplementsOrderedIndex
