SPECIFICATION Spec
CONSTANTS
  M = 5
  NKeys = 8
  CStr <- WithNul
  Workloads <- Shallow
VIEW TreeView
PROPERTIES
  ImplementsOrderedIndex
