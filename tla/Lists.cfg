\* All programs; five nodes, two lists, three values.
CONSTANTS
  NodeIds = {n1, n2, n3, n4, n5}
  NULL = NULL
  Wild = Wild
  Lists = {1, 2}
  Values = {1, 2, 3}
  Programs = {"simple_dll", "list_ptr", "node_ptr", "fake1", "fake2", "fake3", "skip", "large_bin"}
SPECIFICATION Spec
\* Program 3 may have spoilt all its lists and stops.
CHECK_DEADLOCK FALSE
SYMMETRY Symmetry
INVARIANTS
  ListsSound
  SkipExact
PROPERTIES
  ImplementsLists
  ImplementsBin
