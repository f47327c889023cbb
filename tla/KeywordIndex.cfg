\* Entries of two pointers, one publish of a keyword within an hour.
CONSTANTS
  a = a  b = b  a1 = a1  a2 = a2  b1 = b1  k1 = k1  k2 = k2
  NoKeyword = NoKeyword
  Nodes = {a, b}
  Node <- MCNode
  Keywords = {k1, k2}
  Words <- MCWords
  PageSize = 2
  MaxPointers = 2
  MaxPublishes = 1
SPECIFICATION Spec
SYMMETRY MCSymmetry
INVARIANTS RateNearlyKept PublishedIsKept
