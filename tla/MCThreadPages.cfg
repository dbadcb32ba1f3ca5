\* Two words to a page, two threads with stacks up to two pages and a block of
\* other code; thread structures and pages are in the same bin.
SPECIFICATION Spec
CONSTANTS
  Pointer = 2
  Alignment = 2
  Increment = 4
  Bins = 3
  PageSize = 6
  ThreadSize = 5
  FirstLen = 1
  BlockSizes = {1}
  Lengths = {3, 4}
  MaxThreads = 2
  MaxBlocks = 1
  Nobody = Nobody
INVARIANTS
  TypeOK
  HeapPartitioned
  StackRestored
