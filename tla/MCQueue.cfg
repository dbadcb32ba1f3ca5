SPECIFICATION Spec
CONSTANTS
  GroupLength = 2
  Junk = junk
  Elem = {e1, null}
  Null = null
  MaxItems = 5
  MaxMany = 3
PROPERTY ImplementsFifo
