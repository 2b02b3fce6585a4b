CONSTANTS
  MAX_TICK = 10
  TickSpacings = {1, 2, 3}
  TICK_ARRAY_SIZE = 2
  TICK_ARRAY_BITMAP_SIZE = 2
  EXTENSION_TICKARRAY_BITMAP_SIZE = 2
SPECIFICATION Spec
INVARIANT TypeOK
PROPERTIES ImplementsIndex SearchEnds
