CONSTANTS
  Shapes <- MCShapes
  Readers = {r1, r2}
  MaxPages = 4
  SHARDS = 1
  SLOTS = 2
  WAYS = 2
  Limit = 3
  Nodes <- MCNodes
  Scenarios <- MCScenarios
SYMMETRY Symmetry
SPECIFICATION PagesSpec
INVARIANTS
  TreeIsMap
  CacheIsTransparent
  ShortcutIsSound
