SPECIFICATION Spec
CONSTANTS
    c1 = c1  c2 = c2  k = k  m = m  r = r  s = s
    Client = {c1, c2}
    Crawler = {k}
    Command = {m}
    NoThread = NoThread
    Path = {r, s}
    Under <- MCUnder
    MaxLookups = 2
SYMMETRY Symmetry
INVARIANTS MapRaceFree PointerSafe OnlyEvictionBlocks
CHECK_DEADLOCK FALSE
