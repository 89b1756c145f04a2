SPECIFICATION Spec
CONSTANTS
    r = r  s = s
    Dir = {r, s}
    NoDir = NoDir
    Parent <- MCParent
    Crawler = Crawler
    Asker = {a1}
    MaxEvents = 4
INVARIANTS MapsInStep
PROPERTY Converges
