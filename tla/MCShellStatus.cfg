SPECIFICATION Spec
CONSTANTS
    Path = {p1, p2}
    NoPath = NoPath
    Client = {c1, c2}
    Viewer = c1
    Item = p1
    MaxEvents = 2
CHECK_DEADLOCK FALSE
PROPERTY Displayed
