SPECIFICATION ProcessSpec
CONSTANTS
  Client = {c1, c2}
  Conn = {k1, k2}
  NoConn = NoConn
  MaxMishaps = 2
INVARIANTS ClearedUnread CrashesOnce
PROPERTIES CallReturns Answered
