SPECIFICATION Spec
CONSTANTS
  NoDir = NoDir
  Dir <- MCDir
  Under <- MCUnder
  Sorted <- MCSorted
  Root <- MCRoot
  Versioned <- MCDir
  Loaded <- MCLoaded
  MaxEvents = 2
INVARIANTS InfoAlive WatchesListen
PROPERTIES Watched DeviceHandled
