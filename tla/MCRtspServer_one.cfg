CONSTANTS
  None = None
  c1 = c1
  c2 = c2
  live = live
  group = group
  Conn = {c1}
  Session = {live, group}
  Multicast = {group}
  LiveTrack <- Track0Live
  Channel = {0, 1}
  Port = {6000}
  Asked <- AnySetup
  Command = {"OPTIONS", "DESCRIBE", "PLAY", "TEARDOWN", "GET_PARAMETER"}
  SeqMod = 2
SPECIFICATION Spec
CHECK_DEADLOCK FALSE
INVARIANTS TypeOK RegisteredOnce MediaOnlyAfterPlay
PROPERTY DestinationFromRequest
