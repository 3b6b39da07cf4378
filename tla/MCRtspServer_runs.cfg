CONSTANTS
  None = None
  c1 = c1
  c2 = c2
  live = live
  group = group
  Conn = {c1}
  Session = {live, group}
  Multicast = {group}
  LiveTrack <- Track0Live
  Channel = {0, 1}
  Port = {6000}
  Asked <- Interleaved
  Command = {"OPTIONS", "DESCRIBE", "PLAY", "TEARDOWN"}
  SeqMod = 3
SPECIFICATION Spec
CHECK_DEADLOCK FALSE
INVARIANT RunsWhileClientsStay
