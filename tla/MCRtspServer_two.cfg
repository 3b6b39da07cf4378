\* Sequence numbers modulo 2: an instance that falls behind is first behind by one.
CONSTANTS
  None = None
  c1 = c1
  c2 = c2
  live = live
  group = group
  Conn = {c1, c2}
  Session = {live}
  Multicast = {}
  LiveTrack <- Track0Live
  Channel = {1}
  Port = {6000}
  Asked <- OneOfEach
  Command = {"PLAY"}
  SeqMod = 2
SPECIFICATION FairSpec
CHECK_DEADLOCK FALSE
INVARIANTS GrantedIsRegistered NoGap
PROPERTY PlayLeadsToMedia
