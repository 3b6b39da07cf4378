\* Seven descriptors, or five: with seven two clients have their sockets at once and
\* draw the same port, with five there are too few for them, or for one beside the
\* multicast sockets of a track.  The RTCP port of 12 is taken by another program.
\* Two SETUPs, three DESCRIBEs, or one of each.
CONSTANTS
  None = None
  Garbled = Garbled
  c1 = c1
  c2 = c2
  Client = {c1, c2}
  Fd = {3, 4, 5, 6, 7, 8, 9}
  Rest = {{}, {3, 4}}
  RtpPort = {10, 12}
  Foreign = {13}
  MaxTries = 2
  MaxTrack = 1
  MaxAsked = 6
SPECIFICATION FairSpec
CONSTRAINT C1First
\* Every client may be quiet, and the process may end.
CHECK_DEADLOCK FALSE
INVARIANTS DescriptorsAccounted AnnouncedPortsAreBound  DescriptionsAgree
PROPERTY RequestEnds
