---------------------------- MODULE MCRtspServer ----------------------------
(* Small instances of RtspServer for TLC. *)
EXTENDS RtspServer

CONSTANTS c1, c2, live, group

\* Session live has a sink on track 0 only, as in test/rtspserver_test.cpp.
Track0Live == {<<live, 0>>}

\* Every SETUP request, and those of two clients that meet on one track.
AnySetup == [c \in Conn |-> SetupRequest]
LiveSetup(kind, val) == [s : {live}, t : {0}, tr : [kind : {kind}, val : val]]
Interleaved == [c \in Conn |-> LiveSetup("tcp", Channel)]
OneOfEach ==
  [c \in Conn |-> IF c = c1 THEN LiveSetup("udp", Port)
                            ELSE LiveSetup("tcp", Channel)]
=============================================================================
