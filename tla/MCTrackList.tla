----------------------------- MODULE MCTrackList -----------------------------
(* Small instances of TrackList for TLC: up to four connections on a track.  *)
EXTENDS TrackList

CONSTANTS n1, n2, n3, n4
=============================================================================
