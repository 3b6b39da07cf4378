---------------------------- MODULE MCServerStart ----------------------------
(* Two clients.  That they differ by name only makes it enough to look at the *)
(* behaviours in which c1 is the first to connect: every other one is one of  *)
(* these with the names exchanged, and what the properties say with them.     *)
EXTENDS ServerStart
CONSTANTS c1, c2

C1First == peer[c2] # "away" => peer[c1] # "away"
=============================================================================
