----------------------------- MODULE MCRtspInput -----------------------------
(* Short streams for RtspInput: requests alone, and frames between requests. *)
EXTENDS RtspInput

MCMessage(method)  == [method |-> method, size |-> 0]
MCFrame(size)      == [method |-> "frame", size |-> size]

MCByte == [kind : {"line", "cr", "lf", "cseq", "transport", "session",
                   "$", "channel", "high", "low", "data"}, of : Nat]

MCStreams == {
    << MCMessage("OPTIONS"), MCMessage("PLAY") >>,
    << MCMessage("SETUP"), MCFrame(2), MCFrame(1) >>,
    << MCMessage("SETUP"), MCFrame(0), MCMessage("OPTIONS") >> }
=============================================================================
