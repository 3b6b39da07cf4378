----------------------------- MODULE MCMediaPath -----------------------------
(* Small files for MediaPath: NALs of one to five bytes against packets of two,  *)
(* each byte of a file different.  7 is the type of a sequence parameter set.    *)
EXTENDS MediaPath

MCNal(code, bytes) == [code |-> code, bytes |-> bytes]

(* A parameter set and NALs that take one packet, fragments with an odd one  *)
(* at the end, and full fragments only.  The third and the start code after  *)
(* it just fill a buffer.                                                    *)
MCPlain == [lead |-> <<>>, nals |-> << MCNal(4, <<7>>), MCNal(3, <<11, 12>>),
                                      MCNal(4, <<21, 22, 23, 24, 25>>), MCNal(3, <<31, 32, 33, 34>>) >>]

(* The second NAL fills a buffer up to the next start code, which is half in it. *)
MCLarge == [lead |-> <<>>, nals |-> << MCNal(4, <<7>>), MCNal(4, <<41, 42, 43, 44, 45>>),
                                      MCNal(4, <<51>>) >>]

(* The last NAL fills the buffer: what follows it is not memory of the frame. *)
MCFull == [lead |-> <<>>, nals |-> << MCNal(3, <<61, 62>>), MCNal(3, <<71, 72, 73, 74, 75, 76, 77, 78, 79>>) >>]

(* A NAL that ends in a zero, which is read as part of the start code after it, *)
(* and one that is empty.                                                      *)
MCZeros == [lead |-> <<>>, nals |-> << MCNal(3, <<14, 0>>), MCNal(3, <<>>), MCNal(3, <<17>>) >>]

(* Not a H.264 file at first: one buffer that is skipped, then a NAL. *)
MCSkipped == [lead |-> <<90, 91, 92, 93, 94, 95, 96, 97, 98, 99, 100, 101>>, nals |-> << MCNal(4, <<81, 82>>) >>]

(* The last read gets one byte, a zero; with what the read before it left, *)
(* it passes for a start code.                                            *)
MCStale == [lead |-> <<90, 0, 0, 1, 94, 95, 96, 97, 98>>, nals |-> << MCNal(3, <<0>>) >>]

MCFiles == {MCPlain, MCLarge, MCFull, MCZeros, MCSkipped, MCStale}
=============================================================================
