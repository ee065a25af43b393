------------------------------- MODULE MCVsval -------------------------------
(* Values around every boundary of the encoding, and foreign streams of up   *)
(* to four octets with every size tag.                                        *)
EXTENDS Vsval

MCValues == {0, 63, 64, 16383, 16384, VsvalMax, VsvalMax + 1}

MCForeign == SeqOf({0, 1, 2, 3, 252, 255}, 4)
=============================================================================
