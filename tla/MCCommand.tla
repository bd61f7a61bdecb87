----------------------------- MODULE MCCommand -----------------------------
(* Names on both sides of every limit; pictures that cover an output of     *)
(* 64 x 48, that rounding leaves a column or a row short of it, and larger  *)
(* or narrower ones.                                                        *)
EXTENDS Command

Image(n, kind, w, h) == [name |-> Str(n, <<"file", n>>), kind |-> kind, w |-> w, h |-> h]

MCImages == {Image(20, "picture", 41, 41), Image(21, "picture", 100, 60),
             Image(22, "picture", 32, 48),
             Image(24, "refused", 1, 1), Image(493, "text", 1, 1),
             Image(494, "text", 1, 1), Image(501, "picture", 47, 61),
             Image(502, "picture", 1, 1)}
MCOutputs == {Str(4, <<"DP-1">>), Str(64, <<"other">>), Str(65, <<"long">>)}
MCMonitor == [name |-> Str(4, <<"DP-1">>), w |-> 64, h |-> 48]
MCUninitialised == {Empty, Str(6, <<"junk">>)}
MCColors == {255, -1}
=============================================================================
