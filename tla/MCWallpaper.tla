---------------------------- MODULE MCWallpaper ----------------------------
(* Two outputs; users ask for every setting on every set of outputs.       *)
EXTENDS Wallpaper

EveryRequest == AllRequests
=============================================================================
