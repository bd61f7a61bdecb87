------------------------------- MODULE MCWire -------------------------------
(* Every request and every event on its own, with strings of each length   *)
(* modulo four, and streams of events that the buffer cuts everywhere.     *)
EXTENDS Wire

MCSeveral == {<<"wl_callback", 1>>, <<"wl_output", 5>>, <<"wl_registry", 1>>,
              <<"zwlr_layer_surface_v1", 1>>}
=============================================================================
