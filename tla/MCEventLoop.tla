---------------------------- MODULE MCEventLoop ----------------------------
(* Three globals, announced in any order and at any time: an output, whose  *)
(* layer surface needs the compositor and whose wallpaper may be saved, and *)
(* one that is only bound.  The ids suffice for every roundtrip that the    *)
(* handlers can nest.                                                       *)
EXTENDS EventLoop

CONSTANTS compositor, output, late

MCHandlers == [g \in Globals |-> IF g = output THEN <<"object", "layer", "draw">>
                                 ELSE <<"object">>]

\* A compositor that is ahead of the daemon and one that is not, each with a
\* buffer that holds all it sends and one that holds two events.
MCPaces ==
    {[cap |-> 100, together |-> TRUE,  sends |-> 2, draws |-> 0, goes |-> FALSE],
     [cap |-> 2,   together |-> TRUE,  sends |-> 1, draws |-> 1, goes |-> TRUE],
     [cap |-> 100, together |-> FALSE, sends |-> 0, draws |-> 1, goes |-> FALSE],
     [cap |-> 2,   together |-> FALSE, sends |-> 1, draws |-> 0, goes |-> FALSE]}

MCSlow == {[cap |-> 100, together |-> FALSE, sends |-> 0, draws |-> 0, goes |-> FALSE]}
=============================================================================
