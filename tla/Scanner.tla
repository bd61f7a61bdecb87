------------------------------ MODULE Scanner ------------------------------
(***************************************************************************)
(* The generator of libxdwayland.  From the description of an interface it *)
(* makes the tables of methods that the library looks requests and events  *)
(* up in, the functions that send requests and the structure of handlers   *)
(* that a listener fills in.  The bindings of the core protocol are in the *)
(* repository (Core, CoreHeader); those of wlr-layer-shell are generated   *)
(* when xdwlwd is built, from the description below.                       *)
(***************************************************************************)
EXTENDS Integers, Sequences, SequencesExt, TLC

\* The letters of a signature.
I == "i"    \* int32_t
U == "u"    \* uint32_t
F == "f"    \* float
S == "s"    \* char *
H == "h"    \* a file descriptor

\* A wrapper passes an opcode and a number of arguments; the table has a name
\* and a signature at its place.
Rq(op, argc, name, sig) == [op |-> op, argc |-> argc, name |-> name, sig |-> sig]
Ev(name, argc, sig) == [name |-> name, argc |-> argc, sig |-> sig]
Fn(name, params) == [name |-> name, params |-> params]

\* The types of arguments that have a letter; an array has none.
Letter == [int |-> I, enum |-> I, uint |-> U, new_id |-> U, object |-> U,
           fd |-> H, fixed |-> F, string |-> S]

Signature(types) ==
    LET known == SelectSeq(types, LAMBDA t : t \in DOMAIN Letter)
    IN  [k \in DOMAIN known |-> Letter[known[k]]]

-----------------------------------------------------------------------------
\* A description is a sequence of requests and one of events, each a name and
\* the types of its arguments.
Requests(xml) ==
    [k \in DOMAIN xml.requests |->
        Rq(k - 1, Len(xml.requests[k][2]), xml.requests[k][1], Signature(xml.requests[k][2]))]

Events(xml) ==
    [k \in DOMAIN xml.events |->
        Ev(xml.events[k][1], Len(xml.events[k][2]), Signature(xml.events[k][2]))]

Tables(xml) == [requests |-> Requests(xml),
                listener |-> Len(xml.events),
                events |-> Events(xml)]

Functions(xml) ==
    [k \in DOMAIN xml.requests |-> Fn(xml.requests[k][1], Signature(xml.requests[k][2]))]

Handlers(xml) == [k \in DOMAIN xml.events |-> xml.events[k][1]]

-----------------------------------------------------------------------------
zwlr_layer_shell_v1 ==
    [requests |-> << <<"get_layer_surface", <<"new_id", "object", "object", "uint", "string">>>>,
                     <<"destroy", <<>>>> >>,
     events |-> <<>>]

zwlr_layer_surface_v1 ==
    [requests |-> << <<"set_size", <<"uint", "uint">>>>, <<"set_anchor", <<"uint">>>>,
                     <<"set_exclusive_zone", <<"int">>>>,
                     <<"set_margin", <<"int", "int", "int", "int">>>>,
                     <<"set_keyboard_interactivity", <<"uint">>>>,
                     <<"get_popup", <<"object">>>>, <<"ack_configure", <<"uint">>>>,
                     <<"destroy", <<>>>>, <<"set_layer", <<"uint">>>>,
                     <<"set_exclusive_edge", <<"uint">>>> >>,
     events |-> << <<"configure", <<"uint", "uint", "uint">>>>, <<"closed", <<>>>> >>]
=============================================================================
