-------------------------------- MODULE Core --------------------------------
(***************************************************************************)
(* xdwayland-core.c: for each interface of the core protocol its table of  *)
(* requests, each with the opcode and the number of arguments its wrapper  *)
(* passes to xdwl_send_request(), the number of handlers that its add_     *)
(* listener function copies, and its table of events.                      *)
(***************************************************************************)
EXTENDS Scanner

wl_display ==
    [requests |-> <<Rq(0, 1, "sync", <<U>>), Rq(1, 1, "get_registry", <<U>>)>>,
     listener |-> 2,
     events |-> <<Ev("error", 3, <<U, U, S>>), Ev("delete_id", 1, <<U>>)>>]
wl_registry ==
    [requests |-> <<Rq(0, 4, "bind", <<U, S, U, U>>)>>,
     listener |-> 2,
     events |-> <<Ev("global", 3, <<U, S, U>>), Ev("global_remove", 1, <<U>>)>>]
wl_callback ==
    [requests |-> <<>>,
     listener |-> 1,
     events |-> <<Ev("done", 1, <<U>>)>>]
wl_compositor ==
    [requests |-> <<Rq(0, 1, "create_surface", <<U>>),
                    Rq(1, 1, "create_region", <<U>>)>>,
     listener |-> 0,
     events |-> <<>>]
wl_shm_pool ==
    [requests |-> <<Rq(0, 6, "create_buffer", <<U, I, I, I, I, U>>),
                    Rq(1, 0, "destroy", <<>>), Rq(2, 1, "resize", <<I>>)>>,
     listener |-> 0,
     events |-> <<>>]
wl_shm ==
    [requests |-> <<Rq(0, 3, "create_pool", <<U, H, I>>),
                    Rq(1, 0, "release", <<>>)>>,
     listener |-> 1,
     events |-> <<Ev("format", 1, <<U>>)>>]
wl_buffer ==
    [requests |-> <<Rq(0, 0, "destroy", <<>>)>>,
     listener |-> 1,
     events |-> <<Ev("release", 0, <<>>)>>]
wl_data_offer ==
    [requests |-> <<Rq(0, 2, "accept", <<U, S>>),
                    Rq(1, 2, "receive", <<S, H>>), Rq(2, 0, "destroy", <<>>),
                    Rq(3, 0, "finish", <<>>), Rq(4, 2, "set_actions", <<U, U>>)>>,
     listener |-> 3,
     events |-> <<Ev("offer", 1, <<S>>), Ev("source_actions", 1, <<U>>),
                  Ev("action", 1, <<U>>)>>]
wl_data_source ==
    [requests |-> <<Rq(0, 1, "offer", <<S>>), Rq(1, 0, "destroy", <<>>),
                    Rq(2, 1, "set_actions", <<U>>)>>,
     listener |-> 6,
     events |-> <<Ev("target", 1, <<S>>), Ev("send", 2, <<S, H>>),
                  Ev("cancelled", 0, <<>>), Ev("dnd_drop_performed", 0, <<>>),
                  Ev("dnd_finished", 0, <<>>), Ev("action", 1, <<U>>)>>]
wl_data_device ==
    [requests |-> <<Rq(0, 4, "start_drag", <<U, U, U, U>>),
                    Rq(1, 2, "set_selection", <<U, U>>),
                    Rq(2, 0, "release", <<>>)>>,
     listener |-> 6,
     events |-> <<Ev("data_offer", 1, <<U>>),
                  Ev("enter", 5, <<U, U, F, F, U>>), Ev("leave", 0, <<>>),
                  Ev("motion", 3, <<U, F, F>>), Ev("drop", 0, <<>>),
                  Ev("selection", 1, <<U>>)>>]
wl_data_device_manager ==
    [requests |-> <<Rq(0, 1, "create_data_source", <<U>>),
                    Rq(1, 2, "get_data_device", <<U, U>>)>>,
     listener |-> 0,
     events |-> <<>>]
wl_shell ==
    [requests |-> <<Rq(0, 2, "get_shell_surface", <<U, U>>)>>,
     listener |-> 0,
     events |-> <<>>]
wl_shell_surface ==
    [requests |-> <<Rq(0, 1, "pong", <<U>>), Rq(1, 2, "move", <<U, U>>),
                    Rq(2, 3, "resize", <<U, U, U>>),
                    Rq(3, 0, "set_toplevel", <<>>),
                    Rq(4, 4, "set_transient", <<U, I, I, U>>),
                    Rq(5, 3, "set_fullscreen", <<U, U, U>>),
                    Rq(6, 6, "set_popup", <<U, U, U, I, I, U>>),
                    Rq(7, 1, "set_maximized", <<U>>),
                    Rq(8, 1, "set_title", <<S>>), Rq(9, 1, "set_class", <<S>>)>>,
     listener |-> 3,
     events |-> <<Ev("ping", 1, <<U>>), Ev("configure", 3, <<U, I, I>>),
                  Ev("popup_done", 0, <<>>)>>]
wl_surface ==
    [requests |-> <<Rq(0, 0, "destroy", <<>>), Rq(1, 3, "attach", <<U, I, I>>),
                    Rq(2, 4, "damage", <<I, I, I, I>>),
                    Rq(3, 1, "frame", <<U>>),
                    Rq(4, 1, "set_opaque_region", <<U>>),
                    Rq(5, 1, "set_input_region", <<U>>),
                    Rq(6, 0, "commit", <<>>),
                    Rq(7, 1, "set_buffer_transform", <<I>>),
                    Rq(8, 1, "set_buffer_scale", <<I>>),
                    Rq(9, 4, "damage_buffer", <<I, I, I, I>>),
                    Rq(10, 2, "offset", <<I, I>>)>>,
     listener |-> 4,
     events |-> <<Ev("enter", 1, <<U>>), Ev("leave", 1, <<U>>),
                  Ev("preferred_buffer_scale", 1, <<I>>),
                  Ev("preferred_buffer_transform", 1, <<U>>)>>]
wl_seat ==
    [requests |-> <<Rq(0, 1, "get_pointer", <<U>>),
                    Rq(1, 1, "get_keyboard", <<U>>),
                    Rq(2, 1, "get_touch", <<U>>), Rq(3, 0, "release", <<>>)>>,
     listener |-> 2,
     events |-> <<Ev("capabilities", 1, <<U>>), Ev("name", 1, <<S>>)>>]
wl_pointer ==
    [requests |-> <<Rq(0, 4, "set_cursor", <<U, U, I, I>>),
                    Rq(1, 0, "release", <<>>)>>,
     listener |-> 11,
     events |-> <<Ev("enter", 4, <<U, U, F, F>>), Ev("leave", 2, <<U, U>>),
                  Ev("motion", 3, <<U, F, F>>),
                  Ev("button", 4, <<U, U, U, U>>), Ev("axis", 3, <<U, U, F>>),
                  Ev("frame", 0, <<>>), Ev("axis_source", 1, <<U>>),
                  Ev("axis_stop", 2, <<U, U>>),
                  Ev("axis_discrete", 2, <<U, I>>),
                  Ev("axis_value120", 2, <<U, I>>),
                  Ev("axis_relative_direction", 2, <<U, U>>)>>]
wl_keyboard ==
    [requests |-> <<Rq(0, 0, "release", <<>>)>>,
     listener |-> 6,
     events |-> <<Ev("keymap", 3, <<U, H, U>>), Ev("enter", 3, <<U, U>>),
                  Ev("leave", 2, <<U, U>>), Ev("key", 4, <<U, U, U, U>>),
                  Ev("modifiers", 5, <<U, U, U, U, U>>),
                  Ev("repeat_info", 2, <<I, I>>)>>]
wl_touch ==
    [requests |-> <<Rq(0, 0, "release", <<>>)>>,
     listener |-> 7,
     events |-> <<Ev("down", 6, <<U, U, U, I, F, F>>),
                  Ev("up", 3, <<U, U, I>>), Ev("motion", 4, <<U, I, F, F>>),
                  Ev("frame", 0, <<>>), Ev("cancel", 0, <<>>),
                  Ev("shape", 3, <<I, F, F>>), Ev("orientation", 2, <<I, F>>)>>]
wl_output ==
    [requests |-> <<Rq(0, 0, "release", <<>>)>>,
     listener |-> 6,
     events |-> <<Ev("geometry", 8, <<I, I, I, I, I, S, S, I>>),
                  Ev("mode", 4, <<U, I, I, I>>), Ev("done", 0, <<>>),
                  Ev("scale", 1, <<I>>), Ev("name", 1, <<S>>),
                  Ev("description", 1, <<S>>)>>]
wl_region ==
    [requests |-> <<Rq(0, 0, "destroy", <<>>), Rq(1, 4, "add", <<I, I, I, I>>),
                    Rq(2, 4, "subtract", <<I, I, I, I>>)>>,
     listener |-> 0,
     events |-> <<>>]
wl_subcompositor ==
    [requests |-> <<Rq(0, 0, "destroy", <<>>),
                    Rq(1, 3, "get_subsurface", <<U, U, U>>)>>,
     listener |-> 0,
     events |-> <<>>]
wl_subsurface ==
    [requests |-> <<Rq(0, 0, "destroy", <<>>),
                    Rq(1, 2, "set_position", <<I, I>>),
                    Rq(2, 1, "place_above", <<U>>),
                    Rq(3, 1, "place_below", <<U>>), Rq(4, 0, "set_sync", <<>>),
                    Rq(5, 0, "set_desync", <<>>)>>,
     listener |-> 0,
     events |-> <<>>]
wl_fixes ==
    [requests |-> <<Rq(0, 0, "destroy", <<>>),
                    Rq(1, 1, "destroy_registry", <<U>>)>>,
     listener |-> 0,
     events |-> <<>>]

\* The linker gathers the interfaces in the section xdwl_interfaces.
CoreTables ==
   [wl_display |-> wl_display, wl_registry |-> wl_registry,
    wl_callback |-> wl_callback, wl_compositor |-> wl_compositor,
    wl_shm_pool |-> wl_shm_pool, wl_shm |-> wl_shm, wl_buffer |-> wl_buffer,
    wl_data_offer |-> wl_data_offer, wl_data_source |-> wl_data_source,
    wl_data_device |-> wl_data_device,
    wl_data_device_manager |-> wl_data_device_manager, wl_shell |-> wl_shell,
    wl_shell_surface |-> wl_shell_surface, wl_surface |-> wl_surface,
    wl_seat |-> wl_seat, wl_pointer |-> wl_pointer,
    wl_keyboard |-> wl_keyboard, wl_touch |-> wl_touch,
    wl_output |-> wl_output, wl_region |-> wl_region,
    wl_subcompositor |-> wl_subcompositor, wl_subsurface |-> wl_subsurface,
    wl_fixes |-> wl_fixes]
=============================================================================
