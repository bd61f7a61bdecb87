---------------------------- MODULE CoreHeader ----------------------------
(***************************************************************************)
(* xdwayland-core.h, what the bindings promise to their users: for each    *)
(* interface the handlers that a listener has, in the order of the         *)
(* structure, and the functions that send its requests, in the order of    *)
(* the protocol, with the C types of their parameters as letters.          *)
(***************************************************************************)
EXTENDS Scanner

xdwl_display_event_handlers ==
    <<"error", "delete_id">>
xdwl_display_functions ==
    <<Fn("sync", <<U>>), Fn("get_registry", <<U>>)>>
xdwl_registry_event_handlers ==
    <<"global", "global_remove">>
xdwl_registry_functions ==
    <<Fn("bind", <<U, S, U, U>>)>>
xdwl_callback_event_handlers ==
    <<"done">>
xdwl_compositor_functions ==
    <<Fn("create_surface", <<U>>), Fn("create_region", <<U>>)>>
xdwl_shm_pool_functions ==
    <<Fn("create_buffer", <<U, I, I, I, I, U>>), Fn("destroy", <<>>),
      Fn("resize", <<I>>)>>
xdwl_shm_event_handlers ==
    <<"format">>
xdwl_shm_functions ==
    <<Fn("create_pool", <<U, H, I>>), Fn("release", <<>>)>>
xdwl_buffer_event_handlers ==
    <<"release">>
xdwl_buffer_functions ==
    <<Fn("destroy", <<>>)>>
xdwl_data_offer_event_handlers ==
    <<"offer", "source_actions", "action">>
xdwl_data_offer_functions ==
    <<Fn("accept", <<U, S>>), Fn("receive", <<S, H>>), Fn("destroy", <<>>),
      Fn("finish", <<>>), Fn("set_actions", <<U, U>>)>>
xdwl_data_source_event_handlers ==
    <<"target", "send", "cancelled", "dnd_drop_performed", "dnd_finished",
      "action">>
xdwl_data_source_functions ==
    <<Fn("offer", <<S>>), Fn("destroy", <<>>), Fn("set_actions", <<U>>)>>
xdwl_data_device_event_handlers ==
    <<"data_offer", "enter", "leave", "motion", "drop", "selection">>
xdwl_data_device_functions ==
    <<Fn("start_drag", <<U, U, U, U>>), Fn("set_selection", <<U, U>>),
      Fn("release", <<>>)>>
xdwl_data_device_manager_functions ==
    <<Fn("create_data_source", <<U>>), Fn("get_data_device", <<U, U>>)>>
xdwl_shell_functions ==
    <<Fn("get_shell_surface", <<U, U>>)>>
xdwl_shell_surface_event_handlers ==
    <<"ping", "configure", "popup_done">>
xdwl_shell_surface_functions ==
    <<Fn("pong", <<U>>), Fn("move", <<U, U>>), Fn("resize", <<U, U, U>>),
      Fn("set_toplevel", <<>>), Fn("set_transient", <<U, I, I, U>>),
      Fn("set_fullscreen", <<U, U, U>>), Fn("set_popup", <<U, U, U, I, I, U>>),
      Fn("set_maximized", <<U>>), Fn("set_title", <<S>>),
      Fn("set_class", <<S>>)>>
xdwl_surface_event_handlers ==
    <<"enter", "leave", "preferred_buffer_scale", "preferred_buffer_transform">>
xdwl_surface_functions ==
    <<Fn("destroy", <<>>), Fn("attach", <<U, I, I>>),
      Fn("damage", <<I, I, I, I>>), Fn("frame", <<U>>),
      Fn("set_opaque_region", <<U>>), Fn("set_input_region", <<U>>),
      Fn("commit", <<>>), Fn("set_buffer_transform", <<I>>),
      Fn("set_buffer_scale", <<I>>), Fn("damage_buffer", <<I, I, I, I>>),
      Fn("offset", <<I, I>>)>>
xdwl_seat_event_handlers ==
    <<"capabilities", "name">>
xdwl_seat_functions ==
    <<Fn("get_pointer", <<U>>), Fn("get_keyboard", <<U>>),
      Fn("get_touch", <<U>>), Fn("release", <<>>)>>
xdwl_pointer_event_handlers ==
    <<"enter", "leave", "motion", "button", "axis", "frame", "axis_source",
      "axis_stop", "axis_discrete", "axis_value120", "axis_relative_direction">>
xdwl_pointer_functions ==
    <<Fn("set_cursor", <<U, U, I, I>>), Fn("release", <<>>)>>
xdwl_keyboard_event_handlers ==
    <<"keymap", "enter", "leave", "key", "modifiers", "repeat_info">>
xdwl_keyboard_functions ==
    <<Fn("release", <<>>)>>
xdwl_touch_event_handlers ==
    <<"down", "up", "motion", "frame", "cancel", "shape", "orientation">>
xdwl_touch_functions ==
    <<Fn("release", <<>>)>>
xdwl_output_event_handlers ==
    <<"geometry", "mode", "done", "scale", "name", "description">>
xdwl_output_functions ==
    <<Fn("release", <<>>)>>
xdwl_region_functions ==
    <<Fn("destroy", <<>>), Fn("add", <<I, I, I, I>>),
      Fn("subtract", <<I, I, I, I>>)>>
xdwl_subcompositor_functions ==
    <<Fn("destroy", <<>>), Fn("get_subsurface", <<U, U, U>>)>>
xdwl_subsurface_functions ==
    <<Fn("destroy", <<>>), Fn("set_position", <<I, I>>),
      Fn("place_above", <<U>>), Fn("place_below", <<U>>), Fn("set_sync", <<>>),
      Fn("set_desync", <<>>)>>
xdwl_fixes_functions ==
    <<Fn("destroy", <<>>), Fn("destroy_registry", <<U>>)>>

CoreHandlers ==
   [wl_display |-> xdwl_display_event_handlers,
    wl_registry |-> xdwl_registry_event_handlers,
    wl_callback |-> xdwl_callback_event_handlers,
    wl_shm |-> xdwl_shm_event_handlers,
    wl_buffer |-> xdwl_buffer_event_handlers,
    wl_data_offer |-> xdwl_data_offer_event_handlers,
    wl_data_source |-> xdwl_data_source_event_handlers,
    wl_data_device |-> xdwl_data_device_event_handlers,
    wl_shell_surface |-> xdwl_shell_surface_event_handlers,
    wl_surface |-> xdwl_surface_event_handlers,
    wl_seat |-> xdwl_seat_event_handlers,
    wl_pointer |-> xdwl_pointer_event_handlers,
    wl_keyboard |-> xdwl_keyboard_event_handlers,
    wl_touch |-> xdwl_touch_event_handlers,
    wl_output |-> xdwl_output_event_handlers]

CoreFunctions ==
   [wl_display |-> xdwl_display_functions,
    wl_registry |-> xdwl_registry_functions,
    wl_compositor |-> xdwl_compositor_functions,
    wl_shm_pool |-> xdwl_shm_pool_functions, wl_shm |-> xdwl_shm_functions,
    wl_buffer |-> xdwl_buffer_functions,
    wl_data_offer |-> xdwl_data_offer_functions,
    wl_data_source |-> xdwl_data_source_functions,
    wl_data_device |-> xdwl_data_device_functions,
    wl_data_device_manager |-> xdwl_data_device_manager_functions,
    wl_shell |-> xdwl_shell_functions,
    wl_shell_surface |-> xdwl_shell_surface_functions,
    wl_surface |-> xdwl_surface_functions, wl_seat |-> xdwl_seat_functions,
    wl_pointer |-> xdwl_pointer_functions,
    wl_keyboard |-> xdwl_keyboard_functions,
    wl_touch |-> xdwl_touch_functions, wl_output |-> xdwl_output_functions,
    wl_region |-> xdwl_region_functions,
    wl_subcompositor |-> xdwl_subcompositor_functions,
    wl_subsurface |-> xdwl_subsurface_functions,
    wl_fixes |-> xdwl_fixes_functions]
=============================================================================
