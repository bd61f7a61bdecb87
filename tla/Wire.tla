------------------------------- MODULE Wire -------------------------------
(***************************************************************************)
(* What libxdwayland puts on its connection to the compositor and makes of *)
(* what comes back: a request is marshalled by the signature in the table  *)
(* of its interface, a read takes at most a buffer's worth of the stream   *)
(* of events, which is cut into messages, unmarshalled and dispatched to   *)
(* the slot of a listener.                                                 *)
(*                                                                         *)
(* The stream is a sequence of words of four bytes; of a word it is kept   *)
(* which word of which argument of which message it is.  Of a string only  *)
(* the length matters.  The compositor (external) follows the protocol.    *)
(***************************************************************************)
EXTENDS Core, CoreHeader, FiniteSets

CONSTANTS Lengths,      \* lengths of strings
          BufWords,     \* words a read takes: CAP / 4 = 1024 in the code
          MaxEvents,    \* bound: events the compositor sends
          Several,      \* events, as <<interface, opcode>>, that it sends more
                        \* than one of
          Newer         \* the compositor may know a newer version of an
                        \* interface, with an event more

\* The xdwl_interfaces section of xdwlwd, with the headers' view of it.
Interfaces == CoreTables @@ [zwlr_layer_shell_v1 |-> Tables(zwlr_layer_shell_v1),
                             zwlr_layer_surface_v1 |-> Tables(zwlr_layer_surface_v1)]
Slots == CoreHandlers @@ [zwlr_layer_surface_v1 |-> Handlers(zwlr_layer_surface_v1)]
API == CoreFunctions @@ [zwlr_layer_shell_v1 |-> Functions(zwlr_layer_shell_v1),
                         zwlr_layer_surface_v1 |-> Functions(zwlr_layer_surface_v1)]

ASSUME WireAssumption ==
    /\ Lengths \subseteq Nat /\ BufWords \in Nat \ {0, 1} /\ MaxEvents \in Nat
    /\ Newer \in BOOLEAN

VARIABLES call,       \* the request sent last, or NoCall
          request,    \* its words
          sent,       \* history: the events the compositor has sent
          stream,     \* words of them on the socket
          buffer, at, \* the words of the last read, and the next to look at
          handled,    \* history: the events dispatched, with their arguments
          full,       \* history: a read has filled the buffer
          undefined   \* why nothing is known of the daemon any more, or "no"

events == <<sent, stream, buffer, at, handled, full, undefined>>
vars == <<call, request, events>>

NoCall == [iface |-> "none", fn |-> 0, len |-> 0]

\* Words: word w of argument k of message m, where argument 0 is the header.
\* A string has its length in word 0 and its bytes from word 1 on.
Word(m, k, w) == <<m, k, w>>
Float == -1                 \* a number as a C float, in the place of word 0
Fixed == -2                 \* a number in the protocol's fixed-point form
Stale == <<0, 0, 0>>        \* whatever memory holds

Letters == {I, U, F, S, H}
NoFloats == Letters \ {F}

\* The sum of what every letter of a signature adds, as the loops over one
\* add it up.
Total(size, sig) ==
    LET sum[k \in 0..Len(sig)] == IF k = 0 THEN 0 ELSE sum[k - 1] + size[sig[k]]
    IN  sum[Len(sig)]

-----------------------------------------------------------------------------
(* Requests                                                                *)

\* Mutant: the sum is rounded up before the length is added.
Padded4_NoNul(n) == 4 * ((n + 3) \div 4)

\* PADDED4(n), (n + 4) & ~3: n bytes and a NUL, up to a multiple of four.
Padded4(n) == 4 * ((n + 4) \div 4)

\* xdwl_calculate_body_size(), one argument.
BodySize(letter, n) ==
    CASE letter \in {I, U, F} -> 4
      [] letter = S -> 4 + Padded4(n + 1)
      [] OTHER -> 0

\* xdwl_write_args(), one argument.
Written(letter, k, n) ==
    CASE letter \in {I, U} -> <<Word(1, k, 0)>>
      [] letter = F -> <<Word(1, k, Float)>>
      [] letter = S -> [w \in 1..(1 + Padded4(n) \div 4) |-> Word(1, k, w - 1)]
      [] OTHER -> <<>>

\* xdwl_send_request() writes the arguments after the header and sends as many
\* bytes of its buffer as it has declared.
Marshal(sig, argc, n) ==
    LET body == FlattenSeq([k \in 1..argc |-> Written(sig[k], k, n)])
        declared == Total([letter \in Letters |-> BodySize(letter, n)], SubSeq(sig, 1, argc))
    IN  [w \in 1..(declared \div 4) |-> IF w <= Len(body) THEN body[w] ELSE Stale]

\* A wrapper of the bindings is called.  Requests and events do not meet: one
\* is looked at at a time.
Call ==
    /\ sent = <<>>
    /\ \E iface \in DOMAIN API : \E fn \in DOMAIN API[iface] : \E n \in Lengths :
          LET rq == Interfaces[iface].requests[fn]
              entry == Interfaces[iface].requests[rq.op + 1]
          IN  /\ call' = [iface |-> iface, fn |-> fn, len |-> n]
              /\ request' = Marshal(entry.sig, rq.argc, n)
    /\ UNCHANGED events

-----------------------------------------------------------------------------
(* Events                                                                  *)

\* How the protocol lays an argument out: the bytes of a string, its NUL and
\* padding follow its length.
Laid(m, letter, k, n) ==
    CASE letter \in {I, U} -> <<Word(m, k, 0)>>
      [] letter = F -> <<Word(m, k, Fixed)>>
      [] letter = S -> [w \in 1..(1 + (n + 1 + 3) \div 4) |-> Word(m, k, w - 1)]
      [] OTHER -> <<>>

Body(m, sig, n) == FlattenSeq([k \in DOMAIN sig |-> Laid(m, sig[k], k, n)])

\* Mutant: the last event is missing from the table.
Known_NotLast(iface, op) == op < Len(Interfaces[iface].events)

Known(iface, op) == op <= Len(Interfaces[iface].events)
Sig(iface, op) == IF Known(iface, op) THEN Interfaces[iface].events[op].sig ELSE <<>>

Message(m, e) ==
    <<Word(m, 0, 1), Word(m, 0, 2)>> \o Body(m, Sig(e.iface, e.op), e.len)

\* Opcodes are counted from 1.
Send ==
    /\ call = NoCall
    /\ undefined = "no"
    /\ Len(sent) < MaxEvents
    /\ \E iface \in DOMAIN Slots : \E op \in 1..(Len(Slots[iface]) + (IF Newer THEN 1 ELSE 0)) :
       \E n \in Lengths :
          LET e == [iface |-> iface, op |-> op, len |-> n] IN
          /\ sent # <<>> => \A x \in ToSet(Append(sent, e)) : <<x.iface, x.op>> \in Several
          /\ sent' = Append(sent, e)
          /\ stream' = stream \o Message(Len(sent) + 1, e)
    /\ UNCHANGED <<call, request, buffer, at, handled, full, undefined>>

IsHeader(word) == word[2] = 0 /\ word[3] = 1
Size(m) == Len(Message(m, sent[m]))

\* Mutant: the size of a message is taken for that of its body.
After_BodyOnly(m) == at + 2 + Size(m)

\* xdwl_recv_events() goes from one message to the next by the size in its
\* header.
After(m) == at + Size(m)

\* Mutant: strings are padded as their declared size is.
Advance_Declared(letter, n) ==
    CASE letter \in {I, U} -> 1
      [] letter = F -> 2
      [] letter = S -> 1 + Padded4(n + 1) \div 4
      [] OTHER -> 0

\* xdwl_read_args(), one argument: how many words it goes on by (a float is read
\* as eight bytes) and what it reads.  Of a descriptor the library has the length
\* of its control message.
Advance(letter, n) ==
    CASE letter \in {I, U} -> 1
      [] letter = F -> 2
      [] letter = S -> 1 + Padded4(n) \div 4
      [] OTHER -> 0

Argument(letter, o) ==
    LET word(p) == IF p <= Len(buffer) THEN buffer[p] ELSE Stale
    IN  CASE letter \in {I, U} -> word(o)
          [] letter = S -> word(o + 1)
          [] OTHER -> Stale

Arguments(sig, n) ==
    LET before(k) == Total([letter \in Letters |-> Advance(letter, n)], SubSeq(sig, 1, k - 1))
    IN  [k \in DOMAIN sig |-> Argument(sig[k], at + 2 + before(k))]

\* xdwl_dispatch_message(): the slot that is called and the arguments it gets.
\* "whole" is whether all of the message was in the buffer.
Dispatched(m, e) ==
    [m |-> m, slot |-> Slots[e.iface][e.op], args |-> Arguments(Sig(e.iface, e.op), e.len),
     whole |-> at + Size(m) - 1 <= Len(buffer)]

\* recvmsg() takes what there is, up to the buffer's size.
Taken == IF Len(stream) <= BufWords THEN Len(stream) ELSE BufWords

\* No header is left in the buffer: xdwl_dispatch() and xdwl_roundtrip() read.
Receive ==
    /\ undefined = "no"
    /\ at >= Len(buffer)
    /\ stream # <<>>
    /\ buffer' = SubSeq(stream, 1, Taken)
    /\ at' = 1
    /\ stream' = SubSeq(stream, Taken + 1, Len(stream))
    /\ full' = (full \/ Taken = BufWords)
    /\ UNCHANGED <<call, request, sent, handled, undefined>>

\* The next message of the buffer.  The code lists all of them before it goes
\* through the list, but what it lists are places in the buffer.  (That a handler
\* reads on its own before the next message has its turn is in EventLoop.)  An
\* event the bindings do not know is looked up behind their table.
Dispatch ==
    /\ undefined = "no"
    /\ at < Len(buffer)
    /\ IsHeader(buffer[at])
    /\ LET m == buffer[at][1]
           e == sent[m]
       IN  IF ~Known(e.iface, e.op) \/ e.op > Interfaces[e.iface].listener
           THEN undefined' = "overrun" /\ UNCHANGED <<handled, at>>
           ELSE /\ handled' = Append(handled, Dispatched(m, e))
                /\ at' = After(m)
                /\ UNCHANGED undefined
    /\ UNCHANGED <<call, request, sent, stream, buffer, full>>

\* The read before has cut a message in two.  What is left of it is taken for
\* a header: either it names no object, and all that was read is dropped, or
\* by chance it does.
DispatchRest ==
    /\ undefined = "no"
    /\ at < Len(buffer)
    /\ ~IsHeader(buffer[at])
    /\ undefined' \in {"no", "garbage"}
    /\ at' = Len(buffer) + 1
    /\ UNCHANGED <<call, request, sent, stream, buffer, handled, full>>

-----------------------------------------------------------------------------
Init ==
    /\ call = NoCall /\ request = <<>>
    /\ sent = <<>> /\ stream = <<>> /\ handled = <<>>
    /\ buffer = <<>> /\ at = 1
    /\ full = FALSE /\ undefined = "no"

Next == Call \/ Send \/ Receive \/ Dispatch \/ DispatchRest

Spec == Init /\ [][Next]_vars

-----------------------------------------------------------------------------
(* What the handlers of xdwlwd use of an event: argument and letter.       *)

OutputUses == [mode |-> {<<2, I>>, <<3, I>>}, name |-> {<<1, S>>}]
RegistryUses == [global |-> {<<1, U>>, <<2, S>>, <<3, U>>}]
DisplayUses == [error |-> {<<1, U>>, <<2, U>>, <<3, S>>}, delete_id |-> {<<1, U>>}]
LayerSurfaceUses == [configure |-> {<<1, U>>, <<2, U>>, <<3, U>>}, closed |-> {}]

Uses == [wl_output |-> OutputUses, wl_registry |-> RegistryUses,
         wl_display |-> DisplayUses, zwlr_layer_surface_v1 |-> LayerSurfaceUses]

\* The tables and the header are made of the same description, and of what
\* xdwlwd uses nothing comes after a float.  This is about the bindings alone:
\* TLC evaluates it once and for all of them.
ASSUME TablesAgree ==
    /\ \A iface \in DOMAIN Slots :
          LET table == Interfaces[iface] IN
          /\ iface \in DOMAIN Interfaces
          /\ Slots[iface] \in Seq(STRING)
          /\ table.listener = Len(Slots[iface]) /\ Len(table.events) = Len(Slots[iface])
          /\ \A op \in DOMAIN Slots[iface] :
                table.events[op].name = Slots[iface][op] /\ table.events[op].sig \in Seq(Letters)
    /\ \A iface \in DOMAIN API : \A fn \in DOMAIN API[iface] :
          LET rq == Interfaces[iface].requests[fn] IN
          /\ API[iface][fn].params \in Seq(NoFloats)
          /\ rq.argc = Len(API[iface][fn].params)
          /\ Interfaces[iface].requests[rq.op + 1].sig = API[iface][fn].params
          /\ API[iface][rq.op + 1].name = API[iface][fn].name
    /\ \A iface \in DOMAIN Uses : \A op \in DOMAIN Slots[iface] :
          Slots[iface][op] \in DOMAIN Uses[iface] =>
              LET sig == Interfaces[iface].events[op].sig IN
              /\ sig \in Seq(NoFloats)
              /\ \A use \in Uses[iface][Slots[iface][op]] :
                    use[1] \in DOMAIN sig /\ sig[use[1]] = use[2] /\ use[2] \in {I, U, S}

Right(m, letter, k) == Word(m, k, CASE letter \in {I, U} -> 0 [] letter = S -> 1)

(* The compositor reads a request as it was meant: the opcode of the       *)
(* wrapper is that of the function in the header, and every argument is    *)
(* where the protocol looks for it.  What follows them is a word of         *)
(* whatever the buffer held, for every string that leaves one byte for the *)
(* NUL in its last word: the declared size of a string and the bytes       *)
(* written for it follow different rules.                                  *)
RequestAsProtocol ==
    call # NoCall =>
        LET fn == API[call.iface][call.fn]
            expected == Body(1, fn.params, call.len)
            rq == Interfaces[call.iface].requests[call.fn]
        IN  /\ API[call.iface][rq.op + 1].name = fn.name
            /\ Len(request) >= Len(expected)
            /\ SubSeq(request, 1, Len(expected)) = expected
            /\ Len(request) - Len(expected) =
                  IF call.len % 4 = 3 THEN Cardinality({k \in DOMAIN fn.params : fn.params[k] = S})
                                      ELSE 0

(* A message that was read whole reaches the handler that the header names *)
(* for the event, and the handlers of xdwlwd find the arguments they use.  *)
ListenedIntact ==
    \A i \in DOMAIN handled :
        LET h == handled[i]
            e == sent[h.m]
        IN  /\ h.slot = Interfaces[e.iface].events[e.op].name
            /\ e.iface \in DOMAIN Uses /\ h.slot \in DOMAIN Uses[e.iface] /\ h.whole =>
                   \A use \in Uses[e.iface][h.slot] : h.args[use[1]] = Right(h.m, use[2], use[1])

(* As long as no read has filled the buffer nothing is lost: the events    *)
(* handled are those that were sent, each whole and in order, up to those  *)
(* that are still in the buffer or on the socket.  And whatever reads do   *)
(* to messages, no event is handled after a later one or twice.            *)
StreamKept ==
    /\ ~full /\ undefined = "no" =>
          /\ \A i \in DOMAIN handled : handled[i].m = i /\ handled[i].whole
          /\ SubSeq(buffer, at, Len(buffer)) \o stream =
                FlattenSeq([i \in 1..(Len(sent) - Len(handled)) |->
                               Message(Len(handled) + i, sent[Len(handled) + i])])
    /\ \A i, j \in DOMAIN handled : i < j => handled[i].m < handled[j].m

(* The daemon leaves its tables only for an event that is not in the       *)
(* protocol it was built for (globals are bound at the version the         *)
(* compositor announces), and takes rubbish for a message only after a     *)
(* read that filled the buffer.                                            *)
UndefinedExplained ==
    /\ undefined = "overrun" => \E i \in DOMAIN sent : sent[i].op > Len(Slots[sent[i].iface])
    /\ undefined = "garbage" => full
=============================================================================
