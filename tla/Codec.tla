------------------------------- MODULE Codec -------------------------------
(***************************************************************************)
(* The messages between xdwlw and xdwlwd as they lie in the 512 bytes of a *)
(* buffer (xdwlw-ipc.c).  A buffer is what was written at each offset and  *)
(* the offset behind it; what is read at an offset is what was written     *)
(* there.  Of a string matter its length and which one it is.              *)
(***************************************************************************)
EXTENDS Integers

MAX_SOCK_BUFFER_SIZE == 512
ErrorMax == 1023        \* characters of ipc_message.error.msg

Str(n, which) == [len |-> n, which |-> which]

Blank == [end |-> 0, at |-> [o \in {} |-> 0]]

Write(buffer, size, value) ==
    [end |-> buffer.end + size,
     at |-> [o \in DOMAIN buffer.at \cup {buffer.end} |->
                IF o = buffer.end THEN value ELSE buffer.at[o]]]

U8(buffer, v) == Write(buffer, 1, v)
U32(buffer, v) == Write(buffer, 4, v)

\* buf_write_string(): the length counts the NUL.
String(buffer, s) == Write(Write(buffer, 2, s.len + 1), s.len + 1, s)

\* ipc_client_send()
Encode(msg) ==
    LET type == U8(Blank, msg.type)
    IN  CASE msg.type = "SET_IMAGE" -> String(U8(String(type, msg.output), msg.mode), msg.path)
          [] msg.type = "SET_COLOR" -> U32(String(type, msg.output), msg.color)
          [] OTHER -> type

\* ipc_server_send()
EncodeReply(reply) ==
    LET type == U8(Blank, reply.type)
    IN  IF reply.type = "ERR" THEN String(type, reply.msg) ELSE type

-----------------------------------------------------------------------------
Fits(buffer) == buffer.end <= MAX_SOCK_BUFFER_SIZE

ReadNumber(buffer, offset) == buffer.at[offset]

\* buf_read_string() gives what is between the offset and the next NUL.
ReadString(buffer, offset) == buffer.at[offset + 2]

\* Where it leaves the offset.
AfterString(buffer, offset) == offset + 2 + ReadNumber(buffer, offset)

\* ipc_server_listen()
Decode(buffer) ==
    LET type == ReadNumber(buffer, 0)
        next == AfterString(buffer, 1)
    IN  CASE type = "SET_IMAGE" -> [type |-> type, output |-> ReadString(buffer, 1),
                                    mode |-> ReadNumber(buffer, next),
                                    path |-> ReadString(buffer, next + 1)]
          [] type = "SET_COLOR" -> [type |-> type, output |-> ReadString(buffer, 1),
                                    color |-> ReadNumber(buffer, next)]
          [] OTHER -> [type |-> type]

\* ipc_client_recv()
DecodeReply(buffer) ==
    LET type == ReadNumber(buffer, 0)
    IN  IF type = "ERR" THEN [type |-> type, msg |-> ReadString(buffer, 1)] ELSE [type |-> type]
=============================================================================
