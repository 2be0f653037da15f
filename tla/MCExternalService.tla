---- MODULE MCExternalService ----
(* Two clients, and datagrams on both sides of the limits processPacket checks.  The lengths  *)
(* keep the order of 4 (magic), 76 (CAN FD), 152 (header), 4096 (read) and 64000 (data) bytes. *)
EXTENDS ExternalService

Datagram(magic, length, size, command) ==
    [magic |-> magic, length |-> length, data_size |-> size, command |-> command]

MCDatagrams ==
    {Datagram("v1.00", 4, 1, "keep-alive"),      \* whole
     Datagram("v1.00", 6, 3, "keep-alive"),      \* whole, longer than a read can hold
     Datagram("v1.00", 5, 2, "canbus data"),     \* whole, and as long as a read can hold
     Datagram("canf", 2, 0, "canbus data"),      \* a frame
     Datagram("canf", 1, 0, "canbus data")}      \* less than a frame
====
