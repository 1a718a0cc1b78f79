--------------------------- MODULE MCExampleServer ---------------------------
(***************************************************************************)
(* The example server on a small instance.  127.0.0.1 and ::1 are the     *)
(* value 1 of their families; 10.0.0.2 is the IPv4 value 2, a client that *)
(* is on neither list at first.  The requests: an admin adds 10.0.0.2,    *)
(* 10.0.0.2 itself tries to delete 127.0.0.1 and fetches a file, ::1      *)
(* (spelled another way) deletes 10.0.0.2 (spelled another way) and       *)
(* dumps the list, an admin adds garbage, and two file requests whose     *)
(* RemoteAddr has no port or a host that does not parse.                  *)
(***************************************************************************)
EXTENDS ExampleServer

Text(kind, fam, v) == [kind |-> kind, fam |-> fam, v |-> v]

Req(route, host, port, form) ==
  [route |-> route, host |-> host, port |-> port, form |-> form]

Local4 == Text("canon", 4, 1)
Client == Text("canon", 4, 2)
Junk   == Text("garbage", 4, 0)

MCRequests ==
  { Req("add",   Local4,             TRUE,  Client),
    Req("del",   Client,             TRUE,  Local4),
    Req("files", Client,             TRUE,  HostEmpty),
    Req("del",   Text("alt", 6, 1),  TRUE,  Text("alt", 4, 2)),
    Req("dump",  Text("canon", 6, 1), TRUE, HostEmpty),
    Req("add",   Local4,             TRUE,  Junk),
    Req("files", Local4,             FALSE, HostEmpty),
    Req("files", Junk,               TRUE,  HostEmpty) }
=============================================================================
