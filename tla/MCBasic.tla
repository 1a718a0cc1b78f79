------------------------------- MODULE MCBasic -------------------------------
(***************************************************************************)
(* Basic on small instances.  One IPv4 address in its 4-byte and its      *)
(* 16-byte (IPv4-mapped) forms, one IPv6 address, and the nil net.IP;     *)
(* serialised inputs with a non-canonical spelling, with garbage, and     *)
(* without quotes.                                                        *)
(***************************************************************************)
EXTENDS Basic

V4     == [len |-> 4, fam |-> 4, v |-> 1]
Mapped == [len |-> 16, fam |-> 4, v |-> 1]
V6     == [len |-> 16, fam |-> 6, v |-> 2]

MCIPArgs == {V4, Mapped, V6, NilIP}

Text(kind, fam, v) == [kind |-> kind, fam |-> fam, v |-> v]

\* "1.2.3.4" written another way; "<v6>,garbage"; no quotes.
MCWireArgs ==
  { [quoted |-> TRUE, toks |-> << Text("alt", 4, 1) >>],
    [quoted |-> TRUE, toks |-> << Text("canon", 6, 2), Text("garbage", 4, 0) >>],
    [quoted |-> FALSE, toks |-> << >>] }

\* Only the unquoted input: the list changes through Add and Remove alone.
MCWireArgsUnquoted == { [quoted |-> FALSE, toks |-> << >>] }
=============================================================================
