----------------------------- MODULE MCBasicNet -----------------------------
(***************************************************************************)
(* Instances of BasicNet for TLC.  Addresses have 2 bits (4 values).  The *)
(* networks are chosen so that the code's distinctions all occur: Wide    *)
(* (0/1) contains Narrow (1/2); WideAlias (1/1) is the same range as Wide *)
(* with an unmasked base, so it String()s differently; Nil is ignored.    *)
(***************************************************************************)
EXTENDS BasicNet

Wide      == [fam |-> 4, v |-> 0, p |-> 1]
WideAlias == [fam |-> 4, v |-> 1, p |-> 1]
Narrow    == [fam |-> 4, v |-> 1, p |-> 2]
Wide6     == [fam |-> 6, v |-> 0, p |-> 1]

MCNetArgs == {Wide, WideAlias, Narrow, Nil}
MCNetArgs6 == {Wide, Narrow, Wide6, Nil}

\* net.IP{0,0,0,1}, net.ParseIP("0.0.0.3") (16 bytes), an IPv6 address, nil.
MCIPArgs == {[len |-> 4, fam |-> 4, v |-> 1],
             [len |-> 16, fam |-> 4, v |-> 3],
             [len |-> 16, fam |-> 6, v |-> 1],
             NilIP}

\* `"0.0.0.0/1,bad"`, `"0.0.0.1/1"` and the unquoted `abc`.
MCWireArgs ==
  {[quoted |-> TRUE, toks |-> << NetString(Wide), GarbageText >>],
   [quoted |-> TRUE, toks |-> << NetString(WideAlias) >>],
   [quoted |-> FALSE, toks |-> << GarbageText >>]}

\* As above, plus `"0.0.0.0/1,,0.0.0.1/2"` with an empty token in the middle.
MCWireArgsEmptyTok ==
  MCWireArgs \cup
  {[quoted |-> TRUE,
    toks |-> << NetString(Wide), EmptyText, NetString(Narrow) >>]}
=============================================================================
