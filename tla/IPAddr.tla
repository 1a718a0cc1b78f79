------------------------------- MODULE IPAddr -------------------------------
(***************************************************************************)
(* The address and network values of package allowlist and the conversions *)
(* the ACLs apply to them: validIP, net.IP.String, net.ParseIP,            *)
(* IPNet.String, Contains and net.ParseCIDR.                        *)
(*                                                                         *)
(* An address is abstracted to a family (4 or 6), a byte length (4 or 16, *)
(* 0 for a nil net.IP) and a number of AddrBits bits standing for the 32   *)
(* or 128 bits of the real address.  A 16-byte address of family 4 is an  *)
(* IPv4-mapped IPv6 address, the form net.ParseIP returns for "a.b.c.d".   *)
(* A network keeps its base address unmasked, as a net.IPNet pointer built by a   *)
(* caller may; net.ParseCIDR masks it.  Texts are records, one per string  *)
(* the code can produce or parse, never spelled out character by          *)
(* character.                                                              *)
(***************************************************************************)
EXTENDS Integers, Sequences

CONSTANTS
  AddrBits,   \* bits of the abstract address space
  Nil         \* the nil net.IPNet pointer

ASSUME AddrBitsAssumption == AddrBits \in Nat \ {0}

\* The powers of two the masks use are positive naturals.
ASSUME PowAssumption == \A n \in 0 .. AddrBits : 2^n \in Nat \ {0}

Values   == 0 .. (2^AddrBits - 1)
Families == {4, 6}
Prefixes == 0 .. AddrBits

\* A net.IP: nil, a 4-byte IPv4 address or a 16-byte address.
NilIP == [len |-> 0, fam |-> 4, v |-> 0]
IPs   == [len : {4}, fam : {4}, v : Values]
           \cup [len : {16}, fam : Families, v : Values]
           \cup {NilIP}

\* A net.IPNet other than nil.
Nets == [fam : Families, v : Values, p : Prefixes]

ASSUME NilAssumption == Nil \notin Nets

\* A text is a string the code produces or parses: a CIDR or address
\* ("cidr", canonical or not), "<nil>", the empty string, or garbage.
TextKinds == {"cidr", "alt", "nil", "empty", "garbage"}
Texts     == [kind : TextKinds, fam : Families, v : Values, p : Prefixes]
MkText(kind) == [kind |-> kind, fam |-> 4, v |-> 0, p |-> 0]
NilText     == MkText("nil")
EmptyText   == MkText("empty")
GarbageText == MkText("garbage")

\* The serialised form handed to UnmarshalJSON: whether the bytes start and
\* end with '"', and the tokens strings.Split(s, ",") cuts the rest into.
Wires == [quoted : BOOLEAN, toks : Seq(Texts)]

(***************************************************************************)
(* validIP: only the byte length is checked.                               *)
(***************************************************************************)
validIP(ip) == ip.len = 4 \/ ip.len = 16

\* The address with its low AddrBits - p bits cleared.
Mask(v, p) == (v \div 2^(AddrBits - p)) * 2^(AddrBits - p)

(***************************************************************************)
(* IPNet.String: the base address as stored (not masked) and the   *)
(* prefix length; "<nil>" for a nil network.                               *)
(***************************************************************************)
NetString(n) ==
  IF n = Nil THEN NilText
  ELSE [kind |-> "cidr", fam |-> n.fam, v |-> n.v, p |-> n.p]

(***************************************************************************)
(* IPNet.Contains: To4 turns an IPv4-mapped address into 4 bytes, *)
(* so it matches IPv4 networks; then both sides are masked and compared.  *)
(* A nil network is dereferenced: the caller treats that as a panic.      *)
(***************************************************************************)
Contains(n, ip) ==
  /\ n.fam = ip.fam
  /\ Mask(n.v, n.p) = Mask(ip.v, n.p)

(***************************************************************************)
(* net.ParseCIDR: accepts a CIDR text, canonical or not, and returns the  *)
(* network with its base address masked.                                  *)
(***************************************************************************)
ParsesAsCIDR(t) == t.kind \in {"cidr", "alt"}
ParseCIDR(t) == [fam |-> t.fam, v |-> Mask(t.v, t.p), p |-> t.p]

(***************************************************************************)
(* The bytes `"` + strings.Join(ss, ",") + `"`, as UnmarshalJSON will cut *)
(* them: strings.Split of the empty string is one empty token.            *)
(***************************************************************************)
JoinQuoted(ss) ==
  [quoted |-> TRUE, toks |-> IF ss = << >> THEN << EmptyText >> ELSE ss]

\* The least element of a nonempty set of numbers.
MinOf(S) == CHOOSE i \in S : \A j \in S : i <= j

-----------------------------------------------------------------------------
(* The helpers of the ACL methods.                                         *)

\* What a call returns, as seen by its caller.
Permit == "true"
Deny == "false"
Panic == "panic"
ErrInvalid == "err"
Ok == "ok"
NoResult == "none"

(***************************************************************************)
(* The scan of Permitted: the first entry that contains ip, or that is    *)
(* nil and panics when asked.                                             *)
(***************************************************************************)
Scan(l, ip) ==
  LET hits == {i \in 1 .. Len(l) : l[i] = Nil \/ Contains(l[i], ip)}
  IN  IF hits = {} THEN Deny
      ELSE IF l[MinOf(hits)] = Nil THEN Panic ELSE Permit

\* The index of the first entry whose String() equals n.String(), or -1.
FirstIndex(l, n) ==
  LET hits == {i \in 1 .. Len(l) : NetString(l[i]) = NetString(n)}
  IN  IF hits = {} THEN -1 ELSE MinOf(hits)

\* append(l[:i], l[i+1:]...) in 1-based indexing.
RemoveAt(l, i) == SubSeq(l, 1, i - 1) \o SubSeq(l, i + 1, Len(l))

\* The list an UnmarshalJSON of the tokens toks leaves when no token fails.
Parsed(toks) ==
  [i \in 1 .. Len(toks) |-> IF toks[i] = EmptyText THEN Nil
                            ELSE ParseCIDR(toks[i])]
=============================================================================
