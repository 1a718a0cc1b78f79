----------------------------- MODULE BasicProofs -----------------------------
(***************************************************************************)
(* Proof of the JSON round trip of Basic for every set of goroutines,     *)
(* addresses, inputs and bound on calls.  MarshalJSON writes the map's    *)
(* keys in an order Go leaves open, and UnmarshalJSON stores each token   *)
(* as written and skips the empty one; so a dump loads back into the      *)
(* very map it was made from provided every key of that map parses and    *)
(* none is the empty string.  Those are facts about the map, not about    *)
(* the dump: Add stores ip.String(), and UnmarshalJSON keeps its keys     *)
(* only when every one parsed.  The inductive invariant JInv carries them *)
(* for the live map and for the map every dump was read from.             *)
(***************************************************************************)
EXTENDS Basic, FiniteSetTheorems, TLAPS

\* A map UnmarshalJSON can read back: finitely many keys, each of which
\* net.ParseIP accepts (so none is the empty string).
KeysOK(S) == IsFiniteSet(S) /\ \A t \in S : ParseIP(t) # NilIP

\* Each dump loads back without error into exactly the keys it was made of.
DumpExact(d) ==
  /\ KeysOK(d.keys)
  /\ UnmarshalHosts(d.wire.toks).ok
  /\ UnmarshalHosts(d.wire.toks).keys = d.keys

JInv == KeysOK(allowlist) /\ \A d \in jdumps : DumpExact(d)

-----------------------------------------------------------------------------
(* Lemmas on the operators the model is built from.                        *)

\* ip.String() is text net.ParseIP accepts.
LEMMA StringParses ==
  ASSUME NEW ip
  PROVE  ParseIP(IPString(ip)) # NilIP
  BY DEF ParseIP, IPString, NilIP

\* The empty string does not parse.
LEMMA EmptyNotParsed == ParseIP(HostEmpty) = NilIP
  BY DEF ParseIP, HostEmpty

(***************************************************************************)
(* An order of a finite set's elements (KeyOrders, the orders a map's   *)
(* iteration can take) lists every element: it is an injection of        *)
(* 1..Cardinality(S) into S, hence onto S.                                *)
(***************************************************************************)
LEMMA KeyOrdersRange ==
  ASSUME NEW S, IsFiniteSet(S), NEW f \in KeyOrders(S)
  PROVE  /\ f \in Seq(S)
         /\ {f[i] : i \in 1 .. Len(f)} = S
  <1> DEFINE n == Cardinality(S)
  <1>0. f \in KeyOrders(S)
    OBVIOUS
  <1>1. n \in Nat
    BY FS_CardinalityType
  <1>2. f \in [1 .. n -> S] /\ IsInjective(f)
    BY <1>0 DEF KeyOrders
  <1>3. f \in Injection(1 .. n, S)
    BY <1>2 DEF Injection
  <1>4. IsFiniteSet(1 .. n) /\ Cardinality(1 .. n) = n
    BY <1>1, FS_Interval
  <1>5. f \in Surjection(1 .. n, S)
    BY <1>3, <1>4, FS_Injection
  <1>6. f \in Seq(S) /\ Len(f) = n
    BY <1>1, <1>2
  <1> QED BY <1>2, <1>5, <1>6 DEF Surjection

(***************************************************************************)
(* MarshalJSON's output loads back into the map it was made from, in any  *)
(* order of the keys and for the empty map (whose dump is `""`, one empty *)
(* token), provided every key parses.                                     *)
(***************************************************************************)
LEMMA MarshalExact ==
  ASSUME NEW S, KeysOK(S), NEW ss \in KeyOrders(S)
  PROVE  DumpExact([wire |-> JoinHosts(ss), keys |-> S])
  <1> DEFINE toks == JoinHosts(ss).toks
             given == {toks[i] : i \in 1 .. Len(toks)} \ {HostEmpty}
  <1>1. ss \in Seq(S) /\ {ss[i] : i \in 1 .. Len(ss)} = S
    BY KeyOrdersRange DEF KeysOK
  <1>2. HostEmpty \notin S
    BY EmptyNotParsed DEF KeysOK
  <1>3. given = S
    <2>1. CASE ss = << >>
      <3>1. S = {}
        BY <1>1, <2>1
      <3>2. toks = << HostEmpty >>
        BY <2>1 DEF JoinHosts
      <3> QED BY <3>1, <3>2
    <2>2. CASE ss # << >>
      <3>1. toks = ss
        BY <2>2 DEF JoinHosts
      <3> QED BY <1>1, <1>2, <3>1
    <2> QED BY <2>1, <2>2
  <1> QED BY <1>3 DEF DumpExact, UnmarshalHosts, KeysOK

\* An UnmarshalJSON that succeeds stores finitely many keys that parse.
LEMMA UnmarshalKeys ==
  ASSUME NEW toks \in Seq(HostTexts), UnmarshalHosts(toks).ok
  PROVE  KeysOK(UnmarshalHosts(toks).keys)
  <1> DEFINE all == {toks[i] : i \in 1 .. Len(toks)}
  <1>1. IsFiniteSet(1 .. Len(toks))
    BY FS_Interval
  <1>2. toks \in Surjection(1 .. Len(toks), all)
    BY DEF Surjection
  <1>3. IsFiniteSet(all)
    BY <1>1, <1>2, FS_Surjection
  <1>4. IsFiniteSet(all \ {HostEmpty})
    BY <1>3, FS_Subset
  <1> QED BY <1>4 DEF UnmarshalHosts, KeysOK

-----------------------------------------------------------------------------
(* JInv is inductive.                                                      *)

\* NewBasic's empty map, and no dump yet.
LEMMA InitJInv == Init => JInv
  BY FS_EmptySet DEF Init, JInv, KeysOK

\* Add stores ip.String(), which parses.
LEMMA AddJInv ==
  ASSUME JInv, NEW p, NEW ip, Add(p, ip)
  PROVE  JInv'
  <1>1. jdumps' = jdumps
    BY DEF Add
  <1>2. CASE allowlist' = allowlist \cup {IPString(ip)}
    <2>1. IsFiniteSet(allowlist')
      BY <1>2, FS_AddElement DEF JInv, KeysOK
    <2> QED BY <1>1, <1>2, <2>1, StringParses DEF JInv, KeysOK
  <1>3. CASE allowlist' = allowlist
    BY <1>1, <1>3 DEF JInv, KeysOK
  <1> QED BY <1>2, <1>3 DEF Add

\* Remove only deletes keys.
LEMMA RemoveJInv ==
  ASSUME JInv, NEW p, NEW ip, Remove(p, ip)
  PROVE  JInv'
  <1>1. jdumps' = jdumps /\ allowlist' \subseteq allowlist
    BY DEF Remove
  <1>2. IsFiniteSet(allowlist')
    BY <1>1, FS_Subset DEF JInv, KeysOK
  <1> QED BY <1>1, <1>2 DEF JInv, KeysOK

\* MarshalJSON adds a dump of the live map, which JInv says parses.
LEMMA MarshalJInv ==
  ASSUME JInv, NEW p, MarshalJSON(p)
  PROVE  JInv'
  <1>1. PICK ss \in KeyOrders(allowlist) :
               jdumps' = jdumps \cup {[wire |-> JoinHosts(ss), keys |-> allowlist]}
    BY DEF MarshalJSON
  <1>2. DumpExact([wire |-> JoinHosts(ss), keys |-> allowlist])
    BY MarshalExact DEF JInv
  <1>3. allowlist' = allowlist
    BY DEF MarshalJSON
  <1> QED BY <1>1, <1>2, <1>3 DEF JInv

(***************************************************************************)
(* UnmarshalJSON keeps its map only when every token parsed: an input of  *)
(* WireArgs is a sequence of texts, and an earlier dump loads back into   *)
(* the map it was read from.                                              *)
(***************************************************************************)
LEMMA UnmarshalJInv ==
  ASSUME JInv, NEW p, NEW w \in WireArgs \cup {d.wire : d \in jdumps},
         UnmarshalJSON(p, w)
  PROVE  JInv'
  <1> DEFINE r == UnmarshalHosts(w.toks)
  <1>1. jdumps' = jdumps
    BY DEF UnmarshalJSON
  <1>2. CASE allowlist' = allowlist
    BY <1>1, <1>2 DEF JInv
  <1>3. CASE allowlist' = {}
    BY <1>1, <1>3, FS_EmptySet DEF JInv, KeysOK
  <1>4. CASE r.ok /\ allowlist' = r.keys
    <2>1. CASE w \in WireArgs
      <3>1. w.toks \in Seq(HostTexts)
        BY <2>1, BasicAssumption DEF HostWires
      <3> QED BY <1>1, <1>4, <3>1, UnmarshalKeys DEF JInv
    <2>2. CASE w \in {d.wire : d \in jdumps}
      <3>1. PICK d \in jdumps : w = d.wire
        BY <2>2
      <3> QED BY <1>1, <1>4, <3>1 DEF JInv, DumpExact
    <2> QED BY <2>1, <2>2
  <1> QED BY <1>2, <1>3, <1>4 DEF UnmarshalJSON

LEMMA JInvStep == JInv /\ [Next]_vars => JInv'
  <1> SUFFICES ASSUME JInv, [Next]_vars PROVE JInv'
    OBVIOUS
  <1>1. CASE \E p \in Procs, ip \in IPArgs : Permitted(p, ip)
    BY <1>1 DEF Permitted, JInv
  <1>2. CASE \E p \in Procs, ip \in IPArgs : Add(p, ip)
    BY <1>2, AddJInv
  <1>3. CASE \E p \in Procs, ip \in IPArgs : Remove(p, ip)
    BY <1>3, RemoveJInv
  <1>4. CASE \E p \in Procs : MarshalJSON(p)
    BY <1>4, MarshalJInv
  <1>5. CASE \E p \in Procs, w \in WireArgs \cup {d.wire : d \in jdumps} :
               UnmarshalJSON(p, w)
    BY <1>5, UnmarshalJInv
  <1>6. CASE \E p \in Procs : DumpBasic(p)
    BY <1>6 DEF DumpBasic, JInv
  <1>7. CASE UNCHANGED vars
    BY <1>7 DEF vars, JInv
  <1> QED BY <1>1, <1>2, <1>3, <1>4, <1>5, <1>6, <1>7 DEF Next

(***************************************************************************)
(* The JSON round trip, for every set of goroutines, addresses and inputs *)
(* and every bound on calls: each output of Basic.MarshalJSON, in any     *)
(* order of the map's keys and for the empty map, loads back through      *)
(* Basic.UnmarshalJSON without error into a map that permits exactly what *)
(* the dumped one did.                                                    *)
(***************************************************************************)
THEOREM JSONRoundTripHolds == Spec => []JSONRoundTrip
  <1>1. Init => JInv
    BY InitJInv
  <1>2. JInv /\ [Next]_vars => JInv'
    BY JInvStep
  <1>3. JInv => JSONRoundTrip
    BY DEF JInv, DumpExact, JSONRoundTrip, SameMembership
  <1> QED BY <1>1, <1>2, <1>3, PTL DEF Spec
=============================================================================
