-------------------------------- MODULE Basic --------------------------------
(***************************************************************************)
(* Basic (allowlist.go): the host allowlist, a map from address strings   *)
(* to true guarded by one sync.Mutex.  Every method holds the mutex for   *)
(* its whole body and nothing reads the map without it, so each call is  *)
(* one step.  What the model keeps is what the strings do: Add, Remove    *)
(* and Permitted key the map by ip.String(), the canonical text, while    *)
(* UnmarshalJSON stores each token as it was written; a failed            *)
(* UnmarshalJSON leaves a nil map, which reads as empty and panics on     *)
(* the next write; DumpBasic and LoadBasic use their own format.          *)
(***************************************************************************)
EXTENDS IPAddr, FiniteSets, Functions

SeqExt == INSTANCE SequencesExt

CONSTANTS
  Procs,        \* goroutines calling the list
  IPArgs,       \* arguments of Permitted, Add and Remove
  WireArgs,     \* inputs of UnmarshalJSON besides what MarshalJSON produced
  MaxOps        \* bound on calls of Add, Remove, UnmarshalJSON

(***************************************************************************)
(* A host text: the canonical text ip.String() of an address, another     *)
(* spelling net.ParseIP accepts ("alt": upper case hex, a zero run        *)
(* written out, an IPv4-mapped address in hex), the empty string, or      *)
(* garbage.                                                               *)
(***************************************************************************)
HostTexts == [kind : {"canon", "alt", "empty", "garbage"},
              fam : Families, v : Values]
HostEmpty == [kind |-> "empty", fam |-> 4, v |-> 0]

\* A JSON string cut as UnmarshalJSON cuts it (see Wires in IPAddr).
HostWires == [quoted : BOOLEAN, toks : Seq(HostTexts)]

ASSUME BasicAssumption == /\ IPArgs \subseteq IPs
                          /\ WireArgs \subseteq HostWires
                          /\ MaxOps \in Nat

VARIABLES
  allowlist,    \* the keys of wl.allowlist
  mapNil,       \* wl.allowlist == nil, after a failed UnmarshalJSON
  res,          \* res[p]: what the last call of p returned
  jdumps,       \* [wire, keys]: each MarshalJSON output and the map it read
  ddumps,       \* [toks, keys]: each DumpBasic output, split at "\n"
  hosts,        \* history: the addresses, byte for byte, added and not removed
  ops           \* calls made so far, bounded by MaxOps

vars == <<allowlist, mapNil, res, jdumps, ddumps, hosts, ops>>

\* Mutant: String without its To4 case, so a mapped address prints as
\* "::ffff:a.b.c.d".
IPStringNoNormalize(ip) ==
  [kind |-> IF ip.len = 16 /\ ip.fam = 4 THEN "alt" ELSE "canon", fam |-> ip.fam, v |-> ip.v]

(***************************************************************************)
(* net.IP.String: the text depends on the family and the value only, so   *)
(* a 4-byte address and its 16-byte IPv4-mapped form print the same.      *)
(***************************************************************************)
IPString(ip) == [kind |-> "canon", fam |-> ip.fam, v |-> ip.v]

\* net.ParseIP: any spelling of an address gives its 16-byte form.
ParseIP(t) ==
  IF t.kind \in {"canon", "alt"} THEN [len |-> 16, fam |-> t.fam, v |-> t.v]
  ELSE NilIP

\* The lookup of Permitted; a nil map reads as empty.
Lookup(keys, isNil, ip) == ~isNil /\ IPString(ip) \in keys

(***************************************************************************)
(* `for ip := range wl.allowlist { ss = append(ss, ip) }`: the keys in    *)
(* an order Go's map iteration leaves open, each exactly once.  (The set  *)
(* of SequencesExt's SetToSeqs, written over FiniteSets' Cardinality.)    *)
(***************************************************************************)
KeyOrders(S) == {ss \in [1 .. Cardinality(S) -> S] : IsInjective(ss)}

\* `"` + strings.Join(ss, ",") + `"`, as UnmarshalJSON will cut it.
JoinHosts(ss) == [quoted |-> TRUE, toks |-> IF ss = << >> THEN << HostEmpty >>
                                            ELSE ss]

\* Mutant: UnmarshalJSON without its "if addr == "" { continue }".
UnmarshalHostsNoSkip(toks) ==
  LET given == {toks[i] : i \in 1 .. Len(toks)}
  IN  [ok |-> \A t \in given : ParseIP(t) # NilIP, keys |-> given]

(***************************************************************************)
(* UnmarshalJSON after its quote check: the map every token went into,    *)
(* each stored as written, or a failure (the map is then nil).            *)
(***************************************************************************)
UnmarshalHosts(toks) ==
  LET given == {toks[i] : i \in 1 .. Len(toks)} \ {HostEmpty}
  IN  [ok |-> \A t \in given : ParseIP(t) # NilIP, keys |-> given]

(***************************************************************************)
(* LoadBasic: a new list, with every line parsed and added through Add    *)
(* (so stored as ip.String()), or an error at the first line that does    *)
(* not parse; the empty line is not skipped.                              *)
(***************************************************************************)
LoadBasic(toks) ==
  [ok   |-> \A i \in 1 .. Len(toks) : ParseIP(toks[i]) # NilIP,
   keys |-> {IPString(ParseIP(toks[i])) : i \in 1 .. Len(toks)}]

Init ==
  /\ allowlist = {}
  /\ mapNil = FALSE
  /\ res = [p \in Procs |-> NoResult]
  /\ jdumps = {}
  /\ ddumps = {}
  /\ hosts = {}
  /\ ops = 0

\* A call that changes the list counts against MaxOps.
Count == /\ ops < MaxOps
         /\ ops' = ops + 1

Permitted(p, ip) ==
  /\ res' = [res EXCEPT ![p] = IF validIP(ip) /\ Lookup(allowlist, mapNil, ip)
                                THEN Permit ELSE Deny]
  /\ UNCHANGED <<allowlist, mapNil, jdumps, ddumps, hosts, ops>>

\* Add: an invalid address is ignored; a write to a nil map panics.
Add(p, ip) ==
  /\ Count
  /\ \/ /\ ~validIP(ip)
        /\ UNCHANGED <<allowlist, res, hosts>>
     \/ /\ validIP(ip) /\ ~mapNil
        /\ allowlist' = allowlist \cup {IPString(ip)}
        /\ hosts' = hosts \cup {ip}
        /\ UNCHANGED res
     \/ /\ validIP(ip) /\ mapNil
        /\ res' = [res EXCEPT ![p] = Panic]
        /\ UNCHANGED <<allowlist, hosts>>
  /\ UNCHANGED <<mapNil, jdumps, ddumps>>

\* Remove: delete of an absent key, or on a nil map, does nothing.
Remove(p, ip) ==
  /\ Count
  /\ allowlist' = IF validIP(ip) THEN allowlist \ {IPString(ip)} ELSE allowlist
  /\ hosts' = hosts \ {ip}
  /\ UNCHANGED <<mapNil, res, jdumps, ddumps>>

\* MarshalJSON: the keys in the map's iteration order, joined.
MarshalJSON(p) ==
  /\ \E ss \in KeyOrders(allowlist) :
       jdumps' = jdumps \cup {[wire |-> JoinHosts(ss), keys |-> allowlist]}
  /\ res' = [res EXCEPT ![p] = Ok]
  /\ UNCHANGED <<allowlist, mapNil, ddumps, hosts, ops>>

UnmarshalJSON(p, w) ==
  LET r == UnmarshalHosts(w.toks)
  IN  /\ Count
      /\ \/ /\ ~w.quoted
            /\ res' = [res EXCEPT ![p] = ErrInvalid]
            /\ UNCHANGED <<allowlist, mapNil, hosts>>
         \/ /\ w.quoted /\ ~r.ok
            /\ allowlist' = {}
            /\ mapNil' = TRUE
            /\ hosts' = {}
            /\ res' = [res EXCEPT ![p] = ErrInvalid]
         \/ /\ w.quoted /\ r.ok
            /\ allowlist' = r.keys
            /\ mapNil' = FALSE
            /\ hosts' = {ParseIP(t) : t \in r.keys}
            /\ res' = [res EXCEPT ![p] = Ok]
      /\ UNCHANGED <<jdumps, ddumps>>

(***************************************************************************)
(* DumpBasic: the keys sorted and joined with "\n".  The abstract texts   *)
(* have no lexicographic order and LoadBasic does not depend on it, so    *)
(* one fixed order stands for sort.Strings; an empty map joins to "",     *)
(* which splits back into one empty line.                                 *)
(***************************************************************************)
DumpBasic(p) ==
  LET addrs == SeqExt!SetToSeq(allowlist)
  IN  /\ ddumps' = ddumps \cup
                     {[toks |-> IF addrs = << >> THEN << HostEmpty >> ELSE addrs,
                       keys |-> allowlist]}
      /\ res' = [res EXCEPT ![p] = Ok]
      /\ UNCHANGED <<allowlist, mapNil, jdumps, hosts, ops>>

Next ==
  \E p \in Procs :
    \/ \E ip \in IPArgs : Permitted(p, ip) \/ Add(p, ip) \/ Remove(p, ip)
    \/ MarshalJSON(p)
    \/ \E w \in WireArgs \cup {d.wire : d \in jdumps} : UnmarshalJSON(p, w)
    \/ DumpBasic(p)

Spec == Init /\ [][Next]_vars

-----------------------------------------------------------------------------
(***************************************************************************)
(* Properties.                                                            *)
(***************************************************************************)

\* Every variable holds a value of its kind.
TypeOK ==
  /\ allowlist \in SUBSET HostTexts
  /\ mapNil \in BOOLEAN
  /\ res \in [Procs -> {Permit, Deny, Panic, ErrInvalid, Ok, NoResult}]
  /\ jdumps \subseteq [wire : HostWires, keys : SUBSET HostTexts]
  /\ ddumps \subseteq [toks : Seq(HostTexts), keys : SUBSET HostTexts]
  /\ hosts \subseteq IPs
  /\ ops \in 0 .. MaxOps

\* Two maps answer Permitted alike for every valid address tried.
SameMembership(k1, k2) ==
  \A ip \in IPArgs : validIP(ip) => (Lookup(k1, FALSE, ip) <=> Lookup(k2, FALSE, ip))

(***************************************************************************)
(* The JSON round trip (MarshalJSON, then UnmarshalJSON of its output):   *)
(* every dump MarshalJSON made, whatever the map's iteration order and    *)
(* whatever the map held, the empty and the nil map included, loads back *)
(* without error into a map that permits exactly what the dumped one did. *)
(***************************************************************************)
JSONRoundTrip ==
  \A d \in jdumps :
    /\ UnmarshalHosts(d.wire.toks).ok
    /\ SameMembership(UnmarshalHosts(d.wire.toks).keys, d.keys)

(***************************************************************************)
(* The dump round trip the spec promises for DumpBasic and LoadBasic:     *)
(* LoadBasic of every DumpBasic output succeeds and permits exactly what  *)
(* the dumped list did.                                                   *)
(***************************************************************************)
DumpLoadRoundTrip ==
  \A d \in ddumps :
    /\ LoadBasic(d.toks).ok
    /\ SameMembership(LoadBasic(d.toks).keys, d.keys)

(***************************************************************************)
(* The host list is a set of canonical strings: every host the map holds, *)
(* however it got there (Add or UnmarshalJSON), is permitted when its     *)
(* address is presented to Permitted.                                     *)
(***************************************************************************)
StoredHostsPermitted ==
  \A t \in allowlist : Lookup(allowlist, mapNil, ParseIP(t))

(***************************************************************************)
(* The spec's host list keeps an IPv4 address and its IPv6-mapped form    *)
(* apart: Permitted is true of exactly the valid addresses added, byte    *)
(* for byte, and not removed since.                                       *)
(***************************************************************************)
SpecMembership ==
  ~mapNil =>
    \A ip \in IPArgs : validIP(ip) => (Lookup(allowlist, mapNil, ip) <=> ip \in hosts)
=============================================================================
