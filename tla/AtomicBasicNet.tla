--------------------------- MODULE AtomicBasicNet ---------------------------
(***************************************************************************)
(* What BasicNet promises its callers: every method runs as one atomic    *)
(* step on the list of networks, as if each held the list's mutex for the *)
(* whole call.  The step of each method is its sequential meaning in the  *)
(* code (net.go), including the outcomes a caller would not want: a nil   *)
(* entry left by UnmarshalJSON makes Permitted panic.  BasicNet, whose    *)
(* methods take several steps, is checked to implement this module.       *)
(***************************************************************************)
EXTENDS IPAddr

CONSTANTS
  Procs,        \* goroutines calling the list
  Marshallers,  \* the goroutines that call MarshalJSON
  NetArgs,      \* arguments of Add and Remove (Nil included)
  IPArgs,       \* arguments of Permitted
  WireArgs      \* inputs of UnmarshalJSON

VARIABLES
  allowlist,    \* wl.allowlist, the ordered entries
  res,          \* res[p]: what the last call of p returned

  dumps         \* outputs of MarshalJSON, which a caller may load back

Init ==
  /\ allowlist = << >>
  /\ res = [p \in Procs |-> NoResult]
  /\ dumps = {}

Permitted(p, ip) ==
  /\ res' = [res EXCEPT ![p] = IF validIP(ip) THEN Scan(allowlist, ip)
                                                ELSE Deny]
  /\ UNCHANGED <<allowlist, dumps>>

Add(p, n) ==
  /\ n # Nil
  /\ allowlist' = Append(allowlist, n)
  /\ UNCHANGED <<res, dumps>>

Remove(p, n) ==
  /\ n # Nil
  /\ FirstIndex(allowlist, n) # -1
  /\ allowlist' = RemoveAt(allowlist, FirstIndex(allowlist, n))
  /\ UNCHANGED <<res, dumps>>

MarshalJSON(p) ==
  LET w == JoinQuoted([i \in 1 .. Len(allowlist) |-> NetString(allowlist[i])])
  IN  /\ p \in Marshallers
      /\ res' = [res EXCEPT ![p] = Ok]
      /\ dumps' = dumps \cup {w}
      /\ UNCHANGED allowlist

UnmarshalJSON(p, w) ==
  LET bad == {i \in 1 .. Len(w.toks) : w.toks[i] # EmptyText
                                         /\ ~ParsesAsCIDR(w.toks[i])}
  IN  \/ /\ ~w.quoted
         /\ res' = [res EXCEPT ![p] = ErrInvalid]
         /\ UNCHANGED allowlist
      \/ /\ w.quoted
         /\ bad # {}
         /\ allowlist' = << >>
         /\ res' = [res EXCEPT ![p] = ErrInvalid]
      \/ /\ w.quoted
         /\ bad = {}
         /\ allowlist' = Parsed(w.toks)
         /\ res' = [res EXCEPT ![p] = Ok]

Next ==
  \E p \in Procs :
    \/ \E ip \in IPArgs : Permitted(p, ip)
    \/ \E n \in NetArgs : Add(p, n) \/ Remove(p, n)
    \/ MarshalJSON(p)
    \/ \E w \in WireArgs \cup dumps : UnmarshalJSON(p, w) /\ UNCHANGED dumps

Spec == Init /\ [][Next]_<<allowlist, res, dumps>>
=============================================================================
