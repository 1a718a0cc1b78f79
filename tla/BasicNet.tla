------------------------------ MODULE BasicNet ------------------------------
(***************************************************************************)
(* BasicNet (net.go): the network allowlist shared by many goroutines.    *)
(*                                                                         *)
(* Each goroutine in Procs calls one method at a time.  A method that      *)
(* takes wl.lock and only reads, or only appends, is one step: no other    *)
(* goroutine that respects the lock can see inside it, and the one reader *)
(* that does not (MarshalJSON) cannot index past len(wl.allowlist).  The  *)
(* methods whose inside another goroutine can see take one step per write *)
(* the code makes: Remove shifts the tail down one element at a time      *)
(* (append(l[:i], l[i+1:]...) copies in place) and then shortens the      *)
(* slice; UnmarshalJSON installs a slice of nil entries and fills it one  *)
(* token at a time.  MarshalJSON takes no lock at all: it fixes the range *)
(* length once (for i := range wl.allowlist) and re-reads wl.allowlist[i] *)
(* at every iteration.                                                    *)
(***************************************************************************)
EXTENDS IPAddr

CONSTANTS
  Procs,        \* goroutines calling the list
  Marshallers,  \* the goroutines that call MarshalJSON
  NetArgs,      \* arguments of Add and Remove (Nil included)
  IPArgs,       \* arguments of Permitted
  WireArgs,     \* inputs of UnmarshalJSON
  None,         \* no goroutine holds wl.lock
  MaxOps        \* bound on calls of Add, Remove, MarshalJSON, UnmarshalJSON

ASSUME ProcsAssumption == /\ None \notin Procs
                          /\ Marshallers \subseteq Procs
ASSUME ArgsAssumption == /\ NetArgs \subseteq Nets \cup {Nil}
                         /\ IPArgs \subseteq IPs
                         /\ WireArgs \subseteq Wires
ASSUME MaxOpsAssumption == MaxOps \in Nat

VARIABLES
  allowlist,    \* wl.allowlist as the goroutines see it
  lockHolder,   \* the goroutine holding wl.lock, or None
  pc,           \* pc[p]: where goroutine p is in its current call
  k,            \* k[p]: loop index of p (shift position, entry, token)
  n0,           \* n0[p]: the length MarshalJSON's range loop fixed
  out,          \* out[p]: the strings MarshalJSON has collected
  input,        \* input[p]: the bytes UnmarshalJSON is parsing
  res,          \* res[p]: what the last call of p returned
  dumps,        \* outputs of MarshalJSON, which a caller may load back
  saved,        \* history: the list an UnmarshalJSON in progress replaced
  seen,         \* history: seen[p], the lists there were during p's MarshalJSON
  ops           \* calls made so far, bounded by MaxOps

vars == <<allowlist, lockHolder, pc, k, n0, out, input, res, dumps, saved,
          seen, ops>>

Entries == Nets \cup {Nil}
Results == {Permit, Deny, Panic, ErrInvalid, Ok, NoResult}

Init ==
  /\ allowlist = << >>
  /\ lockHolder = None
  /\ pc = [p \in Procs |-> "idle"]
  /\ k = [p \in Procs |-> 0]
  /\ n0 = [p \in Procs |-> 0]
  /\ out = [p \in Procs |-> << >>]
  /\ input = [p \in Procs |-> JoinQuoted(<< >>)]
  /\ res = [p \in Procs |-> NoResult]
  /\ dumps = {}
  /\ saved = << >>
  /\ seen = [p \in Procs |-> {}]
  /\ ops = 0

\* A call that counts against MaxOps starts from an idle goroutine.
StartCall(p) ==
  /\ pc[p] = "idle"
  /\ ops < MaxOps
  /\ ops' = ops + 1

\* Mutant: Permitted scanning without taking wl.lock.
PermittedUnlocked(p, ip) ==
  /\ pc[p] = "idle"
  /\ res' = [res EXCEPT ![p] = IF validIP(ip) THEN Scan(allowlist, ip)
                                                ELSE Deny]
  /\ UNCHANGED <<allowlist, lockHolder, pc, k, n0, out, input, dumps,
                 saved, ops>>

(***************************************************************************)
(* Permitted (lines 249-262): invalid addresses are refused before the    *)
(* lock; the scan runs under the lock and the deferred Unlock runs even   *)
(* when a nil entry makes Contains panic.                                 *)
(***************************************************************************)
Permitted(p, ip) ==
  /\ pc[p] = "idle"
  /\ validIP(ip) => lockHolder = None
  /\ res' = [res EXCEPT ![p] = IF validIP(ip) THEN Scan(allowlist, ip)
                                                ELSE Deny]
  /\ UNCHANGED <<allowlist, lockHolder, pc, k, n0, out, input, dumps,
                 saved, ops>>

(***************************************************************************)
(* Add (lines 268-276): a nil network is ignored; anything else is        *)
(* appended under the lock, overlapping or duplicate or not.              *)
(***************************************************************************)
Add(p, n) ==
  /\ StartCall(p)
  /\ \/ n = Nil /\ UNCHANGED allowlist
     \/ n # Nil /\ lockHolder = None /\ allowlist' = Append(allowlist, n)
  /\ UNCHANGED <<lockHolder, pc, k, n0, out, input, res, dumps, saved>>

\* Mutant: Remove without its "if index == -1 { return }".
RemoveFindNoEarlyReturn(p, n) ==
  /\ StartCall(p)
  /\ \/ /\ n = Nil
        /\ UNCHANGED <<lockHolder, pc, k>>
     \/ /\ n # Nil
        /\ lockHolder = None
        /\ lockHolder' = p
        /\ k' = [k EXCEPT ![p] = FirstIndex(allowlist, n)]
        /\ pc' = [pc EXCEPT ![p] = "r_shift"]
  /\ UNCHANGED <<allowlist, n0, out, input, res, dumps, saved>>

(***************************************************************************)
(* Remove, first part (lines 279-296): a nil network is ignored; under    *)
(* the lock, find the first entry whose String() equals n.String(); with  *)
(* none (index == -1) unlock and return, else go on to delete it.         *)
(***************************************************************************)
RemoveFind(p, n) ==
  LET index == FirstIndex(allowlist, n)
  IN  /\ StartCall(p)
      /\ \/ /\ n = Nil
            /\ UNCHANGED <<lockHolder, pc, k>>
         \/ /\ n # Nil
            /\ lockHolder = None
            /\ index = -1
            /\ UNCHANGED <<lockHolder, pc, k>>
         \/ /\ n # Nil
            /\ lockHolder = None
            /\ index # -1
            /\ lockHolder' = p
            /\ k' = [k EXCEPT ![p] = index]
            /\ pc' = [pc EXCEPT ![p] = "r_shift"]
      /\ UNCHANGED <<allowlist, n0, out, input, res, dumps, saved>>

\* Remove, line 298: append copies l[k+1] onto l[k], one element a step.
RemoveShift(p) ==
  /\ pc[p] = "r_shift"
  /\ k[p] < Len(allowlist)
  /\ allowlist' = [allowlist EXCEPT ![k[p]] = allowlist[k[p] + 1]]
  /\ k' = [k EXCEPT ![p] = k[p] + 1]
  /\ UNCHANGED <<lockHolder, pc, n0, out, input, res, dumps, saved, ops>>

\* Remove, line 298 then the deferred Unlock: the slice loses its last slot.
RemoveTruncate(p) ==
  /\ pc[p] = "r_shift"
  /\ k[p] = Len(allowlist)
  /\ allowlist' = SubSeq(allowlist, 1, Len(allowlist) - 1)
  /\ lockHolder' = None
  /\ pc' = [pc EXCEPT ![p] = "idle"]
  /\ UNCHANGED <<k, n0, out, input, res, dumps, saved, ops>>

(***************************************************************************)
(* MarshalJSON (lines 310-318), with no lock: the range length is fixed   *)
(* at the start, and each iteration indexes the slice as it is then.  An  *)
(* index past the current length panics.                                  *)
(***************************************************************************)
MarshalStart(p) ==
  /\ p \in Marshallers
  /\ StartCall(p)
  /\ n0' = [n0 EXCEPT ![p] = Len(allowlist)]
  /\ k' = [k EXCEPT ![p] = 1]
  /\ out' = [out EXCEPT ![p] = << >>]
  /\ pc' = [pc EXCEPT ![p] = "m_loop"]
  /\ UNCHANGED <<allowlist, lockHolder, input, res, dumps, saved>>

MarshalRead(p) ==
  /\ pc[p] = "m_loop"
  /\ k[p] <= n0[p]
  /\ \/ /\ k[p] > Len(allowlist)
        /\ res' = [res EXCEPT ![p] = Panic]
        /\ pc' = [pc EXCEPT ![p] = "idle"]
        /\ UNCHANGED <<k, out>>
     \/ /\ k[p] <= Len(allowlist)
        /\ out' = [out EXCEPT ![p] = Append(out[p],
                                            NetString(allowlist[k[p]]))]
        /\ k' = [k EXCEPT ![p] = k[p] + 1]
        /\ UNCHANGED <<pc, res>>
  /\ UNCHANGED <<allowlist, lockHolder, n0, input, dumps, saved, ops>>

MarshalDone(p) ==
  /\ pc[p] = "m_loop"
  /\ k[p] > n0[p]
  /\ res' = [res EXCEPT ![p] = Ok]
  /\ dumps' = dumps \cup {JoinQuoted(out[p])}
  /\ pc' = [pc EXCEPT ![p] = "idle"]
  /\ UNCHANGED <<allowlist, lockHolder, k, n0, out, input, saved, ops>>

(***************************************************************************)
(* UnmarshalJSON (lines 322-351): bytes not enclosed in quotes are        *)
(* refused before anything is touched; otherwise, under the lock, the     *)
(* list becomes make(..., len(nets)), all nil, and is filled one *)
(* token at a time.  An empty token leaves its nil slot; a token that     *)
(* does not parse sets the list to nil and returns the error.             *)
(***************************************************************************)
\* Mutant: UnmarshalJSON that does not wait for wl.lock.
UnmarshalStartNoWait(p, w) ==
  /\ StartCall(p)
  /\ \/ /\ ~w.quoted
        /\ res' = [res EXCEPT ![p] = ErrInvalid]
        /\ UNCHANGED <<allowlist, lockHolder, pc, k, input, saved>>
     \/ /\ w.quoted
        /\ lockHolder' = p
        /\ saved' = allowlist
        /\ allowlist' = [i \in 1 .. Len(w.toks) |-> Nil]
        /\ input' = [input EXCEPT ![p] = w]
        /\ k' = [k EXCEPT ![p] = 1]
        /\ pc' = [pc EXCEPT ![p] = "u_loop"]
        /\ UNCHANGED res
  /\ UNCHANGED <<n0, out, dumps>>

UnmarshalStart(p, w) ==
  /\ StartCall(p)
  /\ \/ /\ ~w.quoted
        /\ res' = [res EXCEPT ![p] = ErrInvalid]
        /\ UNCHANGED <<allowlist, lockHolder, pc, k, input, saved>>
     \/ /\ w.quoted
        /\ lockHolder = None
        /\ lockHolder' = p
        /\ saved' = allowlist
        /\ allowlist' = [i \in 1 .. Len(w.toks) |-> Nil]
        /\ input' = [input EXCEPT ![p] = w]
        /\ k' = [k EXCEPT ![p] = 1]
        /\ pc' = [pc EXCEPT ![p] = "u_loop"]
        /\ UNCHANGED res
  /\ UNCHANGED <<n0, out, dumps>>

UnmarshalToken(p) ==
  LET tok == input[p].toks[k[p]]
  IN  /\ pc[p] = "u_loop"
      /\ k[p] <= Len(input[p].toks)
      /\ \/ /\ tok = EmptyText
            /\ k' = [k EXCEPT ![p] = k[p] + 1]
            /\ UNCHANGED <<allowlist, lockHolder, pc, res>>
         \/ /\ tok # EmptyText
            /\ ~ParsesAsCIDR(tok)
            /\ allowlist' = << >>
            /\ res' = [res EXCEPT ![p] = ErrInvalid]
            /\ lockHolder' = None
            /\ pc' = [pc EXCEPT ![p] = "idle"]
            /\ UNCHANGED k
         \/ /\ ParsesAsCIDR(tok)
            /\ allowlist' = [allowlist EXCEPT ![k[p]] = ParseCIDR(tok)]
            /\ k' = [k EXCEPT ![p] = k[p] + 1]
            /\ UNCHANGED <<lockHolder, pc, res>>
      /\ UNCHANGED <<n0, out, input, dumps, saved, ops>>

UnmarshalDone(p) ==
  /\ pc[p] = "u_loop"
  /\ k[p] > Len(input[p].toks)
  /\ res' = [res EXCEPT ![p] = Ok]
  /\ lockHolder' = None
  /\ pc' = [pc EXCEPT ![p] = "idle"]
  /\ UNCHANGED <<allowlist, k, n0, out, input, dumps, saved, ops>>

(***************************************************************************)
(* The list every goroutine that takes wl.lock should see.  While a       *)
(* Remove is shifting, it is the list with the entry already removed      *)
(* (the prefix before slot k and the tail after it); while an             *)
(* UnmarshalJSON is filling, it is the list that call replaced.           *)
(***************************************************************************)
AbsListOf(l, sv, pcv, kv) ==
  IF \E p \in Procs : pcv[p] = "u_loop"
  THEN sv
  ELSE IF \E p \in Procs : pcv[p] = "r_shift"
       THEN LET q == CHOOSE p \in Procs : pcv[p] = "r_shift"
            IN  SubSeq(l, 1, kv[q] - 1) \o SubSeq(l, kv[q] + 1, Len(l))
       ELSE l

AbsList == AbsListOf(allowlist, saved, pc, k)

(***************************************************************************)
(* The history seen records, for every goroutine in MarshalJSON, each     *)
(* list the others could see since the call began.                        *)
(***************************************************************************)
Observe ==
  seen' = [q \in Procs |->
             IF pc'[q] = "m_loop"
             THEN (IF pc[q] = "m_loop" THEN seen[q] ELSE {}) \cup {AbsList'}
             ELSE seen[q]]

(***************************************************************************)
(* Every step of a goroutine, with the history seen brought up to date.   *)
(***************************************************************************)
Next ==
  \E p \in Procs :
    \/ \E ip \in IPArgs : Permitted(p, ip) /\ Observe
    \/ \E n \in NetArgs : Add(p, n) /\ Observe
    \/ \E n \in NetArgs : RemoveFind(p, n) /\ Observe
    \/ RemoveShift(p) /\ Observe
    \/ RemoveTruncate(p) /\ Observe
    \/ MarshalStart(p) /\ Observe
    \/ MarshalRead(p) /\ Observe
    \/ MarshalDone(p) /\ Observe
    \/ \E w \in WireArgs \cup dumps : UnmarshalStart(p, w) /\ Observe
    \/ UnmarshalToken(p) /\ Observe
    \/ UnmarshalDone(p) /\ Observe

Spec == Init /\ [][Next]_vars

-----------------------------------------------------------------------------
(***************************************************************************)
(* Properties.                                                            *)
(***************************************************************************)

\* Every variable holds a value of its kind; a loop index is a natural number.
TypeOK ==
  /\ allowlist \in Seq(Entries)
  /\ lockHolder \in Procs \cup {None}
  /\ pc \in [Procs -> {"idle", "r_shift", "m_loop", "u_loop"}]
  /\ k \in [Procs -> Nat]
  /\ n0 \in [Procs -> Nat]
  /\ out \in [Procs -> Seq(Texts)]
  /\ input \in [Procs -> Wires]
  /\ res \in [Procs -> Results]
  /\ dumps \subseteq Wires
  /\ saved \in Seq(Entries)
  /\ seen \in [Procs -> SUBSET Seq(Entries)]
  /\ ops \in 0 .. MaxOps

Atomic == INSTANCE AtomicBasicNet WITH allowlist <- AbsList, res <- res,
                                       dumps <- dumps

(***************************************************************************)
(* Linearizability of the methods: every behaviour of BasicNet, with its  *)
(* multi-step Remove, UnmarshalJSON and MarshalJSON interleaved, is a     *)
(* behaviour of AtomicBasicNet, where every call is one step.  It is what *)
(* the single wl.lock is for, and what MarshalJSON, which does not take   *)
(* it, can break.                                                         *)
(***************************************************************************)
RefinesAtomic == Atomic!Spec

(***************************************************************************)
(* No call of a BasicNet method panics: Permitted never reaches a nil     *)
(* entry and MarshalJSON never indexes past the end of the slice.         *)
(***************************************************************************)
NoPanic == \A p \in Procs : res[p] # Panic

(***************************************************************************)
(* wl.lock is held exactly by the goroutine inside Remove's shift or      *)
(* UnmarshalJSON's fill: no two goroutines write the slice at once.       *)
(***************************************************************************)
LockExclusion ==
  \A p \in Procs : pc[p] \in {"r_shift", "u_loop"} <=> lockHolder = p

\* The strings MarshalJSON produces for a list.
Listing(l) == [i \in 1 .. Len(l) |-> NetString(l[i])]

(***************************************************************************)
(* MarshalJSON returns a snapshot: when its loop ends, the strings it has *)
(* collected list the entries of one list the ACL held during the call.   *)
(* A dump that is not a snapshot can omit a network present throughout,   *)
(* or list one twice, and loading it back changes the ACL.                *)
(***************************************************************************)
MarshalIsSnapshot ==
  \A p \in Procs :
    pc[p] = "m_loop" /\ k[p] > n0[p] => \E l \in seen[p] : out[p] = Listing(l)
=============================================================================
