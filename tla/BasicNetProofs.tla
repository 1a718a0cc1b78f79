--------------------------- MODULE BasicNetProofs ---------------------------
(***************************************************************************)
(* Proofs about BasicNet: every reachable state is well typed, and wl.lock *)
(* is held exactly by the goroutine inside Remove's shift or              *)
(* UnmarshalJSON's fill.  Neither invariant is inductive alone: the       *)
(* shift reads allowlist[k + 1], so k must stay inside the slice while a  *)
(* Remove runs, and that in turn needs the lock to keep every other       *)
(* writer out.  IInv conjoins the three.                                  *)
(***************************************************************************)
EXTENDS BasicNet, WellFoundedInduction, SequenceTheorems, TLAPS

PCs == {"idle", "r_shift", "m_loop", "u_loop"}

(***************************************************************************)
(* Every loop index of a call in progress points into what it walks, and  *)
(* the slice UnmarshalJSON fills has one slot per token.                  *)
(***************************************************************************)
LoopIndex ==
  \A p \in Procs :
    /\ pc[p] = "r_shift" => k[p] \in 1 .. Len(allowlist)
    /\ pc[p] = "m_loop" => k[p] >= 1
    /\ pc[p] = "u_loop" => /\ k[p] >= 1
                           /\ Len(allowlist) = Len(input[p].toks)

\* TypeOK without the history seen, whose type rests on the rest.
TypeCore ==
  /\ allowlist \in Seq(Entries)
  /\ lockHolder \in Procs \cup {None}
  /\ pc \in [Procs -> PCs]
  /\ k \in [Procs -> Nat]
  /\ n0 \in [Procs -> Nat]
  /\ out \in [Procs -> Seq(Texts)]
  /\ input \in [Procs -> Wires]
  /\ res \in [Procs -> Results]
  /\ dumps \subseteq Wires
  /\ saved \in Seq(Entries)
  /\ ops \in 0 .. MaxOps

Core == TypeCore /\ LockExclusion /\ LoopIndex

SeenOK == seen \in [Procs -> SUBSET Seq(Entries)]

IInv == Core /\ SeenOK

-----------------------------------------------------------------------------
(* Lemmas on the operators the model is built from.                        *)

\* A nonempty set of naturals has a least element, and MinOf is it.
LEMMA MinOfType ==
  ASSUME NEW S \in SUBSET Nat, S # {}
  PROVE  /\ MinOf(S) \in S
         /\ \A j \in S : MinOf(S) <= j
  <1>1. PICK x \in S : \A y \in S : ~(<<y, x>> \in OpToRel(<, Nat))
    BY NatLessThanWellFounded, WFMin
  <1>2. \A y \in S : ~(y < x)
    BY <1>1, Zenon DEF OpToRel
  <1>3. \A y \in S : x <= y
    BY <1>2, SMT
  <1> QED BY <1>3, Zenon DEF MinOf

\* (v \div d) * d stays below any bound v is below.
LEMMA DivMulBound ==
  ASSUME NEW d \in Nat \ {0}, NEW N \in Nat, NEW v \in 0 .. N - 1
  PROVE  (v \div d) * d \in 0 .. N - 1
  BY SMT

\* Masking an address yields an address.
LEMMA MaskType ==
  ASSUME NEW v \in Values, NEW p \in Prefixes
  PROVE  Mask(v, p) \in Values
  <1>1. 2^(AddrBits - p) \in Nat \ {0}
    BY AddrBitsAssumption, PowAssumption DEF Prefixes
  <1>2. 2^AddrBits \in Nat
    BY AddrBitsAssumption, PowAssumption
  <1> QED BY <1>1, <1>2, DivMulBound, Zenon DEF Mask, Values

LEMMA ZeroValue == 0 \in Values /\ 0 \in Prefixes
  BY AddrBitsAssumption, PowAssumption, SMT DEF Values, Prefixes

LEMMA ParseCIDRType ==
  ASSUME NEW t \in Texts
  PROVE  ParseCIDR(t) \in Nets
  BY MaskType DEF ParseCIDR, Nets, Texts

LEMMA NetStringType ==
  ASSUME NEW n \in Entries
  PROVE  NetString(n) \in Texts
  <1>1. CASE n = Nil
    BY <1>1, ZeroValue DEF NetString, Texts, NilText, MkText, TextKinds,
                           Families
  <1>2. CASE n # Nil
    <2>1. n \in Nets
      BY <1>2 DEF Entries
    <2> QED BY <1>2, <2>1 DEF NetString, Nets, Texts, TextKinds
  <1> QED BY <1>1, <1>2

LEMMA JoinQuotedType ==
  ASSUME NEW ss \in Seq(Texts)
  PROVE  JoinQuoted(ss) \in Wires
  <1>1. EmptyText \in Texts
    BY ZeroValue DEF EmptyText, MkText, Texts, TextKinds, Families
  <1>2. << EmptyText >> \in Seq(Texts)
    BY <1>1
  <1> QED BY <1>2 DEF JoinQuoted, Wires

LEMMA FirstIndexType ==
  ASSUME NEW l \in Seq(Entries), NEW n
  PROVE  FirstIndex(l, n) \in {-1} \cup 1 .. Len(l)
  <1> DEFINE hits == {i \in 1 .. Len(l) : NetString(l[i]) = NetString(n)}
  <1>1. CASE hits = {}
    BY <1>1 DEF FirstIndex
  <1>2. CASE hits # {}
    <2>1. hits \in SUBSET Nat
      OBVIOUS
    <2>2. MinOf(hits) \in hits
      BY <1>2, <2>1, MinOfType
    <2> QED BY <1>2, <2>2 DEF FirstIndex
  <1> QED BY <1>1, <1>2

LEMMA ScanType ==
  ASSUME NEW l, NEW ip
  PROVE  Scan(l, ip) \in {Permit, Deny, Panic}
  BY DEF Scan, Permit, Deny, Panic

\* The list the refinement mapping reconstructs is a list of entries.
LEMMA AbsListType ==
  ASSUME NEW l \in Seq(Entries), NEW sv \in Seq(Entries),
         NEW pcv \in [Procs -> PCs], NEW kv \in [Procs -> Nat],
         \A p \in Procs : pcv[p] = "r_shift" => kv[p] \in 1 .. Len(l)
  PROVE  AbsListOf(l, sv, pcv, kv) \in Seq(Entries)
  <1>1. CASE \E p \in Procs : pcv[p] = "u_loop"
    BY <1>1 DEF AbsListOf
  <1>2. CASE ~(\E p \in Procs : pcv[p] = "u_loop")
             /\ \E p \in Procs : pcv[p] = "r_shift"
    <2> DEFINE q == CHOOSE p \in Procs : pcv[p] = "r_shift"
    <2>1. kv[q] \in 1 .. Len(l)
      BY <1>2
    <2>2. \A i \in 1 .. kv[q] - 1 : l[i] \in Entries
      BY <2>1
    <2>3. \A i \in kv[q] + 1 .. Len(l) : l[i] \in Entries
      BY <2>1
    <2>4. SubSeq(l, 1, kv[q] - 1) \in Seq(Entries)
      BY <2>1, <2>2, SubSeqProperties
    <2>5. SubSeq(l, kv[q] + 1, Len(l)) \in Seq(Entries)
      BY <2>1, <2>3, SubSeqProperties
    <2> QED BY <1>2, <2>4, <2>5, ConcatProperties DEF AbsListOf
  <1>3. CASE ~(\E p \in Procs : pcv[p] \in {"u_loop", "r_shift"})
    BY <1>3 DEF AbsListOf
  <1> QED BY <1>1, <1>2, <1>3

\* A panic is one of the results.
LEMMA ResultsPanic == Panic \in Results
  BY DEF Results

-----------------------------------------------------------------------------
(* The inductive invariant.                                                *)

LEMMA InitIInv == Init => IInv
  <1> SUFFICES ASSUME Init PROVE IInv
    OBVIOUS
  <1>1. JoinQuoted(<< >>) \in Wires
    <2>1. << >> \in Seq(Texts)
      OBVIOUS
    <2> QED BY <2>1, JoinQuotedType
  <1>2. TypeCore
    BY <1>1, MaxOpsAssumption, ProcsAssumption
    DEF Init, TypeCore, PCs, Results, NoResult, Permit, Deny, Panic,
        ErrInvalid, Ok
  <1>3. LockExclusion /\ LoopIndex
    BY ProcsAssumption DEF Init, LockExclusion, LoopIndex
  <1> QED BY <1>2, <1>3 DEF Init, IInv, Core, SeenOK

\* Observe keeps seen well typed once the rest of the state is.
LEMMA ObserveType ==
  ASSUME SeenOK, Core', pc \in [Procs -> PCs], Observe
  PROVE  SeenOK'
  <1>1. AbsList' \in Seq(Entries)
    BY AbsListType DEF Core, TypeCore, LoopIndex, AbsList
  <1> QED BY <1>1 DEF Observe, SeenOK

\* The definitions every step lemma opens.
USE DEF Core, TypeCore, LockExclusion, LoopIndex, PCs

LEMMA PermittedCore ==
  ASSUME Core, NEW p \in Procs, NEW ip \in IPArgs, Permitted(p, ip)
  PROVE  Core'
  <1>1. (IF validIP(ip) THEN Scan(allowlist, ip) ELSE Deny) \in Results
    BY ScanType DEF Results
  <1> QED BY <1>1 DEF Permitted

LEMMA AddCore ==
  ASSUME Core, NEW p \in Procs, NEW n \in NetArgs, Add(p, n)
  PROVE  Core'
  <1>1. CASE n = Nil
    BY <1>1, MaxOpsAssumption DEF Add, StartCall
  <1>2. CASE n # Nil
    <2>1. n \in Entries
      BY ArgsAssumption DEF Entries
    <2>2. allowlist' = Append(allowlist, n)
      BY <1>2 DEF Add
    <2>3. \A q \in Procs : pc[q] \notin {"r_shift", "u_loop"}
      BY <1>2, ProcsAssumption DEF Add
    <2>4. allowlist' \in Seq(Entries)
      BY <2>1, <2>2, AppendProperties
    <2> QED BY <1>2, <2>3, <2>4, MaxOpsAssumption DEF Add, StartCall
  <1> QED BY <1>1, <1>2

LEMMA RemoveFindCore ==
  ASSUME Core, NEW p \in Procs, NEW n \in NetArgs, RemoveFind(p, n)
  PROVE  Core'
  <1> DEFINE index == FirstIndex(allowlist, n)
  <1>1. index \in {-1} \cup 1 .. Len(allowlist)
    BY FirstIndexType
  <1>2. ops' \in 0 .. MaxOps
    BY MaxOpsAssumption DEF RemoveFind, StartCall
  <1>3. CASE n = Nil \/ index = -1
    BY <1>2, <1>3 DEF RemoveFind, StartCall
  <1>4. CASE n # Nil /\ index # -1
    <2>1. /\ lockHolder = None
          /\ lockHolder' = p
          /\ k' = [k EXCEPT ![p] = index]
          /\ pc' = [pc EXCEPT ![p] = "r_shift"]
          /\ UNCHANGED <<allowlist, n0, out, input, res, dumps, saved>>
      BY <1>4 DEF RemoveFind
    <2>2. pc[p] = "idle"
      BY DEF RemoveFind, StartCall
    <2>3. \A q \in Procs : pc[q] \notin {"r_shift", "u_loop"}
      BY <2>1, ProcsAssumption
    <2> QED BY <1>1, <1>2, <1>4, <2>1, <2>3
  <1> QED BY <1>3, <1>4

LEMMA RemoveShiftCore ==
  ASSUME Core, NEW p \in Procs, RemoveShift(p)
  PROVE  Core'
  <1>1. k[p] \in 1 .. Len(allowlist) - 1
    BY DEF RemoveShift
  <1>2. allowlist' \in Seq(Entries) /\ Len(allowlist') = Len(allowlist)
    BY <1>1, ExceptSeq DEF RemoveShift
  <1>3. \A q \in Procs : pc[q] # "u_loop"
    BY ProcsAssumption DEF RemoveShift
  <1> QED BY <1>1, <1>2, <1>3 DEF RemoveShift

LEMMA RemoveTruncateCore ==
  ASSUME Core, NEW p \in Procs, RemoveTruncate(p)
  PROVE  Core'
  <1>1. Len(allowlist) >= 1
    BY DEF RemoveTruncate
  <1>2. allowlist' \in Seq(Entries) /\ Len(allowlist') = Len(allowlist) - 1
    BY <1>1, SubSeqProperties DEF RemoveTruncate
  <1>3. \A q \in Procs \ {p} : pc[q] \notin {"r_shift", "u_loop"}
    BY ProcsAssumption DEF RemoveTruncate
  <1> QED BY <1>2, <1>3, ProcsAssumption DEF RemoveTruncate

LEMMA MarshalStartCore ==
  ASSUME Core, NEW p \in Procs, MarshalStart(p)
  PROVE  Core'
  <1>1. /\ pc[p] = "idle"
        /\ ops < MaxOps
        /\ ops' = ops + 1
        /\ n0' = [n0 EXCEPT ![p] = Len(allowlist)]
        /\ k' = [k EXCEPT ![p] = 1]
        /\ out' = [out EXCEPT ![p] = << >>]
        /\ pc' = [pc EXCEPT ![p] = "m_loop"]
        /\ UNCHANGED <<allowlist, lockHolder, input, res, dumps, saved>>
    BY DEF MarshalStart, StartCall
  <1>2. lockHolder # p
    BY <1>1
  <1>3. TypeCore'
    BY <1>1, MaxOpsAssumption
  <1>4. LockExclusion'
    BY <1>1, <1>2
  <1>5. LoopIndex'
    BY <1>1
  <1> QED BY <1>3, <1>4, <1>5

LEMMA MarshalReadCore ==
  ASSUME Core, NEW p \in Procs, MarshalRead(p)
  PROVE  Core'
  <1>1. CASE k[p] > Len(allowlist)
    <2>1. /\ res' = [res EXCEPT ![p] = Panic]
          /\ pc' = [pc EXCEPT ![p] = "idle"]
          /\ UNCHANGED <<k, out, allowlist, lockHolder, n0, input, dumps,
                         saved, ops>>
      BY <1>1 DEF MarshalRead
    <2>2. pc[p] = "m_loop"
      BY DEF MarshalRead
    <2>3. TypeCore'
      BY <2>1, ResultsPanic
    <2>4. LockExclusion'
      BY <2>1, <2>2
    <2>5. LoopIndex'
      BY <2>1, <2>2
    <2> QED BY <2>3, <2>4, <2>5
  <1>2. CASE ~(k[p] > Len(allowlist))
    <2>0. pc[p] = "m_loop"
      BY DEF MarshalRead
    <2>1. k[p] \in 1 .. Len(allowlist)
      BY <1>2, <2>0
    <2>2. NetString(allowlist[k[p]]) \in Texts
      BY <2>1, NetStringType
    <2>3. Append(out[p], NetString(allowlist[k[p]])) \in Seq(Texts)
      BY <2>2, AppendProperties
    <2>4. /\ out' = [out EXCEPT
                      ![p] = Append(out[p], NetString(allowlist[k[p]]))]
          /\ k' = [k EXCEPT ![p] = k[p] + 1]
          /\ UNCHANGED <<pc, res, allowlist, lockHolder, n0, input, dumps,
                         saved, ops>>
      BY <1>2, <2>1 DEF MarshalRead
    <2>5. TypeCore'
      BY <2>3, <2>4
    <2>6. LockExclusion'
      BY <2>4
    <2>7. LoopIndex'
      BY <2>0, <2>4
    <2> QED BY <2>5, <2>6, <2>7
  <1> QED BY <1>1, <1>2

LEMMA MarshalDoneCore ==
  ASSUME Core, NEW p \in Procs, MarshalDone(p)
  PROVE  Core'
  <1>1. JoinQuoted(out[p]) \in Wires
    BY JoinQuotedType
  <1> QED BY <1>1 DEF MarshalDone, Results, Ok

LEMMA UnmarshalStartCore ==
  ASSUME Core, NEW p \in Procs, NEW w \in WireArgs \cup dumps,
         UnmarshalStart(p, w)
  PROVE  Core'
  <1>1. w \in Wires
    BY ArgsAssumption
  <1>2. ops' \in 0 .. MaxOps /\ pc[p] = "idle"
    BY MaxOpsAssumption DEF UnmarshalStart, StartCall
  <1>3. CASE ~w.quoted
    <2>1. /\ res' = [res EXCEPT ![p] = ErrInvalid]
          /\ UNCHANGED <<allowlist, lockHolder, pc, k, input, saved, n0, out,
                         dumps>>
      BY <1>3 DEF UnmarshalStart
    <2>2. TypeCore'
      BY <1>2, <2>1 DEF Results, ErrInvalid
    <2> QED BY <2>1, <2>2
  <1>4. CASE w.quoted
    <2>1. /\ lockHolder = None
          /\ lockHolder' = p
          /\ saved' = allowlist
          /\ allowlist' = [i \in 1 .. Len(w.toks) |-> Nil]
          /\ input' = [input EXCEPT ![p] = w]
          /\ k' = [k EXCEPT ![p] = 1]
          /\ pc' = [pc EXCEPT ![p] = "u_loop"]
          /\ UNCHANGED <<res, n0, out, dumps>>
      BY <1>4 DEF UnmarshalStart
    <2>2. [i \in 1 .. Len(w.toks) |-> Nil] \in Seq(Entries)
      BY <1>1 DEF Wires, Entries
    <2>3. \A q \in Procs : pc[q] \notin {"r_shift", "u_loop"}
      BY <2>1, ProcsAssumption
    <2>4. TypeCore'
      BY <1>1, <1>2, <2>1, <2>2
    <2>5. LockExclusion'
      BY <2>1, <2>3
    <2>6. LoopIndex'
      BY <1>1, <2>1, <2>3
    <2> QED BY <2>4, <2>5, <2>6
  <1> QED BY <1>3, <1>4

LEMMA UnmarshalTokenCore ==
  ASSUME Core, NEW p \in Procs, UnmarshalToken(p)
  PROVE  Core'
  <1> DEFINE tok == input[p].toks[k[p]]
  <1>1. /\ k[p] \in 1 .. Len(input[p].toks)
        /\ Len(allowlist) = Len(input[p].toks)
        /\ lockHolder = p
    BY DEF UnmarshalToken
  <1>2. tok \in Texts
    BY <1>1 DEF Wires
  <1>0. pc[p] = "u_loop" /\ UNCHANGED <<n0, out, input, dumps, saved, ops>>
    BY DEF UnmarshalToken
  <1>3. CASE tok = EmptyText
    <2>1. /\ k' = [k EXCEPT ![p] = k[p] + 1]
          /\ UNCHANGED <<allowlist, lockHolder, pc, res>>
      BY <1>3 DEF UnmarshalToken, ParsesAsCIDR, EmptyText, MkText
    <2>2. TypeCore'
      BY <1>0, <2>1
    <2>3. LoopIndex'
      BY <1>0, <1>1, <2>1
    <2> QED BY <1>0, <2>1, <2>2, <2>3
  <1>4. CASE tok # EmptyText /\ ~ParsesAsCIDR(tok)
    <2>1. /\ allowlist' = << >>
          /\ res' = [res EXCEPT ![p] = ErrInvalid]
          /\ lockHolder' = None
          /\ pc' = [pc EXCEPT ![p] = "idle"]
          /\ UNCHANGED k
      BY <1>4 DEF UnmarshalToken
    <2>2. \A q \in Procs \ {p} : pc[q] \notin {"r_shift", "u_loop"}
      BY <1>1
    <2>3. TypeCore'
      BY <1>0, <2>1, ProcsAssumption DEF Results, ErrInvalid
    <2>4. LockExclusion'
      BY <1>0, <2>1, <2>2, ProcsAssumption
    <2>5. LoopIndex'
      BY <1>0, <2>1, <2>2
    <2> QED BY <2>3, <2>4, <2>5
  <1>5. CASE ParsesAsCIDR(tok)
    <2>1. ParseCIDR(tok) \in Entries
      BY <1>2, ParseCIDRType DEF Entries
    <2>2. /\ [allowlist EXCEPT ![k[p]] = ParseCIDR(tok)] \in Seq(Entries)
          /\ Len([allowlist EXCEPT ![k[p]] = ParseCIDR(tok)]) = Len(allowlist)
      BY <1>1, <2>1, ExceptSeq
    <2>3. /\ allowlist' = [allowlist EXCEPT ![k[p]] = ParseCIDR(tok)]
          /\ k' = [k EXCEPT ![p] = k[p] + 1]
          /\ UNCHANGED <<lockHolder, pc, res>>
      BY <1>5 DEF UnmarshalToken, ParsesAsCIDR, EmptyText, MkText
    <2>4. TypeCore'
      BY <1>0, <2>2, <2>3
    <2>5. LockExclusion'
      BY <2>3
    <2>6. LoopIndex'
      BY <1>0, <1>1, <2>2, <2>3
    <2> QED BY <2>4, <2>5, <2>6
  <1> QED BY <1>3, <1>4, <1>5

LEMMA UnmarshalDoneCore ==
  ASSUME Core, NEW p \in Procs, UnmarshalDone(p)
  PROVE  Core'
  <1>1. lockHolder = p
    BY DEF UnmarshalDone
  <1> QED BY <1>1, ProcsAssumption DEF UnmarshalDone, Results, Ok

\* Every step of Next, and every stutter, keeps IInv.
LEMMA IInvStep == IInv /\ [Next]_vars => IInv'
  <1> SUFFICES ASSUME IInv, [Next]_vars PROVE IInv'
    OBVIOUS
  <1>1. CASE UNCHANGED vars
    BY <1>1 DEF vars, IInv, SeenOK
  <1>2. CASE Next
    <2>1. Observe
      BY <1>2, Zenon DEF Next
    <2>2. Core'
      <3> PICK p \in Procs :
            \/ \E ip \in IPArgs : Permitted(p, ip) /\ Observe
            \/ \E n \in NetArgs : Add(p, n) /\ Observe
            \/ \E n \in NetArgs : RemoveFind(p, n) /\ Observe
            \/ RemoveShift(p) /\ Observe
            \/ RemoveTruncate(p) /\ Observe
            \/ MarshalStart(p) /\ Observe
            \/ MarshalRead(p) /\ Observe
            \/ MarshalDone(p) /\ Observe
            \/ \E w \in WireArgs \cup dumps : UnmarshalStart(p, w) /\ Observe
            \/ UnmarshalToken(p) /\ Observe
            \/ UnmarshalDone(p) /\ Observe
        BY <1>2 DEF Next
      <3>0. Core
        BY DEF IInv
      <3>1. CASE \E ip \in IPArgs : Permitted(p, ip) /\ Observe
        BY <3>0, <3>1, PermittedCore
      <3>2. CASE \E n \in NetArgs : Add(p, n) /\ Observe
        BY <3>0, <3>2, AddCore
      <3>3. CASE \E n \in NetArgs : RemoveFind(p, n) /\ Observe
        BY <3>0, <3>3, RemoveFindCore
      <3>4. CASE RemoveShift(p) /\ Observe
        BY <3>0, <3>4, RemoveShiftCore
      <3>5. CASE RemoveTruncate(p) /\ Observe
        BY <3>0, <3>5, RemoveTruncateCore
      <3>6. CASE MarshalStart(p) /\ Observe
        BY <3>0, <3>6, MarshalStartCore
      <3>7. CASE MarshalRead(p) /\ Observe
        BY <3>0, <3>7, MarshalReadCore
      <3>8. CASE MarshalDone(p) /\ Observe
        BY <3>0, <3>8, MarshalDoneCore
      <3>9. CASE \E w \in WireArgs \cup dumps : UnmarshalStart(p, w) /\ Observe
        BY <3>0, <3>9, UnmarshalStartCore
      <3>10. CASE UnmarshalToken(p) /\ Observe
        BY <3>0, <3>10, UnmarshalTokenCore
      <3>11. CASE UnmarshalDone(p) /\ Observe
        BY <3>0, <3>11, UnmarshalDoneCore
      <3> QED BY <3>1, <3>2, <3>3, <3>4, <3>5, <3>6, <3>7, <3>8, <3>9,
                 <3>10, <3>11
    <2>3. SeenOK'
      <3>1. SeenOK /\ pc \in [Procs -> PCs]
        BY DEF IInv
      <3> QED BY <2>1, <2>2, <3>1, ObserveType
    <2> QED BY <2>2, <2>3 DEF IInv
  <1> QED BY <1>1, <1>2

-----------------------------------------------------------------------------
(* The theorems.                                                           *)

\* IInv holds in every reachable state of BasicNet.
LEMMA IInvInvariant == Spec => []IInv
  BY InitIInv, IInvStep, PTL DEF Spec

(***************************************************************************)
(* Type correctness of BasicNet: every variable of every reachable state  *)
(* holds a value of its kind, whatever the goroutines, arguments and      *)
(* bounds; in particular the loops of Remove, MarshalJSON and             *)
(* UnmarshalJSON only index inside the slices they walk.                  *)
(***************************************************************************)
THEOREM TypeCorrect == Spec => []TypeOK
  <1>1. IInv => TypeOK
    BY DEF IInv, SeenOK, TypeOK
  <1> QED BY IInvInvariant, <1>1, PTL

(***************************************************************************)
(* Mutual exclusion of the writers of net.go: in every reachable state    *)
(* wl.lock is held exactly by the goroutine inside Remove's shift or      *)
(* UnmarshalJSON's fill, so no two goroutines write wl.allowlist at once  *)
(* and no locked call runs while one does.                                *)
(***************************************************************************)
THEOREM LockExclusive == Spec => []LockExclusion
  <1>1. IInv => LockExclusion
    BY DEF IInv
  <1> QED BY IInvInvariant, <1>1, PTL
=============================================================================
