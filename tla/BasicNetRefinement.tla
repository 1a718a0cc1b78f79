-------------------------- MODULE BasicNetRefinement --------------------------
(***************************************************************************)
(* Proof that BasicNet implements AtomicBasicNet when no goroutine calls  *)
(* MarshalJSON: under the refinement mapping AbsList, every step of a     *)
(* locked method is one atomic step of its abstract counterpart or leaves *)
(* the abstract list, the results and the dumps alone.  Remove's shift    *)
(* and UnmarshalJSON's fill are invisible to every caller that takes      *)
(* wl.lock; the call takes effect at the step that takes the lock         *)
(* (Remove) or at the step that ends the fill (UnmarshalJSON).            *)
(***************************************************************************)
EXTENDS BasicNetProofs

\* No goroutine calls MarshalJSON, the one method that skips wl.lock.
LockedCallers == Marshallers = {}

\* Without a MarshalJSON caller no dump is ever made.
NoMarshal == dumps = {} /\ \A p \in Procs : pc[p] # "m_loop"

(***************************************************************************)
(* The fill of an UnmarshalJSON in progress: its input is quoted and was  *)
(* given by a caller, every token before k parsed or was empty, and the   *)
(* slice holds what Parsed gives in the slots before k and nil after.     *)
(***************************************************************************)
Fill(p) ==
  /\ input[p].quoted
  /\ input[p] \in WireArgs
  /\ \A i \in 1 .. k[p] - 1 : input[p].toks[i] = EmptyText
                              \/ ParsesAsCIDR(input[p].toks[i])
  /\ \A i \in 1 .. Len(allowlist) :
       allowlist[i] = IF i < k[p] THEN Parsed(input[p].toks)[i] ELSE Nil

FillInv == \A p \in Procs : pc[p] = "u_loop" => Fill(p)

RInv == IInv /\ NoMarshal /\ FillInv

-----------------------------------------------------------------------------
(* Lemmas on the operators the mapping is built from.                      *)

\* Two sequences that hold l before and after slot i, concatenated.
LEMMA ConcatSkip ==
  ASSUME NEW S, NEW l \in Seq(S), NEW i \in 1 .. Len(l),
         NEW s \in Seq(S), NEW t \in Seq(S),
         Len(s) = i - 1, Len(t) = Len(l) - i,
         \A j \in 1 .. i - 1 : s[j] = l[j],
         \A j \in 1 .. Len(l) - i : t[j] = l[i + j]
  PROVE  /\ Len(s \o t) = Len(l) - 1
         /\ \A j \in 1 .. Len(l) - 1 :
              (s \o t)[j] = IF j < i THEN l[j] ELSE l[j + 1]
  <1>0. /\ Len(s \o t) = Len(s) + Len(t)
        /\ \A j \in 1 .. Len(s) + Len(t) :
             (s \o t)[j] = IF j <= Len(s) THEN s[j] ELSE t[j - Len(s)]
    BY ConcatProperties
  <1>1. ASSUME NEW j \in 1 .. Len(l) - 1, j < i
        PROVE  (s \o t)[j] = l[j]
    BY <1>0, <1>1
  <1>2. ASSUME NEW j \in 1 .. Len(l) - 1, ~(j < i)
        PROVE  (s \o t)[j] = l[j + 1]
    <2>1. (s \o t)[j] = t[j - (i - 1)]
      BY <1>0, <1>2
    <2>2. j - (i - 1) \in 1 .. Len(l) - i /\ i + (j - (i - 1)) = j + 1
      BY <1>2
    <2>3. t[j - (i - 1)] = l[i + (j - (i - 1))]
      BY <2>2
    <2>4. l[i + (j - (i - 1))] = l[j + 1]
      BY <2>2
    <2> QED BY <2>1, <2>3, <2>4, Zenon
  <1> QED BY <1>0, <1>1, <1>2

\* The two halves of RemoveAt, kept opaque so that the provers see each
\* half as one sequence.
Front(l, i) == SubSeq(l, 1, i - 1)
Back(l, i) == SubSeq(l, i + 1, Len(l))

\* append(l[:i], l[i+1:]...) is l without its i-th element.
LEMMA RemoveAtProps ==
  ASSUME NEW S, NEW l \in Seq(S), NEW i \in 1 .. Len(l)
  PROVE  /\ RemoveAt(l, i) \in Seq(S)
         /\ Len(RemoveAt(l, i)) = Len(l) - 1
         /\ \A j \in 1 .. Len(l) - 1 :
              RemoveAt(l, i)[j] = IF j < i THEN l[j] ELSE l[j + 1]
  <1>1. Front(l, i) \in Seq(S) /\ Back(l, i) \in Seq(S)
    BY DEF Front, Back
  <1>2. Len(Front(l, i)) = i - 1
    BY DEF Front
  <1>3. Len(Back(l, i)) = Len(l) - i
    BY DEF Back
  <1>4. \A j \in 1 .. i - 1 : Front(l, i)[j] = l[j]
    BY DEF Front
  <1>5. \A j \in 1 .. Len(l) - i : Back(l, i)[j] = l[i + j]
    BY DEF Back
  <1>6. Front(l, i) \o Back(l, i) \in Seq(S)
    BY <1>1
  <1>7. \A s, t \in Seq(S) :
          (/\ Len(s) = i - 1 /\ Len(t) = Len(l) - i
           /\ \A j \in 1 .. i - 1 : s[j] = l[j]
           /\ \A j \in 1 .. Len(l) - i : t[j] = l[i + j])
          => /\ Len(s \o t) = Len(l) - 1
             /\ \A j \in 1 .. Len(l) - 1 :
                  (s \o t)[j] = IF j < i THEN l[j] ELSE l[j + 1]
    <2> SUFFICES ASSUME NEW s \in Seq(S), NEW t \in Seq(S),
                        Len(s) = i - 1, Len(t) = Len(l) - i,
                        \A j \in 1 .. i - 1 : s[j] = l[j],
                        \A j \in 1 .. Len(l) - i : t[j] = l[i + j]
                 PROVE  /\ Len(s \o t) = Len(l) - 1
                        /\ \A j \in 1 .. Len(l) - 1 :
                             (s \o t)[j] = IF j < i THEN l[j] ELSE l[j + 1]
      OBVIOUS
    <2>1. Len(s \o t) = Len(l) - 1
      BY ConcatSkip
    <2>2. \A j \in 1 .. Len(l) - 1 :
            (s \o t)[j] = IF j < i THEN l[j] ELSE l[j + 1]
      BY ConcatSkip
    <2> QED BY <2>1, <2>2
  <1>8. /\ Len(Front(l, i) \o Back(l, i)) = Len(l) - 1
        /\ \A j \in 1 .. Len(l) - 1 :
             (Front(l, i) \o Back(l, i))[j] = IF j < i THEN l[j] ELSE l[j + 1]
    BY <1>1, <1>2, <1>3, <1>4, <1>5, <1>7, Zenon
  <1> QED BY <1>6, <1>8 DEF RemoveAt, Front, Back

\* One step of Remove's shift leaves the list without the removed entry.
LEMMA ShiftKeepsRemoved ==
  ASSUME NEW S, NEW l \in Seq(S), NEW i \in 1 .. Len(l) - 1
  PROVE  RemoveAt([l EXCEPT ![i] = l[i + 1]], i + 1) = RemoveAt(l, i)
  <1> DEFINE l2 == [l EXCEPT ![i] = l[i + 1]]
  <1>1. l2 \in Seq(S) /\ Len(l2) = Len(l)
    BY ExceptSeq
  <1>2. \A j \in 1 .. Len(l) : l2[j] = IF j = i THEN l[i + 1] ELSE l[j]
    BY ExceptSeq
  <1>3. i + 1 \in 1 .. Len(l2)
    BY <1>1
  <1>4. RemoveAt(l2, i + 1) \in Seq(S)
    BY <1>1, <1>3, RemoveAtProps
  <1>5. Len(RemoveAt(l2, i + 1)) = Len(l) - 1
    BY <1>1, <1>3, RemoveAtProps
  <1>6. \A j \in 1 .. Len(l) - 1 :
          RemoveAt(l2, i + 1)[j] = IF j < i + 1 THEN l2[j] ELSE l2[j + 1]
    BY <1>1, <1>3, RemoveAtProps
  <1>0. i \in 1 .. Len(l)
    OBVIOUS
  <1>7. RemoveAt(l, i) \in Seq(S)
    BY <1>0, RemoveAtProps
  <1>8. Len(RemoveAt(l, i)) = Len(l) - 1
    BY <1>0, RemoveAtProps
  <1>9. \A j \in 1 .. Len(l) - 1 :
          RemoveAt(l, i)[j] = IF j < i THEN l[j] ELSE l[j + 1]
    BY <1>0, RemoveAtProps
  <1>10. \A j \in 1 .. Len(l) - 1 : RemoveAt(l2, i + 1)[j] = RemoveAt(l, i)[j]
    <2> SUFFICES ASSUME NEW j \in 1 .. Len(l) - 1
                 PROVE  RemoveAt(l2, i + 1)[j] = RemoveAt(l, i)[j]
      OBVIOUS
    <2>1. RemoveAt(l2, i + 1)[j] = IF j < i + 1 THEN l2[j] ELSE l2[j + 1]
      BY <1>6
    <2>2. RemoveAt(l, i)[j] = IF j < i THEN l[j] ELSE l[j + 1]
      BY <1>9
    <2>3. j \in 1 .. Len(l) /\ j + 1 \in 1 .. Len(l)
      OBVIOUS
    <2>4. l2[j] = IF j = i THEN l[i + 1] ELSE l[j]
      BY <2>3, <1>2
    <2>5. j >= i + 1 => l2[j + 1] = l[j + 1]
      BY <2>3, <1>2
    <2> QED BY <2>1, <2>2, <2>4, <2>5
  <1> QED BY <1>4, <1>5, <1>7, <1>8, <1>10, SeqEqual

\* l[:i-1] is the first i - 1 entries of l.
LEMMA FrontProps ==
  ASSUME NEW S, NEW l \in Seq(S), NEW i \in 1 .. Len(l)
  PROVE  /\ Front(l, i) \in Seq(S)
         /\ Len(Front(l, i)) = i - 1
         /\ \A j \in 1 .. i - 1 : Front(l, i)[j] = l[j]
  BY DEF Front

\* Removing the last entry is the truncation that ends Remove.
LEMMA RemoveLast ==
  ASSUME NEW S, NEW l \in Seq(S), Len(l) >= 1
  PROVE  RemoveAt(l, Len(l)) = SubSeq(l, 1, Len(l) - 1)
  <1>1. Len(l) \in 1 .. Len(l)
    OBVIOUS
  <1>2. RemoveAt(l, Len(l)) \in Seq(S)
    BY <1>1, RemoveAtProps
  <1>3. Len(RemoveAt(l, Len(l))) = Len(l) - 1
    BY <1>1, RemoveAtProps
  <1>4. \A j \in 1 .. Len(l) - 1 :
          RemoveAt(l, Len(l))[j] = IF j < Len(l) THEN l[j] ELSE l[j + 1]
    BY <1>1, RemoveAtProps
  <1>5. /\ Front(l, Len(l)) \in Seq(S)
        /\ Len(Front(l, Len(l))) = Len(l) - 1
        /\ \A j \in 1 .. Len(l) - 1 : Front(l, Len(l))[j] = l[j]
    BY <1>1, FrontProps
  <1>6. RemoveAt(l, Len(l)) = Front(l, Len(l))
    BY <1>2, <1>3, <1>4, <1>5, SeqEqual
  <1> QED BY <1>6 DEF Front

(***************************************************************************)
(* The mapping in the three situations LockExclusion allows: nobody       *)
(* writing, one UnmarshalJSON filling, one Remove shifting.               *)
(***************************************************************************)
LEMMA AbsListCases ==
  ASSUME NEW l, NEW sv, NEW pcv \in [Procs -> PCs], NEW kv
  PROVE  /\ (\A q \in Procs : pcv[q] \notin {"u_loop", "r_shift"})
              => AbsListOf(l, sv, pcv, kv) = l
         /\ \A p \in Procs : pcv[p] = "u_loop" => AbsListOf(l, sv, pcv, kv) = sv
         /\ \A p \in Procs :
              (/\ pcv[p] = "r_shift"
               /\ \A q \in Procs \ {p} : pcv[q] \notin {"u_loop", "r_shift"})
              => AbsListOf(l, sv, pcv, kv) = RemoveAt(l, kv[p])
  <1>1. (\A q \in Procs : pcv[q] \notin {"u_loop", "r_shift"})
          => AbsListOf(l, sv, pcv, kv) = l
    BY DEF AbsListOf
  <1>2. \A p \in Procs : pcv[p] = "u_loop" => AbsListOf(l, sv, pcv, kv) = sv
    BY DEF AbsListOf
  <1>3. ASSUME NEW p \in Procs, pcv[p] = "r_shift",
               \A q \in Procs \ {p} : pcv[q] \notin {"u_loop", "r_shift"}
        PROVE  AbsListOf(l, sv, pcv, kv) = RemoveAt(l, kv[p])
    <2>1. (CHOOSE q \in Procs : pcv[q] = "r_shift") = p
      BY <1>3
    <2>2. ~\E q \in Procs : pcv[q] = "u_loop"
      BY <1>3
    <2> QED BY <1>3, <2>1, <2>2 DEF AbsListOf, RemoveAt
  <1> QED BY <1>1, <1>2, <1>3

\* The mapping while p alone is shifting.
LEMMA AbsShifting ==
  ASSUME NEW l, NEW sv, NEW pcv \in [Procs -> PCs], NEW kv, NEW p \in Procs,
         pcv[p] = "r_shift",
         \A q \in Procs \ {p} : pcv[q] \notin {"u_loop", "r_shift"}
  PROVE  AbsListOf(l, sv, pcv, kv) = RemoveAt(l, kv[p])
  BY AbsListCases

\* The helpers of AtomicBasicNet are those of BasicNet (both from IPAddr).
LEMMA AtomicOps ==
  /\ \A l, ip : Atomic!Scan(l, ip) = Scan(l, ip)
  /\ \A l, n : Atomic!FirstIndex(l, n) = FirstIndex(l, n)
  /\ \A l, i : Atomic!RemoveAt(l, i) = RemoveAt(l, i)
  /\ \A toks : Atomic!Parsed(toks) = Parsed(toks)
  /\ \A t : Atomic!ParsesAsCIDR(t) = ParsesAsCIDR(t)
  /\ \A ip : Atomic!validIP(ip) = validIP(ip)
  /\ Atomic!EmptyText = EmptyText
  /\ Atomic!Deny = Deny /\ Atomic!Ok = Ok /\ Atomic!ErrInvalid = ErrInvalid
  /\ Atomic!NoResult = NoResult
  BY DEF Atomic!Scan, Scan, Atomic!Contains, Contains, Atomic!Mask, Mask,
         Atomic!MinOf, MinOf, Atomic!Deny, Deny, Atomic!Panic, Panic,
         Atomic!Permit, Permit, Atomic!FirstIndex, FirstIndex,
         Atomic!NetString, NetString, Atomic!NilText, NilText, Atomic!MkText,
         MkText, Atomic!RemoveAt, RemoveAt, Atomic!Parsed, Parsed,
         Atomic!EmptyText, EmptyText, Atomic!ParseCIDR, ParseCIDR,
         Atomic!ParsesAsCIDR, ParsesAsCIDR, Atomic!validIP, validIP,
         Atomic!Ok, Ok, Atomic!ErrInvalid, ErrInvalid, Atomic!NoResult, NoResult

-----------------------------------------------------------------------------
(* The mapping under the lock.                                             *)

\* The abstract variables: the list every locked caller sees, the results
\* and the dumps.
AVars == <<AbsList, res, dumps>>

\* The definitions every step lemma opens.
USE DEF Core, TypeCore, LockExclusion, LoopIndex, PCs

\* With wl.lock free nobody is shifting or filling.
LEMMA FreeLock ==
  ASSUME NEW pcv \in [Procs -> PCs], NEW lh, lh \notin Procs,
         \A q \in Procs : pcv[q] \in {"r_shift", "u_loop"} <=> lh = q
  PROVE  \A q \in Procs : pcv[q] \notin {"u_loop", "r_shift"}
  OBVIOUS

\* With wl.lock free the abstract list is the slice itself.
LEMMA AbsFree ==
  ASSUME IInv, lockHolder = None
  PROVE  AbsList = allowlist
  <1>1. \A q \in Procs : pc[q] \notin {"u_loop", "r_shift"}
    BY ProcsAssumption DEF IInv
  <1>2. pc \in [Procs -> PCs]
    BY DEF IInv
  <1> QED BY <1>1, <1>2, AbsListCases DEF AbsList

LEMMA AbsFreePrime ==
  ASSUME IInv', lockHolder' = None
  PROVE  AbsList' = allowlist'
  <1>1. \A q \in Procs : pc'[q] \notin {"u_loop", "r_shift"}
    BY FreeLock, ProcsAssumption DEF IInv
  <1>2. pc' \in [Procs -> PCs]
    BY DEF IInv
  <1> QED BY <1>1, <1>2, AbsListCases DEF AbsList

\* A step that leaves the slice, saved, pc and k alone leaves the mapping.
LEMMA AbsSame ==
  ASSUME UNCHANGED <<allowlist, saved, pc, k>>
  PROVE  AbsList' = AbsList
  BY DEF AbsList

\* Add: a nil network is a stutter, any other is the abstract Add.
LEMMA AddRef ==
  ASSUME RInv, IInv', NEW p \in Procs, NEW n \in NetArgs, Add(p, n)
  PROVE  RInv' /\ [Atomic!Next]_AVars
  <1>1. UNCHANGED <<lockHolder, pc, k, n0, out, input, res, dumps, saved>>
    BY DEF Add
  <1>2. CASE n = Nil
    <2>1. UNCHANGED allowlist
      BY <1>2 DEF Add
    <2>2. UNCHANGED AVars
      BY <1>1, <2>1, AbsSame DEF AVars
    <2>3. (NoMarshal /\ FillInv)'
      BY <1>1, <2>1 DEF RInv, NoMarshal, FillInv, Fill
    <2> QED BY <2>2, <2>3 DEF RInv
  <1>3. CASE n # Nil
    <2>1. lockHolder = None /\ allowlist' = Append(allowlist, n)
      BY <1>3 DEF Add
    <2>2. AbsList = allowlist /\ AbsList' = allowlist'
      BY <1>1, <2>1, AbsFree, AbsFreePrime DEF RInv
    <2>3. Atomic!Add(p, n)
      BY <1>1, <1>3, <2>1, <2>2 DEF Atomic!Add
    <2>4. Atomic!Next
      BY <2>3 DEF Atomic!Next
    <2>5. \A q \in Procs : pc'[q] # "u_loop"
      BY <1>1, <2>1, FreeLock, ProcsAssumption DEF RInv, IInv
    <2>6. (NoMarshal /\ FillInv)'
      BY <1>1, <2>5 DEF RInv, NoMarshal, FillInv
    <2> QED BY <2>4, <2>6 DEF RInv
  <1> QED BY <1>2, <1>3

\* Permitted: an invalid address is refused before the lock; a valid one is
\* scanned under it, so the scan reads the slice with nobody writing.
LEMMA PermittedRef ==
  ASSUME RInv, IInv', NEW p \in Procs, NEW ip \in IPArgs, Permitted(p, ip)
  PROVE  RInv' /\ [Atomic!Next]_AVars
  <1>1. UNCHANGED <<allowlist, lockHolder, pc, k, n0, out, input, dumps, saved>>
    BY DEF Permitted
  <1>2. AbsList' = AbsList
    BY <1>1, AbsSame
  <1>3. (NoMarshal /\ FillInv)'
    BY <1>1 DEF RInv, NoMarshal, FillInv, Fill
  <1>4. res' = [res EXCEPT ![p] = IF validIP(ip) THEN Scan(AbsList, ip) ELSE Deny]
    <2>1. CASE validIP(ip)
      <3>1. AbsList = allowlist
        BY <2>1, AbsFree DEF Permitted, RInv
      <3> QED BY <2>1, <3>1 DEF Permitted
    <2>3. CASE ~validIP(ip)
      BY <2>3 DEF Permitted
    <2> QED BY <2>1, <2>3
  <1>5. Atomic!Permitted(p, ip)
    BY <1>1, <1>2, <1>4, AtomicOps DEF Atomic!Permitted
  <1>6. Atomic!Next
    BY <1>5 DEF Atomic!Next
  <1> QED BY <1>3, <1>6 DEF RInv

\* Remove takes effect where it takes the lock: a nil network or one not
\* on the list is a stutter, and otherwise the abstract list loses the
\* first match at once, though the slice still holds it.
LEMMA RemoveFindRef ==
  ASSUME RInv, IInv', NEW p \in Procs, NEW n \in NetArgs, RemoveFind(p, n)
  PROVE  RInv' /\ [Atomic!Next]_AVars
  <1> DEFINE index == FirstIndex(allowlist, n)
  <1>1. UNCHANGED <<allowlist, n0, out, input, res, dumps, saved>>
    BY DEF RemoveFind
  <1>2. CASE UNCHANGED <<lockHolder, pc, k>>
    <2>1. UNCHANGED AVars
      BY <1>1, <1>2, AbsSame DEF AVars
    <2>2. (NoMarshal /\ FillInv)'
      BY <1>1, <1>2 DEF RInv, NoMarshal, FillInv, Fill
    <2> QED BY <2>1, <2>2 DEF RInv
  <1>3. CASE /\ n # Nil /\ lockHolder = None /\ index # -1
             /\ lockHolder' = p
             /\ k' = [k EXCEPT ![p] = index]
             /\ pc' = [pc EXCEPT ![p] = "r_shift"]
    <2>1. \A q \in Procs : pc[q] \notin {"u_loop", "r_shift"}
      BY <1>3, ProcsAssumption DEF RInv, IInv
    <2>2. AbsList = allowlist
      BY <1>3, AbsFree DEF RInv
    <2>3. /\ pc' \in [Procs -> PCs] /\ pc'[p] = "r_shift"
          /\ \A q \in Procs \ {p} : pc'[q] \notin {"u_loop", "r_shift"}
      BY <1>3, <2>1 DEF RInv, IInv
    <2>4. AbsList' = RemoveAt(allowlist, index)
      <3>1. AbsListOf(allowlist, saved, pc', k') = RemoveAt(allowlist, k'[p])
        BY <2>3, AbsListCases
      <3>2. k'[p] = index
        BY <1>3 DEF RInv, IInv
      <3> QED BY <1>1, <3>1, <3>2 DEF AbsList
    <2>5. Atomic!Remove(p, n)
      BY <1>1, <1>3, <2>2, <2>4, AtomicOps DEF Atomic!Remove
    <2>6. Atomic!Next
      BY <2>5 DEF Atomic!Next
    <2>7. (NoMarshal /\ FillInv)'
      BY <1>1, <1>3, <2>3 DEF RInv, NoMarshal, FillInv
    <2> QED BY <2>6, <2>7 DEF RInv
  <1> QED BY <1>2, <1>3 DEF RemoveFind

\* Remove's shift: the abstract list already lacks the removed entry, and
\* moving the next entry down one slot does not change that.
LEMMA RemoveShiftRef ==
  ASSUME RInv, IInv', NEW p \in Procs, RemoveShift(p)
  PROVE  RInv' /\ [Atomic!Next]_AVars
  <1>1. /\ pc[p] = "r_shift" /\ k[p] \in 1 .. Len(allowlist) - 1
        /\ allowlist' = [allowlist EXCEPT ![k[p]] = allowlist[k[p] + 1]]
        /\ k' = [k EXCEPT ![p] = k[p] + 1]
        /\ UNCHANGED <<lockHolder, pc, n0, out, input, res, dumps, saved>>
    BY DEF RemoveShift, RInv, IInv
  <1>2. \A q \in Procs \ {p} : pc[q] \notin {"u_loop", "r_shift"}
    BY <1>1 DEF RInv, IInv
  <1>3. pc \in [Procs -> PCs] /\ allowlist \in Seq(Entries)
    BY DEF RInv, IInv
  <1>0. pc[p] = "r_shift"
    BY <1>1
  <1>4. AbsList = RemoveAt(allowlist, k[p])
    <2>1. AbsListOf(allowlist, saved, pc, k) = RemoveAt(allowlist, k[p])
      <3>1. (CHOOSE q \in Procs : pc[q] = "r_shift") = p
        BY <1>0, <1>2
      <3>2. ~\E q \in Procs : pc[q] = "u_loop"
        BY <1>0, <1>2
      <3> QED BY <1>0, <3>1, <3>2 DEF AbsListOf, RemoveAt
    <2> QED BY <2>1 DEF AbsList
  <1>5. AbsList' = RemoveAt(allowlist', k'[p])
    <2>1. UNCHANGED <<pc, saved>>
      BY <1>1
    <2>2. AbsListOf(allowlist', saved, pc, k') = RemoveAt(allowlist', k'[p])
      BY <1>0, <1>2, <1>3, AbsShifting
    <2> QED BY <2>1, <2>2 DEF AbsList
  <1>6. RemoveAt(allowlist', k'[p]) = RemoveAt(allowlist, k[p])
    <2>1. k'[p] = k[p] + 1
      BY <1>1 DEF RInv, IInv
    <2> QED BY <1>1, <1>3, <2>1, ShiftKeepsRemoved
  <1>7. UNCHANGED AVars
    BY <1>1, <1>4, <1>5, <1>6 DEF AVars
  <1>8. (NoMarshal /\ FillInv)'
    BY <1>1, <1>2 DEF RInv, NoMarshal, FillInv
  <1> QED BY <1>7, <1>8 DEF RInv

\* Remove's truncation: the slice becomes the abstract list it stood for.
LEMMA RemoveTruncateRef ==
  ASSUME RInv, IInv', NEW p \in Procs, RemoveTruncate(p)
  PROVE  RInv' /\ [Atomic!Next]_AVars
  <1>1. /\ pc[p] = "r_shift" /\ k[p] = Len(allowlist) /\ Len(allowlist) >= 1
        /\ allowlist' = SubSeq(allowlist, 1, Len(allowlist) - 1)
        /\ lockHolder' = None
        /\ pc' = [pc EXCEPT ![p] = "idle"]
        /\ UNCHANGED <<k, n0, out, input, res, dumps, saved>>
    BY DEF RemoveTruncate, RInv, IInv
  <1>2. \A q \in Procs \ {p} : pc[q] \notin {"u_loop", "r_shift"}
    BY <1>1 DEF RInv, IInv
  <1>3. pc \in [Procs -> PCs] /\ allowlist \in Seq(Entries)
    BY DEF RInv, IInv
  <1>0. pc[p] = "r_shift" /\ k[p] = Len(allowlist)
    BY <1>1
  <1>4. AbsList = RemoveAt(allowlist, Len(allowlist))
    <2>1. AbsListOf(allowlist, saved, pc, k) = RemoveAt(allowlist, k[p])
      <3>1. (CHOOSE q \in Procs : pc[q] = "r_shift") = p
        BY <1>0, <1>2
      <3>2. ~\E q \in Procs : pc[q] = "u_loop"
        BY <1>0, <1>2
      <3> QED BY <1>0, <3>1, <3>2 DEF AbsListOf, RemoveAt
    <2> QED BY <1>0, <2>1 DEF AbsList
  <1>5. AbsList' = allowlist'
    BY <1>1, AbsFreePrime
  <1>6. UNCHANGED AVars
    BY <1>1, <1>3, <1>4, <1>5, RemoveLast DEF AVars
  <1>7. (NoMarshal /\ FillInv)'
    BY <1>1, <1>2 DEF RInv, NoMarshal, FillInv
  <1> QED BY <1>6, <1>7 DEF RInv

\* No goroutine is a MarshalJSON caller, so its steps never happen.
LEMMA MarshalImpossible ==
  ASSUME RInv, LockedCallers, NEW p \in Procs,
         MarshalStart(p) \/ MarshalRead(p) \/ MarshalDone(p)
  PROVE  FALSE
  BY DEF MarshalStart, MarshalRead, MarshalDone, LockedCallers, RInv, NoMarshal

\* The list a fill aims at: one entry per token, nil for an empty one.
LEMMA ParsedProps ==
  ASSUME NEW toks \in Seq(Texts)
  PROVE  /\ Parsed(toks) \in Seq(Entries)
         /\ Len(Parsed(toks)) = Len(toks)
         /\ \A i \in 1 .. Len(toks) :
              Parsed(toks)[i] = IF toks[i] = EmptyText THEN Nil
                                ELSE ParseCIDR(toks[i])
  <1>1. \A i \in 1 .. Len(toks) :
          (IF toks[i] = EmptyText THEN Nil ELSE ParseCIDR(toks[i])) \in Entries
    BY ParseCIDRType DEF Entries
  <1> QED BY <1>1 DEF Parsed

\* A token that parses as a CIDR is not the empty string.
LEMMA CIDRNotEmpty ==
  ASSUME NEW t, ParsesAsCIDR(t)
  PROVE  t # EmptyText
  BY DEF ParsesAsCIDR, EmptyText, MkText

(***************************************************************************)
(* UnmarshalJSON's start: unquoted bytes are the abstract call that fails *)
(* at once; quoted bytes take the lock and empty the slice, which no      *)
(* locked caller can see, so the step is a stutter and the fill begins.   *)
(***************************************************************************)
LEMMA UnmarshalStartRef ==
  ASSUME RInv, IInv', NEW p \in Procs, NEW w \in WireArgs \cup dumps,
         UnmarshalStart(p, w)
  PROVE  RInv' /\ [Atomic!Next]_AVars
  <1>1. UNCHANGED <<n0, out, dumps>>
    BY DEF UnmarshalStart
  <1>2. CASE ~w.quoted
    <2>1. /\ res' = [res EXCEPT ![p] = ErrInvalid]
          /\ UNCHANGED <<allowlist, lockHolder, pc, k, input, saved>>
      BY <1>2 DEF UnmarshalStart
    <2>2. AbsList' = AbsList
      BY <2>1, AbsSame
    <2>3. Atomic!UnmarshalJSON(p, w)
      BY <1>2, <2>1, <2>2, AtomicOps DEF Atomic!UnmarshalJSON
    <2>4. Atomic!Next
      BY <1>1, <2>3 DEF Atomic!Next
    <2>5. (NoMarshal /\ FillInv)'
      BY <1>1, <2>1 DEF RInv, NoMarshal, FillInv, Fill
    <2> QED BY <2>4, <2>5 DEF RInv
  <1>3. CASE w.quoted
    <2>1. /\ lockHolder = None
          /\ saved' = allowlist
          /\ allowlist' = [i \in 1 .. Len(w.toks) |-> Nil]
          /\ input' = [input EXCEPT ![p] = w]
          /\ k' = [k EXCEPT ![p] = 1]
          /\ pc' = [pc EXCEPT ![p] = "u_loop"]
          /\ UNCHANGED res
      BY <1>3 DEF UnmarshalStart
    <2>2. \A q \in Procs : pc[q] \notin {"u_loop", "r_shift", "m_loop"}
      BY <2>1, ProcsAssumption DEF RInv, IInv, NoMarshal
    <2>3. AbsList = allowlist
      BY <2>1, AbsFree DEF RInv
    <2>4. AbsList' = saved'
      BY <2>1 DEF RInv, IInv, AbsList, AbsListOf
    <2>5. UNCHANGED AVars
      BY <1>1, <2>1, <2>3, <2>4 DEF AVars
    <2>6. w \in WireArgs /\ w \in Wires
      BY ArgsAssumption DEF RInv, NoMarshal
    <2>7. Fill(p)'
      <3>1. input'[p] = w /\ k'[p] = 1
        BY <2>1 DEF RInv, IInv
      <3>2. Len(allowlist') = Len(w.toks)
        BY <2>1, <2>6 DEF Wires
      <3>3. \A i \in 1 .. Len(allowlist') : allowlist'[i] = Nil
        BY <2>1, <3>2
      <3> QED BY <1>3, <2>6, <3>1, <3>3 DEF Fill
    <2>8. FillInv'
      BY <2>1, <2>2, <2>7 DEF FillInv
    <2>9. NoMarshal'
      BY <1>1, <2>1, <2>2 DEF RInv, NoMarshal
    <2> QED BY <2>5, <2>8, <2>9 DEF RInv
  <1> QED BY <1>2, <1>3

(***************************************************************************)
(* One token of the fill: an empty or parsing token is invisible (the     *)
(* abstract list is still the one the call replaced); a bad token is the  *)
(* abstract call that fails and leaves the list empty.                    *)
(***************************************************************************)
LEMMA UnmarshalTokenRef ==
  ASSUME RInv, IInv', NEW p \in Procs, UnmarshalToken(p)
  PROVE  RInv' /\ [Atomic!Next]_AVars
  <1> DEFINE w == input[p]
             toks == w.toks
             tok == toks[k[p]]
  <1>1. /\ pc[p] = "u_loop" /\ lockHolder = p
        /\ k[p] \in 1 .. Len(toks) /\ Len(allowlist) = Len(toks)
        /\ pc \in [Procs -> PCs]
        /\ UNCHANGED <<n0, out, input, dumps, saved>>
    BY DEF UnmarshalToken, RInv, IInv
  <1>2. \A q \in Procs \ {p} : pc[q] \notin {"u_loop", "r_shift", "m_loop"}
    BY <1>1 DEF RInv, IInv, NoMarshal
  <1>3. Fill(p)
    BY <1>1 DEF RInv, FillInv
  <1>4. AbsList = saved
    BY <1>1 DEF AbsList, AbsListOf
  <1>5. toks \in Seq(Texts) /\ allowlist \in Seq(Entries)
    BY DEF RInv, IInv, Wires
  <1>6. CASE tok = EmptyText
    <2>1. /\ k' = [k EXCEPT ![p] = k[p] + 1]
          /\ UNCHANGED <<allowlist, lockHolder, pc, res>>
      BY <1>6, CIDRNotEmpty DEF UnmarshalToken
    <2>2. UNCHANGED AVars
      BY <1>1, <1>4, <2>1 DEF AVars, AbsList, AbsListOf
    <2>3. Fill(p)'
      <3>1. k'[p] = k[p] + 1
        BY <2>1 DEF RInv, IInv
      <3>2. Parsed(toks)[k[p]] = Nil
        BY <1>1, <1>5, <1>6, ParsedProps
      <3>3. \A i \in 1 .. Len(allowlist) :
              allowlist[i] = IF i < k[p] + 1 THEN Parsed(toks)[i] ELSE Nil
        BY <1>1, <1>3, <3>2 DEF Fill
      <3>4. \A i \in 1 .. k[p] : toks[i] = EmptyText \/ ParsesAsCIDR(toks[i])
        BY <1>1, <1>3, <1>6 DEF Fill
      <3>5. /\ input'[p] = w /\ allowlist' = allowlist
            /\ 1 .. k'[p] - 1 = 1 .. k[p]
        <4>1. input'[p] = w /\ allowlist' = allowlist
          BY <1>1, <2>1
        <4>2. k[p] \in Nat
          BY <1>1
        <4> QED BY <3>1, <4>1, <4>2
      <3>6. input'[p].quoted /\ input'[p] \in WireArgs
        BY <1>3, <3>5 DEF Fill
      <3>7. \A i \in 1 .. k'[p] - 1 :
              input'[p].toks[i] = EmptyText \/ ParsesAsCIDR(input'[p].toks[i])
        BY <3>4, <3>5
      <3>8. \A i \in 1 .. Len(allowlist') :
              allowlist'[i] = IF i < k'[p] THEN Parsed(input'[p].toks)[i] ELSE Nil
        BY <3>1, <3>3, <3>5
      <3> QED BY <3>6, <3>7, <3>8 DEF Fill
    <2>4. (NoMarshal /\ FillInv)'
      BY <1>1, <1>2, <2>1, <2>3 DEF RInv, NoMarshal, FillInv
    <2> QED BY <2>2, <2>4 DEF RInv
  <1>7. CASE tok # EmptyText /\ ~ParsesAsCIDR(tok)
    <2>1. /\ allowlist' = << >>
          /\ res' = [res EXCEPT ![p] = ErrInvalid]
          /\ lockHolder' = None
          /\ pc' = [pc EXCEPT ![p] = "idle"]
      BY <1>7 DEF UnmarshalToken
    <2>2. AbsList' = << >>
      BY <2>1, AbsFreePrime
    <2>3. k[p] \in {i \in 1 .. Len(toks) : toks[i] # EmptyText
                                           /\ ~ParsesAsCIDR(toks[i])}
      BY <1>1, <1>7
    <2>4. Atomic!UnmarshalJSON(p, w)
      BY <1>3, <2>1, <2>2, <2>3, AtomicOps DEF Atomic!UnmarshalJSON, Fill
    <2>5. w \in WireArgs
      BY <1>3 DEF Fill
    <2>6. Atomic!Next
      BY <1>1, <2>4, <2>5 DEF Atomic!Next
    <2>7. (NoMarshal /\ FillInv)'
      BY <1>1, <1>2, <2>1 DEF RInv, NoMarshal, FillInv
    <2> QED BY <2>6, <2>7 DEF RInv
  <1>8. CASE ParsesAsCIDR(tok)
    <2>1. /\ allowlist' = [allowlist EXCEPT ![k[p]] = ParseCIDR(tok)]
          /\ k' = [k EXCEPT ![p] = k[p] + 1]
          /\ UNCHANGED <<lockHolder, pc, res>>
      BY <1>8, CIDRNotEmpty DEF UnmarshalToken
    <2>2. UNCHANGED AVars
      BY <1>1, <1>4, <2>1 DEF AVars, AbsList, AbsListOf
    <2>3. Fill(p)'
      <3>1. k'[p] = k[p] + 1
        BY <2>1 DEF RInv, IInv
      <3>2. Parsed(toks)[k[p]] = ParseCIDR(tok)
        BY <1>1, <1>5, <1>8, CIDRNotEmpty, ParsedProps
      <3>3. Len(allowlist') = Len(allowlist)
        BY <1>1, <1>5, <2>1
      <3>4. \A i \in 1 .. Len(allowlist) :
              allowlist'[i] = IF i < k[p] + 1 THEN Parsed(toks)[i] ELSE Nil
        BY <1>1, <1>3, <2>1, <3>2 DEF Fill
      <3>5. \A i \in 1 .. k[p] : toks[i] = EmptyText \/ ParsesAsCIDR(toks[i])
        BY <1>1, <1>3, <1>8 DEF Fill
      <3>6. input'[p] = w /\ 1 .. k'[p] - 1 = 1 .. k[p]
        <4>1. input'[p] = w
          BY <1>1
        <4>2. k[p] \in Nat
          BY <1>1
        <4> QED BY <3>1, <4>1, <4>2
      <3>7. input'[p].quoted /\ input'[p] \in WireArgs
        BY <1>3, <3>6 DEF Fill
      <3>8. \A i \in 1 .. k'[p] - 1 :
              input'[p].toks[i] = EmptyText \/ ParsesAsCIDR(input'[p].toks[i])
        BY <3>5, <3>6
      <3>9. \A i \in 1 .. Len(allowlist') :
              allowlist'[i] = IF i < k'[p] THEN Parsed(input'[p].toks)[i] ELSE Nil
        BY <3>1, <3>3, <3>4, <3>6
      <3> QED BY <3>7, <3>8, <3>9 DEF Fill
    <2>4. (NoMarshal /\ FillInv)'
      BY <1>1, <1>2, <2>1, <2>3 DEF RInv, NoMarshal, FillInv
    <2> QED BY <2>2, <2>4 DEF RInv
  <1> QED BY <1>6, <1>7, <1>8 DEF UnmarshalToken

(***************************************************************************)
(* UnmarshalJSON's end: every token parsed or was empty, the slice is     *)
(* Parsed of the tokens, and the fill becomes visible as the abstract     *)
(* call that succeeds.                                                    *)
(***************************************************************************)
LEMMA UnmarshalDoneRef ==
  ASSUME RInv, IInv', NEW p \in Procs, UnmarshalDone(p)
  PROVE  RInv' /\ [Atomic!Next]_AVars
  <1> DEFINE w == input[p]
             toks == w.toks
  <1>1. /\ pc[p] = "u_loop" /\ lockHolder = p
        /\ k[p] \in Nat /\ k[p] > Len(toks) /\ Len(allowlist) = Len(toks)
        /\ pc \in [Procs -> PCs]
        /\ res' = [res EXCEPT ![p] = Ok]
        /\ lockHolder' = None
        /\ pc' = [pc EXCEPT ![p] = "idle"]
        /\ UNCHANGED <<allowlist, k, n0, out, input, dumps, saved>>
    BY DEF UnmarshalDone, RInv, IInv
  <1>2. \A q \in Procs \ {p} : pc[q] \notin {"u_loop", "r_shift", "m_loop"}
    BY <1>1 DEF RInv, IInv, NoMarshal
  <1>3. Fill(p)
    BY <1>1 DEF RInv, FillInv
  <1>4. toks \in Seq(Texts) /\ allowlist \in Seq(Entries)
    BY DEF RInv, IInv, Wires
  <1>5. allowlist = Parsed(toks)
    <2>1. \A i \in 1 .. Len(allowlist) : allowlist[i] = Parsed(toks)[i]
      BY <1>1, <1>3 DEF Fill
    <2>2. Parsed(toks) \in Seq(Entries) /\ Len(Parsed(toks)) = Len(toks)
      BY <1>4, ParsedProps
    <2> QED BY <1>1, <1>4, <2>1, <2>2, SeqEqual
  <1>6. {i \in 1 .. Len(toks) : toks[i] # EmptyText /\ ~ParsesAsCIDR(toks[i])} = {}
    BY <1>1, <1>3 DEF Fill
  <1>7. AbsList' = allowlist'
    BY <1>1, AbsFreePrime
  <1>8. Atomic!UnmarshalJSON(p, w)
    BY <1>1, <1>3, <1>5, <1>6, <1>7, AtomicOps DEF Atomic!UnmarshalJSON, Fill
  <1>9. Atomic!Next
    <2>1. w \in WireArgs
      BY <1>3 DEF Fill
    <2> QED BY <1>1, <1>8, <2>1 DEF Atomic!Next
  <1>10. (NoMarshal /\ FillInv)'
    BY <1>1, <1>2 DEF RInv, NoMarshal, FillInv
  <1> QED BY <1>9, <1>10 DEF RInv

-----------------------------------------------------------------------------
(* The refinement.                                                         *)

\* Every goroutine starts idle, so the fill invariant holds vacuously.
LEMMA InitRInv == Init => RInv
  <1> SUFFICES ASSUME Init PROVE RInv
    OBVIOUS
  <1>1. IInv
    BY InitIInv
  <1> QED BY <1>1 DEF Init, RInv, NoMarshal, FillInv

\* The empty list with no results and no dumps is the abstract start.
LEMMA InitRef == Init => Atomic!Init
  <1> SUFFICES ASSUME Init PROVE Atomic!Init
    OBVIOUS
  <1>1. AbsList = allowlist
    BY InitIInv, AbsFree DEF Init
  <1> QED BY <1>1, AtomicOps DEF Init, Atomic!Init

\* Each step keeps RInv and is a step of AtomicBasicNet or a stutter of it.
LEMMA RefStep ==
  ASSUME LockedCallers, RInv, [Next]_vars
  PROVE  RInv' /\ [Atomic!Next]_AVars
  <1>1. IInv'
    BY IInvStep DEF RInv
  <1>2. CASE UNCHANGED vars
    BY <1>2 DEF vars, RInv, IInv, SeenOK, NoMarshal, FillInv, Fill, AVars,
                AbsList
  <1>3. CASE Next
    <2> PICK p \in Procs :
          \/ \E ip \in IPArgs : Permitted(p, ip) /\ Observe
          \/ \E n \in NetArgs : Add(p, n) /\ Observe
          \/ \E n \in NetArgs : RemoveFind(p, n) /\ Observe
          \/ RemoveShift(p) /\ Observe
          \/ RemoveTruncate(p) /\ Observe
          \/ MarshalStart(p) /\ Observe
          \/ MarshalRead(p) /\ Observe
          \/ MarshalDone(p) /\ Observe
          \/ \E w \in WireArgs \cup dumps : UnmarshalStart(p, w) /\ Observe
          \/ UnmarshalToken(p) /\ Observe
          \/ UnmarshalDone(p) /\ Observe
      BY <1>3 DEF Next
    <2>1. CASE \E ip \in IPArgs : Permitted(p, ip)
      BY <1>1, <2>1, PermittedRef
    <2>2. CASE \E n \in NetArgs : Add(p, n)
      BY <1>1, <2>2, AddRef
    <2>3. CASE \E n \in NetArgs : RemoveFind(p, n)
      BY <1>1, <2>3, RemoveFindRef
    <2>4. CASE RemoveShift(p)
      BY <1>1, <2>4, RemoveShiftRef
    <2>5. CASE RemoveTruncate(p)
      BY <1>1, <2>5, RemoveTruncateRef
    <2>6. CASE MarshalStart(p) \/ MarshalRead(p) \/ MarshalDone(p)
      BY <2>6, MarshalImpossible
    <2>7. CASE \E w \in WireArgs \cup dumps : UnmarshalStart(p, w)
      BY <1>1, <2>7, UnmarshalStartRef
    <2>8. CASE UnmarshalToken(p)
      BY <1>1, <2>8, UnmarshalTokenRef
    <2>9. CASE UnmarshalDone(p)
      BY <1>1, <2>9, UnmarshalDoneRef
    <2> QED BY <2>1, <2>2, <2>3, <2>4, <2>5, <2>6, <2>7, <2>8, <2>9
  <1> QED BY <1>2, <1>3

(***************************************************************************)
(* Linearizability of net.go's locked methods: when no goroutine calls    *)
(* MarshalJSON, every behaviour of BasicNet, with Remove's shift and      *)
(* UnmarshalJSON's fill interleaved with the other calls, is a behaviour  *)
(* of AtomicBasicNet under the mapping AbsList, whatever the goroutines,  *)
(* arguments and bounds.  Remove takes effect when it takes wl.lock, and  *)
(* UnmarshalJSON when its fill ends or fails.                             *)
(***************************************************************************)
THEOREM LockedRefinement ==
  ASSUME LockedCallers
  PROVE  Spec => RefinesAtomic
  <1>1. Init => RInv
    BY InitRInv
  <1>2. Init => Atomic!Init
    BY InitRef
  <1>3. RInv /\ [Next]_vars => RInv' /\ [Atomic!Next]_AVars
    BY RefStep
  <1> QED BY <1>1, <1>2, <1>3, PTL DEF Spec, RefinesAtomic, Atomic!Spec, AVars
=============================================================================
