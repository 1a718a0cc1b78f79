------------------------- MODULE ExampleServerProofs -------------------------
(***************************************************************************)
(* Proof that only administrators edit the file list of the example       *)
(* server, for every set of requests and deny handlers.  The gate and the *)
(* handler that writes wl are two steps of a request's goroutine, so the  *)
(* action property needs an invariant that carries the gate's verdict to  *)
(* the later step: a request past the gate of an admin route came from an *)
(* address adminWL permits.  adminWL is never written, so the verdict     *)
(* cannot go stale.                                                       *)
(***************************************************************************)
EXTENDS ExampleServer, TLAPS

PCs == {"new", "allowed", "done"}

\* Every admin request past the gate was permitted by adminWL.
GateInv ==
  \A r \in Procs :
    (pc[r] = "allowed" /\ r.route \in AdminRoutes) => Permits(AdminACL, ClientIP(r))

IInv == pc \in [Procs -> PCs] /\ GateInv

\* The step AdminOnlyMutates allows.
AdminStep ==
  allowlist' # allowlist =>
    \E r \in Procs : /\ pc[r] = "allowed" /\ pc'[r] = "done"
                     /\ r.route \in {"add", "del"}
                     /\ Permits(AdminACL, ClientIP(r))

-----------------------------------------------------------------------------

\* main's setup puts every request before the gate.
LEMMA InitIInv == ServerInit => IInv
  BY DEF ServerInit, IInv, GateInv, PCs

\* A request that answers leaves every other request's pc alone.
LEMMA AnswerPC ==
  ASSUME NEW r \in Procs, NEW st, pc \in [Procs -> PCs], Answer(r, st)
  PROVE  /\ pc' \in [Procs -> PCs]
         /\ pc'[r] = "done"
         /\ \A q \in Procs \ {r} : pc'[q] = pc[q]
  BY DEF Answer, PCs

\* The gate keeps IInv: it lets an admin request through only on
\* adminWL's word, and otherwise answers it.
LEMMA ServeHTTPIInv ==
  ASSUME IInv, NEW r \in Procs, ServeHTTP(r)
  PROVE  IInv'
  <1> DEFINE lk == HTTPRequestLookup(r)
  <1>1. pc[r] = "new"
    BY DEF ServeHTTP
  <1>2. CASE ~lk.err /\ Permits(ACLOf(r.route), lk.ip)
             /\ pc' = [pc EXCEPT ![r] = "allowed"]
    <2>1. pc' \in [Procs -> PCs]
      BY <1>2 DEF IInv, PCs
    <2>2. r.route \in AdminRoutes => Permits(AdminACL, ClientIP(r))
      BY <1>2 DEF ACLOf, AdminRoutes, ClientIP
    <2>3. \A q \in Procs \ {r} : pc'[q] = pc[q]
      BY <1>2 DEF IInv
    <2> QED BY <2>1, <2>2, <2>3, <1>2 DEF IInv, GateInv
  <1>3. CASE \E st : Answer(r, st)
    <2>1. PICK st : Answer(r, st)
      BY <1>3
    <2> QED BY <2>1, AnswerPC DEF IInv, GateInv
  <1> QED BY <1>2, <1>3 DEF ServeHTTP

\* A handler step only answers its own request.
LEMMA HandlerIInv ==
  ASSUME IInv, NEW r \in Procs,
         AddIP(r) \/ DelIP(r) \/ DumpAllowlist(r) \/ ServeFile(r)
  PROVE  IInv'
  <1>1. PICK st : Answer(r, st)
    BY DEF AddIP, DelIP, DumpAllowlist, ServeFile
  <1> QED BY <1>1, AnswerPC DEF IInv, GateInv

LEMMA IInvStep == IInv /\ [ServerNext]_allvars => IInv'
  <1> SUFFICES ASSUME IInv, [ServerNext]_allvars PROVE IInv'
    OBVIOUS
  <1>1. CASE \E r \in Procs : ServeHTTP(r)
    BY <1>1, ServeHTTPIInv
  <1>2. CASE \E r \in Procs : AddIP(r) \/ DelIP(r) \/ DumpAllowlist(r) \/ ServeFile(r)
    BY <1>2, HandlerIInv
  <1>3. CASE UNCHANGED allvars
    BY <1>3 DEF IInv, GateInv, allvars
  <1> QED BY <1>1, <1>2, <1>3 DEF ServerNext, Request, Served

\* Only the add and del handlers write wl, and each runs past the gate.
LEMMA StepAdmin == IInv /\ [ServerNext]_allvars => [AdminStep]_allvars
  <1> SUFFICES ASSUME IInv, [ServerNext]_allvars, allowlist' # allowlist
               PROVE  AdminStep
    BY DEF AdminStep
  <1>1. CASE \E r \in Procs : AddIP(r) \/ DelIP(r)
    <2>1. PICK r \in Procs : AddIP(r) \/ DelIP(r)
      BY <1>1
    <2>2. pc[r] = "allowed" /\ r.route \in {"add", "del"}
      BY <2>1 DEF AddIP, DelIP
    <2>3. Permits(AdminACL, ClientIP(r))
      BY <2>2 DEF IInv, GateInv, AdminRoutes
    <2>4. pc'[r] = "done"
      <3>1. PICK st : Answer(r, st)
        BY <2>1 DEF AddIP, DelIP
      <3> QED BY <3>1, AnswerPC DEF IInv
    <2> QED BY <2>2, <2>3, <2>4 DEF AdminStep
  <1>2. CASE \E r \in Procs : ServeHTTP(r) \/ ServeFile(r)
    BY <1>2 DEF ServeHTTP, ServeFile, vars
  <1>3. CASE \E r \in Procs : DumpAllowlist(r)
    BY <1>3 DEF DumpAllowlist, MarshalJSON
  <1>4. CASE UNCHANGED allvars
    BY <1>4 DEF allvars, vars
  <1> QED BY <1>1, <1>2, <1>3, <1>4 DEF ServerNext, Request, Served

(***************************************************************************)
(* Only administrators edit the file list: in every behaviour of the      *)
(* example server, whatever the requests and the deny handlers, a step    *)
(* that changes wl is the add or del handler of a request adminWL        *)
(* permitted (addIP and delIP behind HandlerFunc.ServeHTTP).              *)
(***************************************************************************)
THEOREM AdminOnly == ServerSpec => AdminOnlyMutates
  <1>1. ServerInit => IInv
    BY InitIInv
  <1>2. IInv /\ [ServerNext]_allvars => IInv'
    BY IInvStep
  <1>3. IInv /\ [ServerNext]_allvars => [AdminStep]_allvars
    BY StepAdmin
  <1> QED BY <1>1, <1>2, <1>3, PTL DEF ServerSpec, AdminOnlyMutates, AdminStep

-----------------------------------------------------------------------------
(* The local administrator is never refused.                               *)

\* A request to an admin route from 127.0.0.1 or ::1, with a port.
LocalReq(r) ==
  /\ r.route \in AdminRoutes /\ r.port
  /\ ParseIP(r.host) \in {[Loopback4 EXCEPT !.len = 16], Loopback6}

RInv == resp \in [Procs -> Statuses] /\ LocalAdminServed

\* adminWL permits both loopback addresses the lookup can produce: the
\* 16-byte 127.0.0.1 has the key main's 4-byte one was stored under.
LEMMA LoopbackPermitted ==
  ASSUME NEW ip \in {[Loopback4 EXCEPT !.len = 16], Loopback6}
  PROVE  Permits(AdminACL, ip)
  BY DEF Permits, validIP, Lookup, IPString, AdminACL, AdminKeys, Loopback4, Loopback6

\* An answer writes one status and leaves every other request's alone.
LEMMA AnswerResp ==
  ASSUME NEW r \in Procs, NEW st \in Statuses, resp \in [Procs -> Statuses],
         Answer(r, st)
  PROVE  /\ resp' \in [Procs -> Statuses]
         /\ resp'[r] = st
         /\ \A q \in Procs \ {r} : resp'[q] = resp[q]
  BY DEF Answer

\* The gate answers 401 only where the route's list refuses the address,
\* and for a local admin request that list is adminWL, which permits it.
LEMMA ServeHTTPRInv ==
  ASSUME RInv, NEW r \in Procs, ServeHTTP(r)
  PROVE  RInv'
  <1> DEFINE lk == HTTPRequestLookup(r)
  <1>1. CASE lk.err /\ Answer(r, 500)
    BY <1>1, AnswerResp DEF RInv, LocalAdminServed, Statuses
  <1>2. CASE UNCHANGED resp
    BY <1>2 DEF RInv, LocalAdminServed
  <1>3. CASE ~lk.err /\ ~Permits(ACLOf(r.route), lk.ip)
             /\ Answer(r, IF r.route \in DenyRoutes THEN DenyDelegate ELSE 401)
    <2>1. LocalReq(r) => Permits(ACLOf(r.route), lk.ip)
      <3> SUFFICES ASSUME LocalReq(r) PROVE Permits(ACLOf(r.route), lk.ip)
        OBVIOUS
      <3>1. ACLOf(r.route) = AdminACL /\ lk.ip = ParseIP(r.host)
        BY DEF LocalReq, ACLOf, AdminRoutes, HTTPRequestLookup
      <3> QED BY <3>1, LoopbackPermitted DEF LocalReq
    <2>2. ~LocalReq(r)
      BY <1>3, <2>1
    <2>3. (IF r.route \in DenyRoutes THEN DenyDelegate ELSE 401) \in Statuses
      BY DEF Statuses
    <2> QED BY <1>3, <2>2, <2>3, AnswerResp DEF RInv, LocalAdminServed, LocalReq
  <1> QED BY <1>1, <1>2, <1>3 DEF ServeHTTP

\* The allow handlers answer 200, or 500 for a dump.
LEMMA HandlerRInv ==
  ASSUME RInv, NEW r \in Procs,
         AddIP(r) \/ DelIP(r) \/ DumpAllowlist(r) \/ ServeFile(r)
  PROVE  RInv'
  <1>1. PICK st \in {200, 500} : Answer(r, st)
    BY DEF AddIP, DelIP, DumpAllowlist, ServeFile
  <1> QED BY <1>1, AnswerResp DEF RInv, LocalAdminServed, Statuses

LEMMA RInvStep == RInv /\ [ServerNext]_allvars => RInv'
  <1> SUFFICES ASSUME RInv, [ServerNext]_allvars PROVE RInv'
    OBVIOUS
  <1>1. CASE \E r \in Procs : ServeHTTP(r)
    BY <1>1, ServeHTTPRInv
  <1>2. CASE \E r \in Procs : AddIP(r) \/ DelIP(r) \/ DumpAllowlist(r) \/ ServeFile(r)
    BY <1>2, HandlerRInv
  <1>3. CASE UNCHANGED allvars
    BY <1>3 DEF RInv, LocalAdminServed, allvars
  <1> QED BY <1>1, <1>2, <1>3 DEF ServerNext, Request, Served

(***************************************************************************)
(* The local administrator is never locked out: for every set of requests *)
(* and deny handlers, no request to /add, /del or /dump from 127.0.0.1 or *)
(* ::1 is answered 401 by HandlerFunc.ServeHTTP, because adminWL is never *)
(* written and ip.String() keys the lookup's 16-byte 127.0.0.1 like       *)
(* main's 4-byte one.                                                     *)
(***************************************************************************)
THEOREM LocalAdminNeverRefused == ServerSpec => []LocalAdminServed
  <1>1. ServerInit => RInv
    BY DEF ServerInit, RInv, LocalAdminServed, Statuses, NoResp
  <1>2. RInv /\ [ServerNext]_allvars => RInv'
    BY RInvStep
  <1> QED BY <1>1, <1>2, PTL DEF ServerSpec, RInv

-----------------------------------------------------------------------------
(* Success on an admin route only for adminWL's addresses.                 *)

SInv == IInv /\ resp \in [Procs -> Statuses] /\ AdminSuccessPermitted

\* The gate writes 500, 401 or the deny handler's reply, never 200.
LEMMA ServeHTTPSInv ==
  ASSUME SInv, NEW r \in Procs, ServeHTTP(r)
  PROVE  SInv'
  <1> DEFINE lk == HTTPRequestLookup(r)
  <1>1. IInv'
    BY ServeHTTPIInv DEF SInv
  <1> SUFFICES (resp \in [Procs -> Statuses] /\ AdminSuccessPermitted)'
    BY <1>1 DEF SInv
  <1>2. CASE lk.err /\ Answer(r, 500)
    BY <1>2, AnswerResp DEF SInv, AdminSuccessPermitted, Statuses
  <1>3. CASE UNCHANGED resp
    BY <1>3 DEF SInv, AdminSuccessPermitted
  <1>4. CASE ~lk.err /\ ~Permits(ACLOf(r.route), lk.ip)
             /\ Answer(r, IF r.route \in DenyRoutes THEN DenyDelegate ELSE 401)
    <2>1. (IF r.route \in DenyRoutes THEN DenyDelegate ELSE 401) \in Statuses \ {200}
      BY DEF Statuses, DenyDelegate
    <2> QED BY <1>4, <2>1, AnswerResp DEF SInv, AdminSuccessPermitted
  <1> QED BY <1>2, <1>3, <1>4 DEF ServeHTTP

\* An allow handler answers a request past the gate, which GateInv says
\* adminWL permitted when the route is an admin one.
LEMMA HandlerSInv ==
  ASSUME SInv, NEW r \in Procs,
         AddIP(r) \/ DelIP(r) \/ DumpAllowlist(r) \/ ServeFile(r)
  PROVE  SInv'
  <1>1. IInv'
    BY HandlerIInv DEF SInv
  <1>2. PICK st \in {200, 500} : Answer(r, st)
    BY DEF AddIP, DelIP, DumpAllowlist, ServeFile
  <1>3. pc[r] = "allowed"
    BY DEF AddIP, DelIP, DumpAllowlist, ServeFile
  <1>4. r.route \in AdminRoutes => Permits(AdminACL, ClientIP(r))
    BY <1>3 DEF SInv, IInv, GateInv
  <1> QED BY <1>1, <1>2, <1>4, AnswerResp DEF SInv, AdminSuccessPermitted, Statuses

LEMMA SInvStep == SInv /\ [ServerNext]_allvars => SInv'
  <1> SUFFICES ASSUME SInv, [ServerNext]_allvars PROVE SInv'
    OBVIOUS
  <1>1. CASE \E r \in Procs : ServeHTTP(r)
    BY <1>1, ServeHTTPSInv
  <1>2. CASE \E r \in Procs : AddIP(r) \/ DelIP(r) \/ DumpAllowlist(r) \/ ServeFile(r)
    BY <1>2, HandlerSInv
  <1>3. CASE UNCHANGED allvars
    BY <1>3 DEF SInv, IInv, GateInv, AdminSuccessPermitted, allvars
  <1> QED BY <1>1, <1>2, <1>3 DEF ServerNext, Request, Served

(***************************************************************************)
(* A refused caller never sees success on an admin route: for every set   *)
(* of requests and deny handlers, a request to /add, /del or /dump that   *)
(* HandlerFunc.ServeHTTP's allow handler answered 200 came from an        *)
(* address adminWL permits, because the gate answers every refusal itself *)
(* (http.Error or the deny handler) and the 200 is written only past it.  *)
(***************************************************************************)
THEOREM AdminSuccessOnlyPermitted == ServerSpec => []AdminSuccessPermitted
  <1>1. ServerInit => SInv
    BY InitIInv DEF ServerInit, SInv, AdminSuccessPermitted, Statuses, NoResp
  <1>2. SInv /\ [ServerNext]_allvars => SInv'
    BY SInvStep
  <1> QED BY <1>1, <1>2, PTL DEF ServerSpec, SInv
=============================================================================
