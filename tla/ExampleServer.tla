---------------------------- MODULE ExampleServer ----------------------------
(***************************************************************************)
(* The example file server (example/example_allowlist.go) composed with   *)
(* the gating handlers and the address lookup (the code in                *)
(* allowlist/README.md).  main builds two Basic lists: wl, which guards   *)
(* /files/ and which the admin handlers edit, and adminWL, which guards   *)
(* /add, /del and /dump and is never written after main.  Each request    *)
(* runs on its own goroutine: ServeHTTP looks up the caller's address and *)
(* asks the route's list (one step, under that list's mutex), and the     *)
(* allow handler then runs as a step of its own, after the mutex is       *)
(* released.  wl is the Basic of module Basic, and the handlers call its  *)
(* actions; Procs, the goroutines of Basic, are here the requests.        *)
(***************************************************************************)
EXTENDS Basic

CONSTANTS
  DenyRoutes    \* routes built with a non-nil deny handler (none in main)

\* The routes main registers.
Routes == {"files", "add", "del", "dump"}
AdminRoutes == {"add", "del", "dump"}

\* A request: its route, its RemoteAddr (the host part, and whether it
\* has a port SplitHostPort accepts) and its form value "ip".
Requests == [route : Routes, host : HostTexts, port : BOOLEAN, form : HostTexts]

\* What a request is answered with; DenyDelegate is the deny handler's reply.
NoResp == 0
DenyDelegate == 1
Statuses == {NoResp, DenyDelegate, 200, 401, 500}

ASSUME ServerAssumption == /\ Procs \subseteq Requests
                           /\ DenyRoutes \subseteq Routes

VARIABLES
  pc,           \* pc[r]: "new", "allowed" (past the gate) or "done"
  resp          \* resp[r]: the status written to r's ResponseWriter

allvars == <<vars, pc, resp>>

\* The addresses main puts on the lists: net.IP{127, 0, 0, 1} (4 bytes)
\* and net.ParseIP("::1") (16 bytes).
Loopback4 == [len |-> 4, fam |-> 4, v |-> 1]
Loopback6 == [len |-> 16, fam |-> 6, v |-> 1]

\* adminWL after main's two Adds; nothing writes it afterwards.
AdminKeys == {IPString(Loopback4), IPString(Loopback6)}
AdminACL == [keys |-> AdminKeys, isNil |-> FALSE]

(***************************************************************************)
(* HTTPRequestLookup: a RemoteAddr without a port is an error; otherwise  *)
(* the result is net.ParseIP of the host, with a nil error even when the  *)
(* host does not parse (ip is then nil).                                  *)
(***************************************************************************)
HTTPRequestLookup(r) ==
  IF r.port THEN [err |-> FALSE, ip |-> ParseIP(r.host)]
  ELSE [err |-> TRUE, ip |-> NilIP]

\* Mutant: the admin handlers built over wl instead of adminWL.
ACLOfFilesList(route) == [keys |-> allowlist, isNil |-> mapNil]

\* The list main gives NewHandler or NewHandlerFunc for a route.
ACLOf(route) ==
  IF route = "files" THEN [keys |-> allowlist, isNil |-> mapNil]
  ELSE AdminACL

\* Basic.Permitted on a list, read under its mutex.
Permits(acl, ip) == validIP(ip) /\ Lookup(acl.keys, acl.isNil, ip)

Answer(r, status) == /\ resp' = [resp EXCEPT ![r] = status]
                     /\ pc' = [pc EXCEPT ![r] = "done"]

\* Mutant: a denial with no deny handler returns without http.Error, and
\* net/http then answers with its implicit 200.
ServeHTTPNoError(r) ==
  LET lk == HTTPRequestLookup(r)
  IN  /\ pc[r] = "new"
      /\ \/ lk.err /\ Answer(r, 500)
         \/ ~lk.err /\ Permits(ACLOf(r.route), lk.ip)
            /\ pc' = [pc EXCEPT ![r] = "allowed"] /\ UNCHANGED resp
         \/ ~lk.err /\ ~Permits(ACLOf(r.route), lk.ip)
            /\ Answer(r, IF r.route \in DenyRoutes THEN DenyDelegate ELSE 200)
      /\ UNCHANGED vars

(***************************************************************************)
(* Handler.ServeHTTP and HandlerFunc.ServeHTTP (the same code): a lookup  *)
(* error is answered 500; a permitted address goes on to the allow        *)
(* handler; otherwise the deny handler runs, or 401 without one.          *)
(***************************************************************************)
ServeHTTP(r) ==
  LET lk == HTTPRequestLookup(r)
  IN  /\ pc[r] = "new"
      /\ \/ lk.err /\ Answer(r, 500)
         \/ ~lk.err /\ Permits(ACLOf(r.route), lk.ip)
            /\ pc' = [pc EXCEPT ![r] = "allowed"] /\ UNCHANGED resp
         \/ ~lk.err /\ ~Permits(ACLOf(r.route), lk.ip)
            /\ Answer(r, IF r.route \in DenyRoutes THEN DenyDelegate ELSE 401)
      /\ UNCHANGED vars

\* The allow handlers.  addIP: wl.Add(net.ParseIP(addr)), which ignores
\* nil, and "Added ..." is written whatever Add did.
AddIP(r) ==
  /\ pc[r] = "allowed" /\ r.route = "add"
  /\ Add(r, ParseIP(r.form))
  /\ Answer(r, 200)

\* delIP: wl.Remove(net.ParseIP(addr)) and "Removed ...".
DelIP(r) ==
  /\ pc[r] = "allowed" /\ r.route = "del"
  /\ Remove(r, ParseIP(r.form))
  /\ Answer(r, 200)

(***************************************************************************)
(* dumpAllowlist: json.Marshal(wl) calls wl.MarshalJSON and checks that   *)
(* its output is valid JSON; it is, since every key wl holds here came    *)
(* from Add and is an ip.String(), so the 500 branch is not taken.        *)
(***************************************************************************)
DumpAllowlist(r) ==
  /\ pc[r] = "allowed" /\ r.route = "dump"
  /\ MarshalJSON(r)
  /\ Answer(r, IF \A t \in allowlist : t.kind = "canon" THEN 200 ELSE 500)

\* The file server behind StripPrefix("/files/", ...).
ServeFile(r) ==
  /\ pc[r] = "allowed" /\ r.route = "files"
  /\ Answer(r, 200)
  /\ UNCHANGED vars

\* main: wl.Add(net.IP{127, 0, 0, 1}) on a NewBasic(); adminWL is AdminKeys.
ServerInit ==
  /\ allowlist = {IPString(Loopback4)}
  /\ mapNil = FALSE
  /\ res = [p \in Procs |-> NoResult]
  /\ jdumps = {}
  /\ ddumps = {}
  /\ hosts = {Loopback4}
  /\ ops = 0
  /\ pc = [r \in Procs |-> "new"]
  /\ resp = [r \in Procs |-> NoResp]

\* Every step of one request's goroutine.
Request(r) == ServeHTTP(r) \/ AddIP(r) \/ DelIP(r) \/ DumpAllowlist(r) \/ ServeFile(r)

\* Every request has been answered and nothing more happens.
Served == /\ \A r \in Procs : pc[r] = "done"
          /\ UNCHANGED allvars

ServerNext == (\E r \in Procs : Request(r)) \/ Served

ServerSpec == ServerInit /\ [][ServerNext]_allvars

-----------------------------------------------------------------------------
(***************************************************************************)
(* Properties.                                                            *)
(***************************************************************************)

\* The caller's address as the gate sees it.
ClientIP(r) == HTTPRequestLookup(r).ip

(***************************************************************************)
(* Only administrators edit the file list: every step that changes wl is  *)
(* the add or del handler of a request whose address adminWL permits.   *)
(* It rests on main handing adminWL, not wl, to the admin handlers, and   *)
(* on the gate running before them on the same goroutine.                 *)
(***************************************************************************)
AdminOnlyMutates ==
  [][allowlist' # allowlist =>
       \E r \in Procs : /\ pc[r] = "allowed" /\ pc'[r] = "done"
                        /\ r.route \in {"add", "del"}
                        /\ Permits(AdminACL, ClientIP(r))]_allvars

(***************************************************************************)
(* The local administrator is never locked out: a request to an admin     *)
(* route from 127.0.0.1 or ::1, however the stack spells it, is never     *)
(* answered 401.  The lookup gives the 16-byte form of 127.0.0.1 while    *)
(* main added the 4-byte one, so this rests on ip.String() giving both    *)
(* one key.                                                               *)
(***************************************************************************)
LocalAdminServed ==
  \A r \in Procs :
    (r.route \in AdminRoutes /\ r.port
       /\ ParseIP(r.host) \in {[Loopback4 EXCEPT !.len = 16], Loopback6})
      => resp[r] # 401

(***************************************************************************)
(* A refused caller never sees success on an admin route: a request to    *)
(* /add, /del or /dump answered 200 came from an address adminWL permits. *)
(* The 200 is written by the allow handler, a later step than the gate's  *)
(* verdict; and a gate that refused without http.Error would leave        *)
(* net/http to answer 200 for it.                                         *)
(***************************************************************************)
AdminSuccessPermitted ==
  \A r \in Procs :
    (r.route \in AdminRoutes /\ resp[r] = 200) => Permits(AdminACL, ClientIP(r))

(***************************************************************************)
(* Spec section 6: the lookup fails with an extraction error when the     *)
(* remote address cannot be parsed, and an extraction failure is         *)
(* answered with an internal server error.                                *)
(***************************************************************************)
UnparsableAddressIs500 ==
  \A r \in Procs : (resp[r] # NoResp /\ ParseIP(r.host) = NilIP) => resp[r] = 500
=============================================================================
