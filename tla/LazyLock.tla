------------------------------- MODULE LazyLock -------------------------------
(***************************************************************************)
(* UnmarshalJSON on a zero-value list (Basic{} or BasicNet{}, whose lock  *)
(* field is nil), the way json.Unmarshal calls it on a struct field:      *)
(*     if wl.lock == nil { wl.lock = new(sync.Mutex) }                    *)
(*     wl.lock.Lock()                                                     *)
(*     defer wl.lock.Unlock()                                             *)
(* The field is read and written without synchronisation, and read again  *)
(* for Lock and for the deferred Unlock.  Each read is a step of its own; *)
(* a read sees the last write (a pointer store is one word, so a racing   *)
(* read gets the old or the new pointer, and the interleavings give       *)
(* both).  The mutex a goroutine creates is named after it.  The fill     *)
(* between Lock and Unlock is one step, abstracted away: what matters is  *)
(* who is inside it at once.                                              *)
(***************************************************************************)
CONSTANTS
  Procs,        \* goroutines calling UnmarshalJSON on the same zero value
  None          \* the nil *sync.Mutex, and "no holder" (not in Procs)

VARIABLES
  lock,         \* wl.lock: None or the mutex goroutine p created
  held,         \* held[m]: the goroutine that locked mutex m, or None
  pc,           \* where each goroutine is in UnmarshalJSON
  deferred,     \* deferred[p]: the mutex `defer wl.lock.Unlock()` captured
  fatal         \* the runtime has thrown "sync: unlock of unlocked mutex"

lvars == <<lock, held, pc, deferred, fatal>>

\* The zero value: no mutex yet; every goroutine past the quote check.
Init ==
  /\ lock = None
  /\ held = [m \in Procs |-> None]
  /\ pc = [p \in Procs |-> "check"]
  /\ deferred = [p \in Procs |-> None]
  /\ fatal = FALSE

Goto(p, l) == pc' = [pc EXCEPT ![p] = l]

\* if wl.lock == nil
CheckNil(p) ==
  /\ pc[p] = "check"
  /\ Goto(p, IF lock = None THEN "create" ELSE "lock")
  /\ UNCHANGED <<lock, held, deferred, fatal>>

\* wl.lock = new(sync.Mutex)
Create(p) ==
  /\ pc[p] = "create"
  /\ lock' = p
  /\ Goto(p, "lock")
  /\ UNCHANGED <<held, deferred, fatal>>

\* wl.lock.Lock(): waits until the mutex the field now points to is free.
Lock(p) ==
  /\ pc[p] = "lock"
  /\ held[lock] = None
  /\ held' = [held EXCEPT ![lock] = p]
  /\ Goto(p, "defer")
  /\ UNCHANGED <<lock, deferred, fatal>>

\* defer wl.lock.Unlock(): the receiver is evaluated now.
Defer(p) ==
  /\ pc[p] = "defer"
  /\ deferred' = [deferred EXCEPT ![p] = lock]
  /\ Goto(p, "fill")
  /\ UNCHANGED <<lock, held, fatal>>

\* The fill ends and the deferred Unlock runs; unlocking a free mutex is a
\* fatal error of the runtime, which stops every goroutine.
Unlock(p) ==
  /\ pc[p] = "fill"
  /\ \/ /\ held[deferred[p]] # None
        /\ held' = [held EXCEPT ![deferred[p]] = None]
        /\ UNCHANGED fatal
     \/ /\ held[deferred[p]] = None
        /\ fatal' = TRUE
        /\ UNCHANGED held
  /\ Goto(p, "done")
  /\ UNCHANGED <<lock, deferred>>

Next ==
  /\ ~fatal
  /\ \E p \in Procs : CheckNil(p) \/ Create(p) \/ Lock(p) \/ Defer(p) \/ Unlock(p)

Spec == Init /\ [][Next]_lvars

-----------------------------------------------------------------------------
(***************************************************************************)
(* The lock of a zero-value list works as the spec's lock must: mutations *)
(* of a list are mutually exclusive (section 2), so no two goroutines are *)
(* inside UnmarshalJSON's fill at once, and a List method always runs to  *)
(* completion (section 5), so no deferred Unlock throws.                  *)
(***************************************************************************)
LockSound ==
  /\ \A p, q \in Procs : (p # q /\ pc[p] = "fill") => pc[q] # "fill"
  /\ ~fatal
=============================================================================
