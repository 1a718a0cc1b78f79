# TLA+ models of package allowlist

This directory holds TLA+ specifications of the `allowlist` package
(`src/unnamed/part_000`, the source of `allowlist.go` and `net.go`), TLC
configurations that model-check them, and TLAPS proofs. It also covers the
gating handlers and the address lookup whose code is in
`src/allowlist/README.md`, and the example server in
`src/allowlist/example/example_allowlist.go`.

## The system

| Part | Code | What it does |
|---|---|---|
| Address validator | `validIP` (part_000 36-49) | Accepts a `net.IP` of 4 or 16 bytes. |
| Host ACL `Basic` | part_000 51-181 | A `map[string]bool` keyed by `ip.String()`, guarded by one `sync.Mutex`. It has `Permitted`, `Add` and `Remove`, plus `MarshalJSON`/`UnmarshalJSON` (a quoted, comma-separated string) and `DumpBasic`/`LoadBasic` (newline-separated, sorted). |
| Network ACL `BasicNet` | part_000 239-351 | An ordered `[]*net.IPNet` under one mutex. `Permitted` scans for the first network that contains the address. `Add` appends. `Remove` deletes the first entry whose `String()` equals the argument's. `MarshalJSON` does **not** take the lock. `UnmarshalJSON` replaces the slice and fills it token by token. |
| `HostStub`, `NetStub` | part_000 183-211, 353-380 | Log a warning; `Permitted` is always true. |
| Zero-value lists | part_000 123-128, 327-332 | `UnmarshalJSON` on `Basic{}` or `BasicNet{}` creates the mutex itself. |
| Address lookup | README.md 176-210 | `HTTPRequestLookup` splits `RemoteAddr` and parses the host. An unparsable host gives a nil IP with a **nil** error. |
| Gating handlers | README.md 213-308 | Look up the caller's address, ask an ACL, then call the allow or deny handler or answer 401/500. |
| Example server | example_allowlist.go | A shared `Basic` behind admin handlers (add, del, dump), themselves gated by a second `Basic`. |

The lists are shared by any number of goroutines (spec section 5). That is
where the hard behaviours live:
- interleavings of the multi-step `Remove` and `UnmarshalJSON` with other calls;
- the unlocked `MarshalJSON`;
- round trips through the serialised forms;
- the string conversions (`IP.String`, `ParseIP`, `IPNet.String`, `ParseCIDR`) that decide equality.

## Modules

- **IPAddr**: abstract addresses and networks, and the conversions the
  code uses.
  - An address is a record of byte length (4, 16, or 0 for nil), family and a
    value of `AddrBits` bits.
  - A network keeps its base address unmasked, as a caller's `*net.IPNet`
    may. `ParseCIDR` masks it; `NetString` (`IPNet.String`) does not.
  - Texts are records (canonical CIDR, alternative spelling, `<nil>`,
    empty, garbage), never strings.
  - A serialised input is a `quoted` flag and the tokens that
    `strings.Split` cuts it into. `JoinQuoted` encodes the fact that the
    empty list's `""` splits into one empty token.
  - Also the helpers of the `BasicNet` methods: `Scan` (the loop of
    `Permitted`), `FirstIndex` (the search of `Remove`), `RemoveAt`
    (`append(l[:i], l[i+1:]...)`), and `Parsed` (a successful fill).
- **AtomicBasicNet**: what `BasicNet` promises. Every method is one step on
  the list, with its sequential meaning in the code, including a `Permitted`
  that panics on a nil entry.
- **BasicNet**: the network ACL as the goroutines run it. Each goroutine
  has a `pc`, a loop index `k`, and the lock holder `lockHolder`.
  - Calls under the lock that only read or only append are one step:
    `Permitted`, `Add`, and `Remove`'s search (`RemoveFind`).
  - `Remove`'s deletion takes one step per element copied (`RemoveShift`)
    and one that shortens the slice and unlocks (`RemoveTruncate`).
  - `MarshalJSON` fixes the range length (`MarshalStart`), reads each entry
    as it is then (`MarshalRead`, which panics past the end), and finishes
    (`MarshalDone`).
  - `UnmarshalJSON` fails on unquoted input, or installs `len(nets)` nil
    entries under the lock (`UnmarshalStart`), fills them one token at a
    time (`UnmarshalToken`: an empty token is skipped, a bad one sets the
    list to nil and unlocks), and ends (`UnmarshalDone`).
  - History variables: `saved` (the list an `UnmarshalJSON` replaced) and
    `seen` (the lists that existed during a goroutine's `MarshalJSON`).
  - `AbsList` maps the state to the list callers should see:
    - the replaced list while a fill is in progress;
    - the list with the entry already removed while a shift is in progress;
    - otherwise `allowlist`.
  - `Atomic == INSTANCE AtomicBasicNet WITH allowlist <- AbsList` gives the
    refinement property `RefinesAtomic`.
- **Basic**: the host ACL. Every method holds the mutex for its whole body
  and nothing reads the map without it, so each call is one step.
  - The map is its set of keys plus `mapNil` (`wl.allowlist == nil` after
    a failed `UnmarshalJSON`: it reads as empty, and a write panics).
  - `IPString` gives one key to an IPv4 address in both its 4-byte and its
    IPv4-mapped 16-byte form.
  - `UnmarshalHosts` stores tokens as written. `LoadBasic` goes through
    `Add`, so it stores canonical text, and does not skip the empty line.
  - `MarshalJSON` picks any order of the keys (Go map iteration): a
    member of `KeyOrders`, the injective sequences that list every key once.
    This is `SequencesExt`'s `SetToSeqs` written over `FiniteSets`'
    `Cardinality`, so that the proofs can reason about it.
    `DumpBasic` uses one fixed order, because the abstract texts have no
    lexicographic order and `LoadBasic` does not depend on it.
  - The history `hosts` holds the addresses, byte for byte, that the spec's
    list would hold.
- **LazyLock**: `UnmarshalJSON` on a zero-value list, from the nil check to
  the deferred `Unlock`.
  - Each read or write of the unsynchronised field `wl.lock` is a step:
    `CheckNil`, `Create`, `Lock`, `Defer` (the receiver of the deferred
    `Unlock` is evaluated there), and `Unlock` at return.
  - The fill under the lock is inside `Unlock`'s step; what matters is who
    is between `Lock` and `Unlock` at once.
  - Unlocking a free mutex sets `fatal`, a runtime throw that stops the
    program.
- **ExampleServer**: the example's `main`, composed with the gating handlers
  and `Basic`. It EXTENDS `Basic`: `wl` is `Basic`'s state, and `Basic`'s
  goroutines `Procs` are the requests. Each request is a record of its route,
  the host and port of its `RemoteAddr`, and its form value `ip`.
  - `ServerInit` is `main` up to `http.Handle`. `wl` holds `127.0.0.1`
    (4 bytes). `adminWL` is the constant `AdminKeys` (`127.0.0.1` and
    `ParseIP("::1")`), because nothing writes it after `main`.
  - `ACLOf` is the list each route's handler was built with.
  - `ServeHTTP` (`Handler.ServeHTTP` and `HandlerFunc.ServeHTTP`, the same
    code) is one step, because `Permitted` holds the list's mutex. It
    answers 500 on a lookup error, passes a permitted request on, and
    answers 401 or calls the deny handler otherwise. `DenyRoutes` lists the
    routes with a deny handler. In `main` it is empty, so no run calls a
    deny handler; that branch differs from the 401 only in the status
    written.
  - The allow handler is a later step of the same goroutine: `AddIP`,
    `DelIP` and `DumpAllowlist` call `Basic`'s `Add`, `Remove` and
    `MarshalJSON`; `ServeFile` is the file server.
  - `Served` is the stuttering step once every request is answered.
- **MCBasicNet**, **MCBasic**, **MCExampleServer**: the small instances for
  TLC.
- **BasicNetProofs**, **BasicNetRefinement**, **BasicProofs**,
  **ExampleServerProofs**: the TLAPS proofs.

## Runs

`tlc -workers 2 -config <cfg> <MC module>`, from this directory.

| Run | cfg | Expect | Shows |
|---|---|---|---|
| net_locked | MCBasicNet_locked | pass | With two goroutines and no `MarshalJSON` caller, `BasicNet` refines `AtomicBasicNet`: the lock makes `Remove` and `UnmarshalJSON` atomic to every locked caller. |
| net_all | MCBasicNet_all | pass | With every method, `TypeOK` and `LockExclusion` hold: the lock holder is exactly the goroutine inside a shift or fill. |
| net_marshal_race | MCBasicNet_marshal_race | violation | `MarshalIsSnapshot` fails: a `MarshalJSON` during a fill lists `<nil>` entries. |
| net_marshal_panic | MCBasicNet_marshal_panic | violation | `NoPanic` fails: `Remove` shortens the slice under `MarshalJSON`'s loop, which then indexes out of range. |
| net_roundtrip | MCBasicNet_roundtrip | violation | `NoPanic` fails, in one goroutine. The empty list marshals to `""`, which unmarshals to `[nil]`, and `Permitted` then panics. |
| basic_json_roundtrip | MCBasic_json_roundtrip | pass | Every `MarshalJSON` output, in any iteration order and from any map (empty and nil included), unmarshals into a map with the same membership. |
| basic_dump_roundtrip | MCBasic_dump_roundtrip | violation | `LoadBasic(DumpBasic(empty))` fails: the empty dump is one empty line. |
| basic_noncanonical | MCBasic_noncanonical | violation | A host unmarshalled in a non-canonical spelling is stored as written and never permitted. |
| basic_mapped | MCBasic_mapped | violation | After `Add` of a 4-byte IPv4 address, its IPv6-mapped form is permitted too; the spec says the two are distinct. |
| lazy_lock | LazyLock | violation | `LockSound` fails, in either of two ways. Two goroutines unmarshalling into one zero-value list both see a nil lock, each locks the mutex it created, and both fill the map at once. Or the other goroutine replaces `wl.lock` between one goroutine's `Lock` and its `defer`, and the deferred `Unlock` releases a free mutex, a fatal error. TLC shows the shorter trace, the fatal unlock; the first conjunct checked alone is violated by the double fill. |
| server | MCExampleServer | pass | With eight concurrent requests, only requests from `adminWL`'s addresses change `wl` (`AdminOnlyMutates`); `127.0.0.1` and `::1`, however spelled, are never refused on an admin route (`LocalAdminServed`); and a request to an admin route is answered 200 only when `adminWL` permits its address (`AdminSuccessPermitted`). |
| server_lookup | MCExampleServer_lookup | violation | A `RemoteAddr` whose host does not parse gets 401, not the 500 the spec gives an extraction failure. |

Bounds, and why they are enough:
- `AddrBits = 2`: four values. That is enough for a network containing
  another, for an unmasked alias of a network, and for addresses inside and
  outside each.
- Two goroutines for the interleaving runs: every hazard involves one
  writer and one other caller.
- `MaxOps` of 4 or 5 calls: enough for an `Add`, a concurrent `Remove` or
  `UnmarshalJSON`, and a `MarshalJSON` spanning them. `Permitted` is not
  counted, so it can run at any point.
- Each `BasicNet` token set holds one garbage token, one alias and one empty
  token. Every branch of the fill runs.
- `MCExampleServer` has eight requests:
  - an admin adds `10.0.0.2`;
  - `10.0.0.2` tries to delete `127.0.0.1`, and fetches a file;
  - `::1` (spelled another way) deletes `10.0.0.2` and dumps the list;
  - an admin adds garbage;
  - two file requests come with no port, or with an unparsable host.

  So every branch of the gate is taken: 500, pass and 401. The file request is served or refused depending on the order
  of the add and the del, and the checker runs every order.
- `LazyLock` uses two goroutines: a race needs two.
- `Basic` runs one goroutine for the round trip. Its calls hold the mutex
  throughout, so interleaving them adds nothing but results per goroutine.
  The violation runs use two goroutines.

Every action of both modules, and every disjunct inside one, fires in the
passing runs. Each property of a passing run is broken by a mutant of the
code (PROJECT.json, "mutants"):
- a `Permitted` that skips the lock breaks `RefinesAtomic`;
- a `Remove` without `if index == -1 { return }` breaks `TypeOK`;
- an `UnmarshalJSON` that does not wait for the lock breaks `LockExclusion`;
- an `UnmarshalJSON` without `if addr == "" { continue }` breaks `JSONRoundTrip`;
- `main` building the admin handlers over `wl` instead of `adminWL` breaks
  `AdminOnlyMutates`: an admin adds `10.0.0.2`, which may then delete;
- an `IP.String` without its `To4` case breaks `LocalAdminServed`: the
  lookup's 16-byte `127.0.0.1` no longer matches `main`'s 4-byte key;
- a gate that refuses without `http.Error` breaks `AdminSuccessPermitted`:
  `net/http` then sends its implicit 200 to the refused caller.

Fairness. No module assumes fairness, and no liveness property is checked.
The one candidate, "every request is eventually answered", would hold by
the model's construction. Every branch of the gate and of the handlers
writes a status, and no step blocks. Even a handler that writes nothing is
answered by `net/http`, with an implicit 200. That case is a safety
question, about who gets a success, and `AdminSuccessPermitted` covers it.

## Proofs

`tlapm BasicNetProofs.tla` proves, for every value of the constants that
satisfies the module's assumptions:
- `TypeCorrect == Spec => []TypeOK`;
- `LockExclusive == Spec => []LockExclusion`.

`tlapm ExampleServerProofs.tla` proves
`AdminOnly == ServerSpec => AdminOnlyMutates`, for any requests and any
deny handlers. The gate and the write of `wl` are two steps of a request,
so the action property needs an invariant that carries the gate's verdict
forward. That invariant is `GateInv`: every admin request past the gate
came from an address `adminWL` permits. It is inductive with the type of
`pc`, since `adminWL` never changes. One lemma per kind of step shows it
is kept. `StepAdmin` then shows that only `AddIP` and `DelIP` change `wl`,
each from a request past the gate.

The assumptions are:
- `AddrBitsAssumption`, `PowAssumption`: positive powers of two;
- `NilAssumption`: nil is not a network;
- `ProcsAssumption`: `None` is not a goroutine, and the marshallers are
  goroutines;
- `ArgsAssumption`: the arguments are well-formed values;
- `MaxOpsAssumption`: the bound is a natural.

Neither invariant is inductive alone. The proof rests on the inductive
invariant `IInv == TypeCore /\ LockExclusion /\ LoopIndex /\ SeenOK`:
- `LoopIndex` keeps `Remove`'s index inside the slice and `MarshalJSON`'s
  index at least 1. It also says that the slice `UnmarshalJSON` fills has
  one slot per token.
- That in turn needs `LockExclusion`: no other writer can change the length
  under a shift or a fill.
- The type of the history `seen` needs `AbsList` to be a list, which needs
  the other three conjuncts in the next state. So `SeenOK` is proved last,
  by `ObserveType`.

The proof has one lemma per action (`PermittedCore` ... `UnmarshalDoneCore`),
each split into the conjuncts the action can disturb. It rests on lemmas
about the operators:
- `MinOfType`: the least element, from `WellFoundedInduction`;
- `MaskType`, `ParseCIDRType`, `NetStringType`, `JoinQuotedType`,
  `FirstIndexType`, `ScanType`, `AbsListType`.

`IInvStep` combines the action lemmas, `InitIInv` covers the initial
states, and the theorems follow by PTL. TLC has also checked `IInv` as an
invariant of a small instance.

`tlapm BasicNetRefinement.tla` proves
`LockedRefinement == ASSUME LockedCallers PROVE Spec => RefinesAtomic`.
This is the refinement run `net_locked` checks, for every number of
goroutines, arguments and bound. `LockedCallers` says that no goroutine
calls `MarshalJSON` (`Marshallers = {}`). That is the one method that
reads the slice without the lock, and `net_marshal_race` shows its output
is then not a snapshot. The argument:
- The step invariant is `RInv == IInv /\ NoMarshal /\ FillInv`.
  - `NoMarshal`: no dump exists and no goroutine is in `MarshalJSON`'s loop.
  - `FillInv`: while `UnmarshalJSON` fills, its input is a quoted caller
    input, every token before `k` parsed or was empty, and each slot holds
    `Parsed(toks)[i]` before `k` and nil after it.
  - Without `FillInv`, the step that ends the fill could not be shown to
    install `Parsed(toks)`, or to happen only when no token is bad.
  - TLC checked `RInv` as an invariant of the `net_locked` instance
    before the proof.
- Every step is then a step of `AtomicBasicNet` or a stutter of it (one
  lemma per action, `PermittedRef` ... `UnmarshalDoneRef`):
  - `Remove` takes effect at `RemoveFind`, which takes the lock. `AbsList`
    becomes `RemoveAt(l, index)` there.
  - Each shift step leaves `RemoveAt(l, k)` unchanged (`ShiftKeepsRemoved`).
  - The truncation makes the slice equal to it (`RemoveLast`).
  - `UnmarshalJSON` takes effect when its fill fails on a bad token
    (`AbsList` becomes `<< >>`) or ends (`AbsList` becomes `Parsed(toks)`).
    Until then `AbsList` is the list the call replaced.
  - `Permitted` scans the slice only with the lock free, so it sees
    `AbsList` itself (`AbsFree`).
- The sequence lemmas `ConcatSkip`, `RemoveAtProps`, `FrontProps` and
  `ParsedProps` describe `RemoveAt` and `Parsed` element by element.

`tlapm BasicProofs.tla` proves
`JSONRoundTripHolds == Spec => []JSONRoundTrip` for `Basic`. It holds for
every goroutine set, address set, input set and bound. The invariant is
`JInv`:
- every key the map holds is the text of an address that parses;
- every dump `d` recorded by `MarshalJSON` is exact: `UnmarshalHosts` of
  `d`'s tokens succeeds, and stores exactly the keys `d` was made from.

The argument:
- `KeyOrdersRange` shows that an injective order of `Cardinality(S)` keys
  lists every key (`FS_Injection`).
- `MarshalExact` uses it to show that a dump in any order is exact. Since no
  key is the empty string, the skipped empty token removes nothing. The
  empty map dumps to `""`, one empty token, which loads back empty.
- `UnmarshalKeys` shows that a successful load stores finitely many keys
  that parse (`FS_Surjection`). So `JInv` survives `UnmarshalJSON` as well
  as `Add`, which stores `ip.String()` (`StringParses`).

`tlapm ExampleServerProofs.tla` also proves
`LocalAdminNeverRefused == ServerSpec => []LocalAdminServed`. The invariant
`RInv` is `LocalAdminServed` together with the type of `resp`. It is
inductive because:
- `adminWL` is never written;
- `LoopbackPermitted` shows that `adminWL` permits both loopback addresses
  the lookup can produce, including the 16-byte `127.0.0.1`;
- so the gate's 401 branch never fires for a local admin request.

It also proves
`AdminSuccessOnlyPermitted == ServerSpec => []AdminSuccessPermitted`.
The invariant `SInv` conjoins three facts:
- `IInv`, the gate invariant of `AdminOnly`;
- the type of `resp`;
- the property itself.

It is inductive for two reasons. The gate itself writes only 500, 401 or
the deny handler's reply (`ServeHTTPSInv`). A 200 is written only by an
allow handler, from a request that `GateInv` says passed `adminWL`
(`HandlerSInv`).

Some things are only model-checked:
- `MarshalIsSnapshot`, whose violation is the point;
- `RefinesAtomic` with `MarshalJSON` callers. There the refinement is not
  claimed: `MarshalJSON` skips the lock;
- the violations, which TLC shows by a trace.

TLAPS cannot handle liveness or `ENABLED`, and cannot do induction over
data (what a recursive operator computes for every input). Those stay with
TLC.

## Not modelled, and why

- **Byte-level input.** `UnmarshalJSON` indexes `in[0]` without a length
  check, so empty input panics. The wire model starts after that check,
  with the tokens already cut. `json.Unmarshal` never passes empty input,
  but a direct caller can.
- **The stubs.** They have no state and only log; `Permitted` is always
  true.
- **`NetConnLookup`, and `HTTPRequestLookup` of a nil request.** No code in
  the repository calls them that way, and `net/http` never hands a handler
  a nil request.
- **`NewHandler` and `NewHandlerFunc` failing.** They refuse a nil allow
  handler or a nil ACL; `main` passes neither, and the failure is
  `log.Fatalf` before serving.
- **Revocation during a request.** A `/del` that removes a client after its
  file request passed the gate does not stop that request. The model has
  the window, but no property forbids it: the spec promises nothing about
  requests already admitted.
- **Further proofs.** `Basic`'s type invariant; a refinement of `Basic`
  to an abstract set of canonical addresses; the proof that `LazyLock`'s
  lock fails, which is a trace and belongs to TLC.
