# Formal models of haphe

haphe describes Rust types once (macros build a constant IR, `haphe-core`
collects it in a registry) and binds them into scripting runtimes: Lua
(`haphe-lua`), Rhai (`haphe-rhai`) and WebAssembly components (`haphe-wit`).
Most of the code is compile-time generation or pure conversion. What runs
concurrently, holds locks, owns things that must be released, or waits, is
mainly in the two runtime files of `haphe-wit`, `runtime.rs` and `host.rs`, and
in the borrow guards of Lua objects; one half of this project is about that.
The other half is about agreement: a registry is read by a validator, a
document generator, a linker, a foreign caller, table builders and declaration
generators, each of which derives names and shapes from it a second time.

Everything here is TLA+, checked with TLC on small instances and, for the
modules named `...Proofs`, proved with TLAPS for every value of the constants.
`PROJECT.json` maps each definition to the lines it was translated from.

## 1. Inventory

Paths are below `src/crates/`.

| Component | State it keeps | Operations | What makes it correct |
|---|---|---|---|
| wit foreign caller, synchronous (`haphe-wit/src/runtime.rs` 1378-1866, `host.rs` 81-125) | the store behind a mutex, the deferred drop queue, the handle inside each `GuestResource` / `HostResource` payload | `call` = lock, drain drops, lower arguments, run the guest, unlock, lift; `Drop` of a payload | one owner per handle, no stale handle, no leak on a successful path, the mutex always released |
| wit provided resources (`runtime.rs` 2385-2493, 3096-3190, 3677-4600, `host.rs` 37-75) | `HostTable`: `rep -> (type, value)`, a rep counter | `host_resource`, constructors, associated functions, accessors, methods by receiver kind, dyn dispatchers, projections, the destructor | a guest's handle is live, a consuming call is alone with its receiver, a borrowed receiver does not move |
| wit `block_on` (`host.rs` 1374-1423) | a flag per invocation, the thread's park token | poll, park, wake | no lost wake-up, nested or not |
| wit asynchronous foreign caller (`runtime.rs` 1789-1833, 1868-) | the same mutex, held across an await | `call_async` | no task blocks its own executor |
| dyn dispatch (`haphe-core/src/dispatch.rs`, the three backends' attempt loops) | the receiver, while a Rhai method has it | rank the candidates, try them in order | one body runs, the best fitting that accepts; a failing implementation is never retried; the object comes back |
| wit resolution and `bind` (`runtime.rs` 500-860, 925-1284, 3355-4778) | definitions in a linker | define what the document imports, look up what it exports | linker and lookups use the names of the document |
| wit value conversion (`runtime.rs`, `types.rs`) | none | `script_to_val`, `val_to_script`, reshape | round trips; order of side effects |
| wit generator (`lib.rs`, `model.rs`, `types.rs`, `names.rs`, `dyn_gen.rs`) | the plan: interfaces, who defines which type, mangled instances; name maps | plan, print a WIT document | every concrete type has one home, no lookup misses, no two members of one name |
| core registry (`haphe-core/src/registry.rs`) | the builder | add, validate | no dangling type or parameter after validation |
| core bridge (`bridge.rs`, `std_types/`, the conversions derived for enums) | none | conversions from and to `ScriptValue` | a value that goes through a script comes back as it left; range checks, `u64` as bit pattern |
| core backend traits, capabilities (`backend.rs`) | none | capability check | nothing is silently dropped |
| lua binder (`haphe-lua/src/binder.rs`, `module.rs`, `lib.rs`) | userdata borrow guards, module and type tables | `bind`, `bind_fn`, `bind_type`; dispatch sync and async methods, iterate | a guard never outlives its call, no live member is overwritten |
| lua foreign caller (`foreign.rs`) | the callbacks it resolved | connect, call | it connects exactly when the table has what is declared |
| rhai binder and foreign caller | interpreter handles | register, call | the dispatch order, the object comes back |
| lua declarations (`decl.rs`) | none | print | what they promise a script finds |
| other declaration generators (luau, rhai) | none | print | text only |
| macros (`haphe-macros`) | none | generate code | compile time |

How they interact. A host thread calls a guest export through a foreign caller
(`ForeignCaller::call`), which takes the store mutex for the whole guest call.
The guest may, inside that call, use the host's resources: wasmtime invokes the
closures `bind_resource_live` defined, which take the mutex of the binder's
`HostTable`. A member that is `async` is driven on the same thread by
`block_on`, which may therefore nest. Handles cross in both directions: a
`HostResource` payload is minted into an own handle of the store when it is
first lowered, and a handle of a guest resource comes back in a `GuestResource`
payload. `Drop` of a payload may run on any thread and has no access to the
store, hence the drop queue.

What is hard about it: several threads on one store mutex and one table mutex;
a handle is a plain copyable index whose ownership is only a convention; each
path has many early returns (`?`), and several of them lie between taking a
handle and passing it; `Drop` runs at any time; user code runs under the table
mutex; and nested executors share one park token. In the other direction, a
script's arguments are untyped (Lua, Rhai), so a dispatcher guesses, and guesses
again when a conversion fails. Names are taken apart and put together again by
several pieces of code that never look at each other's output, and in Lua a
later registration silently replaces an earlier one. Section 7 of this file and
"hazards" in `PROJECT.json` list these by line.

## 2. Modules

| Module | Models | Role |
|---|---|---|
| `HandleOwnership` | | abstract specification: who owns a resource that crosses |
| `ForeignCalls` | the synchronous caller, payloads, drop queue | detailed specification, implements `HandleOwnership` |
| `MCForeignCalls` | | instance and symmetry for TLC |
| `ForeignCallsProofs` | | TLAPS: the safety invariants of `ForeignCalls`; it implements `HandleOwnership` |
| `HostResources` | the host table and the dispatch closures | specification |
| `MCHostResources` | | instance and symmetry for TLC |
| `HostResourcesProofs` | | TLAPS: the safety properties of `HostResources` |
| `BlockOn` | the parking executor | specification (checked directly) |
| `BlockOnProofs` | | TLAPS: no lost wake-up |
| `Numbers` | the folded number types: `u64`, `SystemTime` | functions |
| `ScriptValues` | `From<T>`, `FromScript`, `value_matches_descriptor` | recursive functions on types and values |
| `Runtimes` | the backends' side of the conversions | recursive functions; a value through Lua, Rhai, WebAssembly |
| `DynDispatch` | one call of a script into bound code | specification; values and types are parameters |
| `MCDynDispatch` | the wrapper's argument conversion | supplies `DynDispatch` with the values of `ScriptValues` and `Runtimes` |
| `DynDispatchProofs` | | TLAPS: which body runs, what becomes of the receiver; the folded numbers come back as they left |
| `LuaGuards` | userdata borrow guards, nested and suspended calls | specification |
| `LuaGuardsProofs` | | TLAPS: no stale view, no lost mutation |
| `Descriptors` | the descriptors of `haphe-core`, walks over types | operators |
| `Registry` | the registry and `validate` | operators on registries |
| `Capabilities` | `BackendCapabilities::check` | operators |
| `WitNames` | kebab-case, escapes, `NameMap` | operators |
| `WitPlan` | `Plan::build`: interfaces, claims, instances, mangling | operators |
| `WitWorld` | the WIT document, and when it can be generated | operators |
| `WitBinding` | the linker's definitions, the foreign caller's lookups | operators |
| `Packages` | from declarations to a running guest | specification, composes the modules above |
| `LuaSurface` | Lua tables, binders' checks, declarations | operators |
| `LuaHost` | `bind`, `bind_fn`, `bind_type`, callbacks | specification, extends `Packages` |
| `MCPackages` | | palette of declarations, given registries, spellings |
| `PlanProofs` | | TLAPS: lemmas about slices, names, plans; the plan of a valid registry resolves |
| `PackagesProofs` | | TLAPS: linker, document and lookups agree for any registry; the safety invariants of `Packages` |
| `LuaProofs` | | TLAPS: a script finds what the declarations promise, for any registry and any order of registrations |

### 2.1 ForeignCalls

State. `wst`/`wres` are the payload objects: `guestHeld`/`guestTaken` is
`GuestResource { handle: Some/None }`, `unminted`/`minted`/`transferred` is
`HostResState`. `store` and `guest` are the two sides of wasmtime's bookkeeping
of own handles. `queue` is `CallerInner::drops`, `holder` the store mutex.
`pc`, `refs`, `pending`, `owned`, `lent`, `result` are the local state of each
thread inside `call_sync`: the arguments it keeps alive, the list `drain_drops`
took, the handles lowered by value and by borrow, the result to lift.
`faulted` is a history variable: a dispatch failed, or one of the leaks that
the comments document happened.

Actions follow `call_sync` (runtime.rs 1771-1786): `BeginCall`, `LockStore`,
`TakeDrops`, `DropPending` (one `resource_drop` each), `LowerOwn` /
`LowerBorrow` (one argument each, in any order and number), `EnterGuest`,
`GuestReturns` (which unlocks before lifting, as `drop(store)` does),
`LiftPlain`/`LiftResource`; and every early return: `DropFails`, `LowerFails`,
`EnterFails`, `GuestTraps`, `LiftFails`. `Fail` is what `?` does: the guard and
the local vectors go, and because a `ResourceAny` is a plain index nothing is
undone. `DropWrapper` is `Drop for GuestResource`, with the weak reference to
the queue; `DropCaller` drops the caller. The guest creates and drops resources
while it runs; dropping one of the host's runs the registered destructor.

Abstracted: values other than handles, function lookup, result reshaping. They
appear as the possibility to fail at the point where the code converts them.
Identities are recycled when nothing names them, so calls are not counted.

### 2.2 HostResources

State. `entries`, `next` and `table` are the `HostTable` (values reduced to
their type), with `table` naming the thread that is inside user code under the
mutex. `own` is the guest side of each store, `payload` the unminted
`HostResource` payloads. `pc`, `op`, `self`, `arg`, `want`, `taken`, `ticket`
are the call in progress on a store's thread. `lost` is a history variable: reps
whose own handle went away without the destructor.

The dispatch closures differ by how they acquire the receiver, and that is how
`Ops` groups them: `assoc` (no receiver), `borrow` (user code under the mutex:
accessors, `&self` and `&mut self` methods, async ones included, and the
projections that borrow), `clone` (projections that clone the value first),
`consume` (owned receivers: `remove`, check the type, run without the mutex,
put back when rejected), `dyn` and `dynOwned` (dispatchers: one acquisition per
attempt). Their steps are separate actions wherever another thread can come in
between: `LiftArg` removes an own argument's entry; `AcquireRef`,
`AcquireOwned`, `AcquireFails`; `CheckTaken`; the outcome `ReturnPlain`,
`ReturnResource` then `InsertResult`, `RunFails`, `RunRejects`, `PutBack`.
`HostTable::insert` is two steps (`Draw`, `Fill`), as `fetch_add` precedes the
lock. User code may call `host_resource` again (`Reenter`).

A critical section of one statement is one step guarded by `Unlocked`; only a
mutex held while user code runs is state. A borrowed argument is cloned under
the mutex and changes nothing, so it has no action.

### 2.3 BlockOn

One thread, any number of invocations of `block_on`, nested or in turn; `top`
and `parent` are the nesting. `notified` is each invocation's flag, `token` the
park token they share. `waking`/`stage` is where each waker thread is in
`wake_by_ref`: flag first, then unpark. The future is external; it keeps the
contract of `poll` and waits for up to `MaxAwaits` events. `park` may return
spuriously, and a waker may run at any time, even after its call returned.

### 2.4 Numbers, ScriptValues, Runtimes

The value bridge as functions. A type is a record with a kind, a `ScriptValue` a
record with the variant's name. `IntoScript(t, x)` is `From<T>`,
`FromScript(t, v)` the conversion back with its errors (a wrong variant, or only
a wrong value), `Matches(v, t)` is `value_matches_descriptor`. `Runtimes`
composes what a backend does on the way out with what it does on the way in:
`ThroughLua` and `ThroughRhai` must guess from the shape of the value,
`ThroughWit` is `script_to_val`, which goes by the declared type, followed by
`val_to_script`, which has only the WIT value: it looks a case up by its name
among all enums of the registry (`Enums`). A case that two of them declare
differently is refused, for a WIT enum; of a variant it becomes a map from its
name to what it carries. `Reshape` then rebuilds the declared maps. `ThroughLua` is a set because the length of a table with holes may be any
border of it.

Abstracted: integers have 3 bits (`Half` = 4 stands for 2^63, a second has
`Nanos` = 2 nanoseconds), a float has one bit less of mantissa and is an
integer, strings are a few names. Maps keep their order; a Lua table or a
`HashMap` has none, which the values used here do not show. Bytes, userdata,
callbacks, records, flags and 128-bit integers are left out. A case name is the
same in Rust and in WIT: that two names share one kebab-case spelling is the
ambiguity just named, not another one. The payload of a case is a tuple, never a
record.

### 2.5 DynDispatch

A script's call, from the lifting of its arguments to its result. `Call` and
`LiftArgs`/`LiftFails` are `lua_to_script`, `args_to_script`, `lift_args`;
`Resolve` makes the attempt order: `Ranked` is `resolve_dyn_candidate`,
`Position` is `dyn_call_order` (Lua), `dyn_attempt_order` (WIT) and the swap of
the Rhai dispatchers. `Reject` is a wrapper's conversion error
(`ScriptCallError::Convert`), `Run` its body, which answers with a value or an
error of its own (`ScriptCallError::Callee`), `Refuse` the error when no
candidate is left. Functions under their own name are calls with one candidate
and nothing to rank. `object` is the receiver: a Rhai `&mut self` method takes
it out of the script's variable (`held`) and stores it back (`home`), or does
not (`lost`). `ran` and `outcome` are the history of the call in progress.

`Fit`, `Accepts` and `Lifted` are parameters. The proofs hold for any; for TLC
`MCDynDispatch` takes `Matches`, the wrappers' `FromScript` calls (`Reads`, which
reads a missing argument as unit) and the round trip through the runtime. So the
arguments are not invented: each is a value the host could have given to the
script, or one the bridge does not know. In WebAssembly the arguments have the
types of the candidate that the variant case names.

### 2.6 LuaGuards

Calls of scripts on bound objects. A call borrows its object shared or mutably
(`BorrowError` otherwise, after which it has not happened), converts its
arguments, runs, and gives the guard back in whatever way it ends. Lua is single
threaded, so what interleaves is nesting, by `__index` of a table argument or a
foreign function (`stack`), and suspension: an async method keeps its guard in a
future off the stack, and an abandoned coroutine keeps it until Lua collects it.
The content of an object is a counter that a `&mut self` body reads when it
starts and writes when it ends, so that a second writer shows.

### 2.7 Registry, plan, document, linker, lookups

`Packages` is a program's life with its WIT runtime. `Declare` is the builder's
`register_*` with its duplicate check, `Validate` is `validate`. `Plan` stands
for the `Plan::build` that `generate`, `bind` and `foreign_caller_in` each begin
with: a function of a registry that does not change any more, so the three get
the same plan. `Generate` and `Bind` check the capabilities and then either
produce everything or refuse. `Document` and `Linker` are computed separately,
from `WitWorld` (`lib.rs`) and from `WitBinding` (`runtime.rs`); nothing in one
refers to the names of the other. `Instantiate` is wasmtime's resolution of the
guest's imports, where the guest is the component that uses all of the
generated world. `Connect` is `foreign_caller(_in)`: it derives an instance name
and function names from descriptor and registry and looks them up in that guest.

The rules are operators on the registry, one per piece of code: `Validates`,
`Supports`, `PlanAgrees` and `InstancesMangle`, `Generates`, `Binds`,
`CallerResolves`. They are predicates where the code collects errors, and the
errors' texts are left out. Types are trees, and modules are; types, and modules
in modules, are nested at most three deep, so what recurses over them in the
code takes them apart in three steps (`Nested`). `IsRegistry` says what the Rust
types say of a registry (slices and finite trees), within that bound;
`PackagesAssumption` requires it of the palette and of the given registries.

A name is a text: a sequence of words with `"_"` between the words of snake
case. That is the least that tells `set_total` from `total` with a setter, and
`geo_util` from `util` within `geo`, in kebab-case.

Left out: parameter names, docs, the types of definitions (which wasmtime also
compares), ownership of resources in results, the variants a dynamic dispatcher
takes, and the closures that the host registers; a type that is not registered
gets a stub under the same names. Constants hold literals of their types. Every
signature is one the value bridge can carry.

### 2.8 Lua tables and declarations

Lua is taken to be 5.3 or newer, where every operator has its metamethod.
`LuaSurface` says what `bind_module` puts into a module table, what the function
and type binders check and install (the features `generics` and `async` on),
what an object answers to a name when several members have it, and what
`decl.rs` tells an editor about the same registry. `LuaHost` is a program that
calls `bind`, `bind_fn`, `bind_type` and `bind_enum_type` in any order and any
number of times: `LuaBind` starts with fresh tables, `BindFn` and `BindType`
install over what is there. `tables` is what is at which place and to which
instantiation it belongs; what is installed at a place also removes what was
beneath it (`Installed`), since a script reaches the members of a table only
through its place. `objects` are the types whose userdata is registered.
`Supply` is a script that hands over callbacks, complete or with one missing,
to `foreign_caller` of `foreign.rs`.

Userdata resolves a name that is both a field and a method to the field, and of
two methods to the one registered last: that is mlua's `__index`, an external
part of the model (`binder.rs` 1317-1319 relies on it for custom indexing). A behaviour has a WIT runtime or a Lua state,
not both: they share only the registry, which no longer changes.

## 3. Runs

| Run | Instance | Shows |
|---|---|---|
| `ForeignCalls` | 2 threads, 1 guest and 1 host resource, 2 payloads | the safety invariants; `OwnershipSpec`: the caller implements `HandleOwnership`; `DroppedHandleIsDrained`, `StoreIsReleased` |
| `HostResources` | 2 stores, 2 types, 3 reps | invariants, action properties and `TableIsReleased` |
| `BlockOn` | 2 invocations, 2 wakers, 2 awaits | `NoLostWakeup`, `OuterWakeIsKept`, `EveryCallReturns` |
| `DynDispatch` | 11 functions of 1 to 5 candidates, 3 runtimes, 50 values of 32 types | `OneBodyRuns`, `BestFitRuns`, `DeclarationOrder`, `ReceiverComesBack`; `RoundTrip`, `ExactFitsConvert` |
| `LuaGuards` | 1 object, 3 calls, 2 mutations | `StableUnderGuard`, `NoLostUpdate`, `GuardsEndWithCalls`, `GuardIsReleased` |
| `Packages` | all registries of up to 4 of 24 declarations, and 8 given ones | `WorldIsServed`, `CallersFindExports`, `PlanIsTotal`, `ScriptsSeeDeclared` |
| `TransferReachesGuest`, `DrainReclaimsAll`, `DynHandleStaysLive`, `RhaiFallThrough`, `RhaiReceiver`, `LinkerNamesMatch` | as above | expected violations, section 6 |

Why the bounds are enough. Two threads are needed for every interleaving of the
mutexes; a third only waits longer. Two payloads let one resource pass from one
to the other and let a call lend and move in the same argument list; that the
safety properties hold for any number of payloads is proved. One guest and one host resource already exercise both
kinds of handle; identities are recycled, so a run is not bounded in the number
of calls. Three reps are the only counter bound (`MaxRep`): a receiver, an own
argument and a fresh insertion at the same time; `HostTable.next` stops there.
Two types are needed for a handle of the wrong type. Two invocations are needed
for nesting, two wakers so that one can act between the two steps of the other.

`DynDispatch` calls every function with every value of `Origins`, the
two-parameter functions with the pairs that fit one, both or none of their
candidates, and in Lua with too few and too many arguments; calls follow each
other without a bound. The functions put together candidates that compete: an
integer against a float and an enum with discriminants, `char` against strings
and case names, lists against tuples, arrays and maps, options against what
they contain. The values include both ends of every integer range, a `u64`
beyond the `i64` maximum, times on both sides of the epoch and the last but one
instant, empty containers, options in containers and in each other, and enum
cases with and without payload, of enums that share a name and declare it alike
or not. `RoundTrip` says what comes back unchanged:
everything that is `Representable`, which leaves out an option that holds a nil
value, in Lua also nil in a container, an empty array and a map whose only key
is `case`, and in WebAssembly a case whose name another enum declares with
another number or with a payload of another length. Those are limits of the runtimes' value model and the values of
`Origins` they exclude do not come back: the condition is as weak as it can be
here.

`LuaGuards` has one object because guards of different objects do not meet, and
three calls: one that holds a guard, one nested in it, and one suspended.

`Packages` starts from an empty registry, to which any four declarations of the
palette are added in any order, and from eight given ones as a program would
have them, which the bound lets pass as they are or with what still fits. The
palette has one or two descriptors of each sort, with what makes names meet: a
field and a method spelled like its setter, an alias spelled like a record in
another case, a nested module `geo.util` beside `geo_util`, a function spelled
like the companion of an enum's method, functions and interfaces named like WIT
keywords, a function and methods spelled like a monomorph, monomorphs named like a constant
and a submodule, a module named `haphe_error`, several constructors
of which some are async or fallible, two instantiations of one type in one
module, an instantiation whose argument lives in another interface, generic
interfaces, a record with every bit operator. A collision needs two declarations and a third that puts them into
one scope; a run with five (782,126 distinct states) found nothing more.

No run uses symmetry: those with interchangeable threads or payloads also check
liveness. Deadlock checking is off in them, and in `Packages`
and `LuaGuards`, because each system may really stop: the caller dropped, every
instance trapped, every call returned, a registry refused. `DynDispatch` and its
two violations check for deadlock: a call always ends.

## 4. Fairness

* `ForeignCalls`: weak fairness of `Dispatch(t)`. A dispatch is straight-line
  code on a running thread and a guest call is assumed to end, by returning or
  by a trap. Nothing makes a host begin a call or drop a payload, so
  `DroppedHandleIsDrained` is conditional on somebody being about to dispatch.
* `HostResources`: weak fairness of `Handler(s)`; user code is assumed to end.
  `std`'s mutex promises a waiting thread nothing while others compete, so no
  strong fairness is assumed and nothing is claimed about a particular waiter.
  `TableIsReleased` is checked with `ReentrantOps` limited to the kinds of call
  that run without the mutex; with a borrowed receiver re-entry deadlocks, as
  runtime.rs 4329-4333 documents, and the mutant `ReenterAnywhere` shows it.
* `DynDispatch`: none; its liveness is that a call cannot get stuck, and every
  attempt uses up a candidate.
* `LuaGuards`: a call's conversion, its resumption after an await and its end
  are strongly fair, since each is possible only while the call is on top of the
  stack or the thread is free, which other calls keep interrupting: script code
  is assumed to return and an awaited event to happen. Lua collects a coroutine
  that nothing refers to (weak fairness). Nobody is forced to call.
* `Packages`: none. Nothing waits there.
* `BlockOn`: weak fairness of the executor and of `wake`; `park` is only
  promised to return when there is a token. That an awaited event happens in
  the end is the environment's business (strong fairness, because its thread
  may meanwhile be busy with stray wake-ups). The documented limit of the
  executor, a reactor living on the blocked thread, is outside the assumption.

## 5. Proofs

TLC finds no counterexample on the instances above; TLAPS proves the following
for all values of the constants, from the named assumptions on them alone
(`DisjointAssumption`: identities of different kinds differ; `HostAssumption`;
`CallsAssumption`; `NumbersAssumption`; `PackagesAssumption`: the declarations
are such as the Rust types admit, nested at most three deep;
`SpellingAssumption`: every name has a text that is not empty, and different
names have different ones). Each proof has
the same shape: an inductive invariant `IInv`, a lemma per action that it is
preserved, one step per conjunct, `Spec => []IInv`, and then the properties as
consequences.

**ForeignCallsProofs**: `TypeOK`, `StoreExclusion`, `SingleOwner`,
`NoStaleHandle`, `HostHandlesHaveEntries`, `LentHandlesAreKept`,
`NoSilentLeak`. None of the last five is inductive alone. They need to know
what a thread holds at which point of `call_sync` (`CallShape`: nothing pending
while lowering, nothing lowered outside the mutex, a result only while
lifting), that payloads in use name resources (`PayloadShape`), and each other:
that dropping one handle leaves the others alone is `OneOwner`, that a drained
handle's entry may go is again `OneOwner`, and that a lent handle stays is the
mutex together with the references a call keeps on its arguments. The
invariants are restated place by place (`Owns`, `InFlight`), so that a step
disturbs one place; `NamedByPlace` leads back to the sets of `ForeignCalls`.
`LentStaysInPayload` is weaker than `LentHandlesAreKept` while arguments are
still being lowered: the same payload may be lent and then moved by one call,
which wasmtime refuses when the call starts.

The same module has `Spec => OwnershipSpec`, the refinement of
`HandleOwnership`. Under the mapping `OwnerOf` the abstract specification
forbids exactly two things, that a lost resource is found again and that one is
lost without having been the host's; `LosesOnlyOnce` states them, one lemma per
action shows them.

**HostResourcesProofs**: `TypeOK`, `HandlesAreLive`, `SingleHolder`,
`ReceiverStays`, `NoSilentOrphan` and the action properties
`BorrowExcludesWriters`, `RepsAreNotReused`, `RejectedReceiverStays`. The
invariant adds what a call holds at
which point of a closure (`CallShape`), who is in the table (`TableShape`),
that the counter is ahead of every rep in use (`NextIsFresh`), that a rep being
inserted is nobody's (`TicketsAreFresh`), and that a borrowed receiver stays
with its guest (`BorrowedIsOwned`).

**BlockOnProofs**: `TypeOK`, `NoLostWakeup`, `OuterWakeIsKept`. `FlagFollows`
(an event that happened since the waker was registered has set the flag, or is
about to) and `UnparkFollows` (a flag set since the last swap is followed by an
unpark) carry the argument; only the innermost invocation sleeps
(`OnlyTopSleeps`), which is why taking a shared token cannot hurt another one.

**DynDispatchProofs**: `TypeOK`, `OneBodyRuns`, `BestFitRuns`,
`DeclarationOrder`, and the action property `ReceiverComesBack`, for any calls,
values, types and conversions (`CallsAssumption`, `FitAssumption`: a match has
three qualities). `OneBodyRuns` needs to know what happened to the candidates
that are gone: those that neither are left nor ran rejected the arguments
(`Tried`). `Ordered` says so for those before the body that ran, and
`PositionOrder` turns a position into an order of declaration, which works for
Lua and WIT and fails for Rhai. `RankedPick` is the resolver: whenever any
candidate fits at some quality, the pick fits at least as well. `Holding` ties
the object to the calls that take it.

**LuaGuardsProofs**: `TypeOK`, `StableUnderGuard`, `NoLostUpdate`,
`GuardsEndWithCalls`. A guard is of the kind its call asked for (`GuardKinds`)
and a mutable one excludes every other of its object (`Exclusive`); then a
second call cannot write between a method's reading and its writing, whatever is
nested or suspended.

**PackagesProofs**: `TypeOK`, `WorldIsServed`, `CallersFindExports` and
`PlanIsTotal`, for any palette of declarations, any number of them, any given
registries, and any spelling and keywords. The invariant is in two parts.
`Stages`: nothing refers to the registry before it was validated, and nothing
changes it afterwards. `Settled`: what was found out about the registry still
holds of it (a planned registry validates and its instances mangle, a bound
linker means that the plan binds, a caller that misses an export misses it in
the document as it stands). Neither property is inductive alone: they read the
registry, the plan and the document, of which the states of a program keep only
the verdicts. With the invariant, each property is a statement about one
registry: `WorldServed` and `ExportsFound`, below, and those of `PlanProofs`.

`WorldServed`, `ExportsFound` (linker, document, lookups). A definition and a member are
alike if they agree in how they are used (function, constructor, method) and in
the text of their name (`SameHead`); one sequence covers another if it has
something like each of its members (`Covers`). Concatenating, mapping and
flattening keep that. So the proof goes along the code: an accessor, a
dispatcher, a method, a projection, a resource; the companions of an enum, a
record, a function; the instances of generics; and from there to interfaces.
Where the two sides are written differently there is something to show:
`SlotsAgree` (the document gives the constructor slot to the first constructor
that is neither async nor fallible, the linker to whoever finds it free),
`ProjectionsAre`, and `PlainIsMangled`, that the name the caller mangles for
itself is the one that the plan made. The callers' side needs `InterfaceFor`:
the instance of a generic interface that a caller looks up has an interface, or
another instantiation has its name.

**PlanProofs**: `PlanResolves` and `EveryLookupHits`: whatever id the generator
or the binder looks up in the plan of a registry that validates has its entry.
Every reference of a type that it uses comes from a descriptor that `validate`
walked, or from the arguments of an instantiation that it walked, substituted
for the parameters (`SubstitutedRefs`, `TypeRefs`, `UsedRefs`). `OwnedOnce`: a
concrete type is defined once, in the interface of the first module that lists
it or of none (`InterfaceAt`). The rest of the module are lemmas on what the
code does with slices: the first entry with an id, those that pass a filter,
concatenations and flattened slices. `FlattenSeq` is a recursive function; where
a fact about it needs induction (`FlattenExists`, `FlattenSlices`), it is written
out with a least counterexample (`LeastOf`).

**LuaProofs**: `ScriptsSeeDeclared`, for any registry, any spelling that tells
names apart (`SpellingAssumption`) and any sequence of `bind`, `bind_fn`, `bind_type` and `bind_enum_type`. The invariant
`LuaInv` says of the tables what the property says, also of registries that the
generator refuses: what `bind` installed is still there (`SlotsKept`), functions
and types that were bound are found (`FunctionsKept`, `TypesKept`), objects are
of types whose registration was accepted (`ObjectsKept`), and a callbacks table
was answered as `foreign_caller` does (`HandlersKept`). It stands on `IInv` of
`PackagesProofs`, because tables exist only for a registry that was validated.
The argument is about places. In a registry that validates (`Standing`) the names
within a module, those of its submodules among them, are apart (`NamesApart`), so
a path leads to one module and two members meet at a place only if they are the
same one (`SamePlace`). Only a monomorph, whose text nobody spelled, can meet the
name of something else.
A registration takes the places of its own names and what is beneath them. So
for each kind of declared name and each kind of registration either the place
stays, or what took it is named by `Replaced`, by the second exception of
`FunctionsFound`, or is the same member of another instantiation. What an object
answers follows from the checks of `LuaTypeBinder::register` (`ObjectsAnswer`),
and that a callbacks table with one name missing does not connect from the
names in an interface being apart (`HandlersConnect`).

**DynDispatchProofs** also has the folded numbers: the casts between `u64` and
`i64` are a bijection at every width, so no two `u64` cross as the same pattern, `SystemTime` comes back from its pair at
every resolution, and the negation in that conversion overflows for exactly the
earliest instant (a debug build panics there, a release build wraps and the value
is still right).

Found while proving: `CallersFindExports` was false as first stated. The plan
skips an instantiation whose mangled name it has already made (model.rs
243-254, "identical duplicates dedupe silently"), also if the name is that of
an instantiation of another type; a generic foreign interface can lose its
interface to one, and its caller finds nothing. The property names the exception
(`Shadowed`), and the given registry `Twins` of `MCPackages` reaches it.

`ScriptsSeeDeclared` was false as well: a monomorph of a module's function is
compared with no other name of that module, so binding the function replaces a
constant, a submodule or a type of that name with all that is in it, and a
module called `haphe_error` is replaced by `install_error_info`. `Replaced` names
these, and the given registry `Clashes` reaches them. The
inductive invariants are also checked by TLC, on the instance of the `Packages`
run.

Model-checked only:

* `RoundTrip` and `ExactFitsConvert` are about RECURSIVE operators on types and
  values (`ScriptValues`, `Runtimes`), which TLAPS's backends do not take.
* The liveness properties (`DroppedHandleIsDrained`, `StoreIsReleased`,
  `TableIsReleased`, `EveryCallReturns`, `GuardIsReleased`), since TLAPS does not
  handle fairness and ENABLED here, and the expected violations.

## 6. Where code and documentation differ

Six runs are expected to fail; each checks one sentence of the repository.

* `TransferReachesGuest`. host.rs 89-91: "an `own` position TRANSFERS the handle
  to the guest, whose eventual drop runs the registered destructor".
  `lower_resource` marks the payload `Transferred` while the arguments are still
  being lowered. When a later argument does not convert, or the call fails
  before the guest runs, the own handle stays in the store, nothing names it,
  and the destructor never runs.
* `DrainReclaimsAll`. runtime.rs 1596: drain_drops "Reclaims guest handles whose
  host wrappers were dropped since the last dispatch". It takes the whole queue
  and returns at the first `resource_drop` that fails; the rest is forgotten.
* `DynHandleStaysLive`. runtime.rs 3098-3101: a dispatcher over consuming
  candidates "clones at the boundary instead of consuming the table entry, so
  the handle stays live". The generated WIT makes it a static function that
  takes `this` by value, so the guest's handle is moved into the call, and
  `self_rep` reduces it to a bare rep: the entry stays, its handle does not.

* `RhaiFallThrough`. haphe-rhai/README.md 162: "the ranked winner is tried first,
  then remaining candidates in declaration order". The Rhai dispatchers swap the
  winner with the first candidate (binder.rs 690, 754, 820, 1335), so the first
  is tried at the winner's place, after others. With two candidates, as in the
  tests, there is no difference. `DeclarationOrder` holds for Lua and WIT.
* `RhaiReceiver`. haphe-rhai/tests/fallible.rs 101,
  `fallible_unit_method_mutates_or_raises`: after an error the object should be
  what it was. The method wrapper (binder.rs 481-486) takes the object out of the
  script's variable and stores it back after two `?`: a failing method, or an
  argument that does not convert, leaves unit in the variable. The dispatchers
  (741-787) store it back after every attempt, but not when an argument does not
  convert. `ReceiverComesBack` says which calls do put it back.

* `LinkerNamesMatch`. runtime.rs 167-168: "Creates a binder from the same
  configuration used to generate the `.wit` document, so linker names always
  match the generated file." Both use `to_kebab`, which escapes a keyword
  (names.rs 83-89). In the document the escape is part of WIT's syntax and not
  of the name; the linker keeps it, so a component that imports `list` does not
  find `%list`. `WorldIsServed` and `CallersFindExports` hold for all other
  names.

In the first three the effect is a resource that is held until the store or the binder
is torn down. The other properties hold in spite of them: `NoSilentLeak` and
`NoSilentOrphan` exclude exactly the paths that `faulted` and `lost` record.

Noted while modelling, without a run of their own; each is either an exception
that a property names or outside the properties.

* Lua. An instantiation of a function that only its module declares is declared
  to the editor but never bound (`bind_fn` knows the function's own; decl.rs
  681-712). Names of monomorphs are not compared with fields, properties and
  plain async methods, nor with other functions of the module, and those of
  trait methods not with the first three (binder.rs 540-605): the later
  registration replaces the earlier one, and a field hides a method. The
  monomorphs of a function can also replace a constant, a type or a submodule of
  its module, and what an enum has on its table besides its cases (associated
  functions, the constructor of `Default`) a case. A module called
  `haphe_error` is replaced by the function of that name (lib.rs 165-170).
  `ScriptsSeeDeclared` names these exceptions. Two instantiations of a type in
  one module share a table, and `Type(...)` keeps calling the `new` that was
  there when the metatable was made (binder.rs 685-699).
* decl.rs 682-686 says that static generics stay rejected; the code below it
  emits a stub for each instantiation. decl.rs 13-15 says that enum methods are
  not exposed; `bind_enum_type` exposes them.
* WIT. A struct or enum called `ScriptError` meets the generated `script-error`.
  Arguments that are references cannot be mangled without the registry, so
  `foreign_caller` refuses generic interfaces that `foreign_caller_in` accepts. A
  foreign interface without functions is left out of the document but looked up
  by the caller. Neither affects packages without such names.
* `val_to_script` resolves an enum case by its name among all enums of the
  registry (runtime.rs 1346-1376, 2268-2345). Two enums that declare one name
  with different numbers or payload lengths are valid, but such a unit case
  cannot come back from a guest, and such a variant case comes back as a map,
  which the enum's `FromScript` then refuses. `Representable` names this.
* Validation does not look up generic parameters in the types of trait impls
  (registry.rs 657-709), and the generator's `uses_for` does not visit those
  types.

## 7. What is hard to test, and what covers it

`PROJECT.json` lists each hazard with its line and its properties. In short:
`Drop` on another thread during a dispatch and the two-step drain
(`SingleOwner`, `NoStaleHandle`, `DroppedHandleIsDrained`); early returns
between taking a handle and passing it (`OwnershipSpec`, `NoSilentLeak`,
`TransferReachesGuest`, `DrainReclaimsAll`); a lent handle under a running guest
(`LentHandlesAreKept`); two consumers of one rep, and the put-back after a
rejection (`SingleHolder`, `RejectedReceiverStays`); writers while user code is
in the table (`BorrowExcludesWriters`, `ReceiverStays`); the two steps of an
insertion (`RepsAreNotReused`); re-entry into the table (`TableIsReleased`); the
order of flag and unpark and nested executors (`NoLostWakeup`,
`OuterWakeIsKept`, `EveryCallReturns`); which of several candidates has its side
effects, and that only one has (`OneBodyRuns`, `BestFitRuns`, `DeclarationOrder`,
`FallThroughOrder`); early returns while a method has its object
(`ReceiverComesBack`, `ReceiverKept`); values at the edges of the types and of
the runtimes' value models (`RoundTrip`, `ExactFitsConvert`); what other scripts
do to an object while a method is suspended or calls back (`StableUnderGuard`,
`NoLostUpdate`, `GuardIsReleased`); names that two pieces of code derive
independently (`WorldIsServed`, `CallersFindExports`); lookups that validation is
trusted to make safe (`PlanIsTotal`); registrations in any order that share one
namespace (`ScriptsSeeDeclared`).

Some hazards are covered less than their properties' names suggest. The
escaped names are excepted from `WorldIsServed` and `CallersFindExports`, so
only `LinkerNamesMatch` is about them. `NoSilentLeak` says nothing once
`faulted` is set, and `NoSilentOrphan` excepts the entries in `lost`: they show
that nothing else leaks. `ExactFitsConvert` is about lists of one kind of value;
of a mixed list only the first element is ranked and the promise does not hold.
`TableIsReleased` leaves out the re-entry that deadlocks.

## 8. What is not modelled

* Panics. A panic in user code under the table mutex, or in the guest call under
  the store mutex, poisons it, and every later `expect` panics.
* Re-entry of the caller: host code that the guest calls, and that calls the
  same caller, waits for a mutex its own thread holds. `ForeignCalls` and
  `HostResources` are separate models of the two directions.
* Other users of the store: `foreign_caller` takes an `Arc<Mutex<Store>>` that
  several callers, each with a drop queue of its own, may share.
* The asynchronous caller. It takes the steps of the synchronous one with the
  store mutex held across the await (runtime.rs 1812-1815 says deliberately);
  whether a second task of the same thread starts a call meanwhile, which would
  block the thread for good, is up to the program. Asynchronous wrappers in the
  other direction run the loop of `DynDispatch` with an await in each attempt;
  what other coroutines do to the receiver meanwhile is `LuaGuards`.
* Of a package: what section 2.7 leaves out. The types of linked definitions are
  the largest part; they are built from the same descriptors as the document's.
* Of Lua: operators, iteration steppers and the calls through a callbacks table;
  `luau_decl.rs`.
* Rhai: fields, operators, iterators, the foreign caller and the declarations.
* Of the matcher: `MatchQuality::No` is documented as "this candidate cannot
  accept the value" (dispatch.rs 22), which is meant for ranking only: unit for
  an option, a string or a number for an enum and an empty list for a map are
  ranked `No` and convert. The models keep this; no property depends on it.
* Wrap-around of the 32-bit `HostTable.next`.
* wasmtime, except for what the module comments of `ForeignCalls` and
  `HostResources` list.
* The components of section 1 without a module; section 9 says which are next.

## 9. Plan

Done, in this order: `HandleOwnership`, `ForeignCalls`, `HostResources`,
`BlockOn`, `Numbers`, `ScriptValues`, `Runtimes`, `DynDispatch` and their
proofs; `LuaGuards` and its proofs; `Descriptors`, `Registry`, `Capabilities`,
the WIT modules and `Packages`; `LuaSurface` and `LuaHost`; `PlanProofs`,
`PackagesProofs` and `LuaProofs`.
Left:

1. Tasks on executor threads for the asynchronous caller, with futures that are
   dropped half-way: which handles of a call are then left in the store.
2. The types of linked definitions against those of the document.
3. Rhai's registration and its declarations, in the manner of `LuaSurface`;
   `luau_decl.rs`.
4. `ForeignCalls` and `HostResources` on one call stack; mutex poisoning.

Theorems worth proving: a dropped future releases the store; `RoundTrip` and
`ExactFitsConvert`, once the conversions take types apart level by level as
`Descriptors` does.
