---------------------------- MODULE ForeignCalls ----------------------------
(***************************************************************************)
(* The synchronous foreign caller of haphe-wit: host threads calling the   *)
(* exports of one guest instance through one `WasmForeignCaller`           *)
(* (runtime.rs, `CallerInner`), with the resource handles that cross.      *)
(*                                                                         *)
(* A resource handle reaches the host as an OWN handle in wasmtime's store *)
(* (`store` below) named by a `ResourceAny`, a plain copyable index.  The  *)
(* program keeps that index in a wrapper payload (`GuestResource` or       *)
(* `HostResource`, host.rs), in the caller's deferred drop queue, in the   *)
(* list a dispatch is draining, or in the argument vector of a call.       *)
(* wasmtime does not track the copies: that exactly one of those places    *)
(* names each live handle is up to the program, and is what this module    *)
(* checks, over every interleaving of the threads with one another, with   *)
(* `Drop` of the wrappers and with what the guest does.                    *)
(*                                                                         *)
(* wasmtime is external.  Modelled of it: `store`, the host's own handles; *)
(* `guest`, the resources the guest owns; an own handle moves from the one *)
(* to the other when a call passes or returns it; a call may fail before   *)
(* the guest runs, or trap.  Identities are recycled once nothing names    *)
(* them, which keeps the state space finite without a bound on calls.      *)
(***************************************************************************)
EXTENDS FiniteSets

CONSTANTS
  Threads,    \* host threads that call through the caller
  GuestRes,   \* resources the guest implements
  HostRes,    \* host resources: reps of the binder's HostTable
  Wrappers,   \* `ScriptValue::UserData` payload objects
  Nobody,     \* no thread holds the store mutex
  Nothing     \* a call result without a resource; a wrapper without one

ASSUME DisjointAssumption ==
  /\ GuestRes \cap HostRes = {}
  /\ Nobody \notin Threads
  /\ Nothing \notin GuestRes \cup HostRes

Res == GuestRes \cup HostRes

VARIABLES
  wst,      \* payload state of each wrapper object
  wres,     \* the resource a wrapper was made for
  store,    \* own handles in the store's host-side handle table (wasmtime)
  guest,    \* resources the guest owns (wasmtime)
  entries,  \* live entries of the binder's HostTable
  queue,    \* the caller's deferred drop queue (`CallerInner::drops`)
  caller,   \* whether the caller object is alive
  holder,   \* the thread holding the store mutex, or Nobody
  pc,       \* where each thread is in `call_sync`
  refs,     \* the wrappers among the arguments of the thread's call
  pending,  \* handles the thread's `drain_drops` still has to drop
  owned,    \* handles the thread lowered into own positions
  lent,     \* handles the thread lowered into borrow positions
  result,   \* the resource the thread's call returned
  faulted   \* history: some dispatch failed, or a documented leak happened

vars == <<wst, wres, store, guest, entries, queue, caller, holder, pc, refs,
          pending, owned, lent, result, faulted>>

wrapVars == <<wst, wres>>
handleVars == <<store, guest, entries>>
callVars == <<holder, pc, refs, pending, owned, lent, result>>

(***************************************************************************)
(* `GuestResource { handle: Some | None }` and                             *)
(* `HostResource { Unminted | Minted | Transferred }`.                     *)
(***************************************************************************)
Held == {"guestHeld", "minted"}
WrapperState == {"free", "guestHeld", "guestTaken",
                 "unminted", "minted", "transferred"}

TypeOK ==
  /\ wst \in [Wrappers -> WrapperState]
  /\ wres \in [Wrappers -> Res \cup {Nothing}]
  /\ store \subseteq Res
  /\ guest \subseteq Res
  /\ entries \subseteq HostRes
  /\ queue \subseteq Res
  /\ caller \in BOOLEAN
  /\ holder \in Threads \cup {Nobody}
  /\ pc \in [Threads -> {"idle", "lock", "take", "drain", "guest", "lift"}]
  /\ refs \in [Threads -> SUBSET Wrappers]
  /\ pending \in [Threads -> SUBSET Res]
  /\ owned \in [Threads -> SUBSET Res]
  /\ lent \in [Threads -> SUBSET Res]
  /\ result \in [Threads -> Res \cup {Nothing}]
  /\ faulted \in BOOLEAN

Init ==
  /\ wst = [w \in Wrappers |-> "free"]
  /\ wres = [w \in Wrappers |-> Nothing]
  /\ store = {} /\ guest = {} /\ entries = {} /\ queue = {}
  /\ caller = TRUE
  /\ holder = Nobody
  /\ pc = [t \in Threads |-> "idle"]
  /\ refs = [t \in Threads |-> {}]
  /\ pending = [t \in Threads |-> {}]
  /\ owned = [t \in Threads |-> {}]
  /\ lent = [t \in Threads |-> {}]
  /\ result = [t \in Threads |-> Nothing]
  /\ faulted = FALSE

-----------------------------------------------------------------------------
(***************************************************************************)
(* Payload objects.                                                        *)
(***************************************************************************)

\* Nothing in the system names r: a new resource may take the identity.
Fresh(r) ==
  /\ r \notin store \cup guest \cup entries \cup queue
  /\ \A w \in Wrappers : wst[w] # "free" => wres[w] # r
  /\ \A t \in Threads : r \notin pending[t] \cup owned[t] \cup {result[t]}

\* `WasmBinder::host_resource`: the value enters the table, the payload
\* starts Unminted.
NewHostResource(w, r) ==
  /\ wst[w] = "free" /\ Fresh(r)
  /\ wst' = [wst EXCEPT ![w] = "unminted"]
  /\ wres' = [wres EXCEPT ![w] = r]
  /\ entries' = entries \cup {r}
  /\ UNCHANGED <<store, guest, queue, caller, callVars, faulted>>

\* Mutant: the payload of a guest handle has no Drop.
DropWrapperSilently(w) ==
  /\ wst[w] # "free"
  /\ \A t \in Threads : w \notin refs[t]
  /\ wst' = [wst EXCEPT ![w] = "free"]
  /\ wres' = [wres EXCEPT ![w] = Nothing]
  /\ faulted' = (faulted \/ wst[w] \in {"unminted", "minted"})
  /\ UNCHANGED <<handleVars, queue, caller, callVars>>

\* Mutant: a HostResource payload erases its table entry when it goes.
DropWrapperErasing(w) ==
  /\ wst[w] # "free"
  /\ \A t \in Threads : w \notin refs[t]
  /\ wst' = [wst EXCEPT ![w] = "free"]
  /\ wres' = [wres EXCEPT ![w] = Nothing]
  /\ queue' = IF wst[w] = "guestHeld" THEN queue \cup {wres[w]} ELSE queue
  /\ entries' = entries \ {wres[w]}
  /\ faulted' = TRUE
  /\ UNCHANGED <<store, guest, caller, callVars>>

\* Mutant: a call does not keep its argument payloads alive.
DropWrapperInFlight(w) ==
  /\ wst[w] # "free"
  /\ wst' = [wst EXCEPT ![w] = "free"]
  /\ wres' = [wres EXCEPT ![w] = Nothing]
  /\ queue' = IF wst[w] = "guestHeld" THEN queue \cup {wres[w]} ELSE queue
  /\ faulted' = TRUE
  /\ UNCHANGED <<handleVars, caller, callVars>>

\* The last reference to a payload goes away.  `GuestResource::drop` queues
\* a handle it still holds, if the caller is still there to drain the queue;
\* `HostResource` has no Drop: what it held lives on in store and table.
DropWrapper(w) ==
  /\ wst[w] # "free"
  /\ \A t \in Threads : w \notin refs[t]
  /\ wst' = [wst EXCEPT ![w] = "free"]
  /\ wres' = [wres EXCEPT ![w] = Nothing]
  /\ queue' = IF wst[w] = "guestHeld" /\ caller
              THEN queue \cup {wres[w]} ELSE queue
  /\ faulted' = (faulted \/ wst[w] \in {"unminted", "minted"}
                         \/ (wst[w] = "guestHeld" /\ ~caller))
  /\ UNCHANGED <<handleVars, caller, callVars>>

\* The caller object is dropped, and its queue with it.
DropCaller ==
  /\ caller
  /\ \A t \in Threads : pc[t] = "idle"
  /\ caller' = FALSE
  /\ queue' = {}
  /\ faulted' = (faulted \/ queue # {})
  /\ UNCHANGED <<wrapVars, handleVars, callVars>>

-----------------------------------------------------------------------------
(***************************************************************************)
(* `call_sync`: lock the store, drain the drops, lower the arguments, run  *)
(* the guest, unlock, lift the result.                                     *)
(***************************************************************************)

Goto(t, label) == pc' = [pc EXCEPT ![t] = label]

\* `caller.call(function, args)` with the payloads S among its arguments.
\* The wrappers stay referenced by the argument slice until the call ends.
BeginCall(t, S) ==
  /\ caller /\ pc[t] = "idle"
  /\ \A w \in S : wst[w] # "free"
  /\ refs' = [refs EXCEPT ![t] = S]
  /\ Goto(t, "lock")
  /\ UNCHANGED <<wrapVars, handleVars, queue, caller, holder, pending, owned,
                 lent, result, faulted>>

\* Mutant: the store is entered without waiting for its mutex.
LockStoreUnchecked(t) ==
  /\ pc[t] = "lock"
  /\ holder' = t
  /\ Goto(t, "take")
  /\ UNCHANGED <<wrapVars, handleVars, queue, caller, refs, pending, owned,
                 lent, result, faulted>>

LockStore(t) ==
  /\ pc[t] = "lock" /\ holder = Nobody
  /\ holder' = t
  /\ Goto(t, "take")
  /\ UNCHANGED <<wrapVars, handleVars, queue, caller, refs, pending, owned,
                 lent, result, faulted>>

\* Mutant: an error path that leaves the store locked.
FailKeepingStore(t) ==
  /\ Goto(t, "idle")
  /\ refs' = [refs EXCEPT ![t] = {}]
  /\ pending' = [pending EXCEPT ![t] = {}]
  /\ owned' = [owned EXCEPT ![t] = {}]
  /\ lent' = [lent EXCEPT ![t] = {}]
  /\ faulted' = TRUE
  /\ UNCHANGED holder

\* An early return by `?`: the store guard, the pending list and the lowered
\* values are dropped.  A `ResourceAny` is a plain index: nothing is undone.
Fail(t) ==
  /\ holder' = Nobody
  /\ Goto(t, "idle")
  /\ refs' = [refs EXCEPT ![t] = {}]
  /\ pending' = [pending EXCEPT ![t] = {}]
  /\ owned' = [owned EXCEPT ![t] = {}]
  /\ lent' = [lent EXCEPT ![t] = {}]
  /\ faulted' = TRUE

\* Mutant: the queue is copied, not taken.
TakeDropsByCopy(t) ==
  /\ pc[t] = "take"
  /\ pending' = [pending EXCEPT ![t] = queue]
  /\ Goto(t, "drain")
  /\ UNCHANGED <<wrapVars, handleVars, queue, caller, holder, refs, owned,
                 lent, result, faulted>>

\* Mutant: a dispatch does not drain.
SkipDrops(t) ==
  /\ pc[t] = "take"
  /\ Goto(t, "drain")
  /\ UNCHANGED <<wrapVars, handleVars, queue, caller, holder, refs, pending,
                 owned, lent, result, faulted>>

\* drain_drops: `mem::take` of the queue.
TakeDrops(t) ==
  /\ pc[t] = "take"
  /\ pending' = [pending EXCEPT ![t] = queue]
  /\ queue' = {}
  /\ Goto(t, "drain")
  /\ UNCHANGED <<wrapVars, handleVars, caller, holder, refs, owned, lent,
                 result, faulted>>

\* drain_drops: one `resource_drop`.  For a host resource the handle came
\* back from the guest; its registered destructor removes the table entry.
DropPending(t, r) ==
  /\ pc[t] = "drain" /\ r \in pending[t]
  /\ pending' = [pending EXCEPT ![t] = @ \ {r}]
  /\ store' = store \ {r}
  /\ entries' = entries \ {r}
  /\ UNCHANGED <<wrapVars, guest, queue, caller, holder, pc, refs, owned,
                 lent, result, faulted>>

\* drain_drops: the guest's destructor trapped; the rest of the list goes
\* with the early return.
DropFails(t, r) ==
  /\ pc[t] = "drain" /\ r \in pending[t] \cap GuestRes
  /\ store' = store \ {r}
  /\ Fail(t)
  /\ UNCHANGED <<wrapVars, guest, entries, queue, caller, result>>

Lowering(t) == pc[t] = "drain" /\ pending[t] = {}

\* Mutant: the payload keeps a handle passed by value.
LowerOwnByCopy(t, w) ==
  /\ Lowering(t) /\ w \in refs[t]
  /\ wst[w] \in Held \cup {"unminted"}
  /\ wst' = [wst EXCEPT ![w] = IF wst[w] = "unminted" THEN "minted" ELSE @]
  /\ store' = store \cup {wres[w]}
  /\ owned' = [owned EXCEPT ![t] = @ \cup {wres[w]}]
  /\ UNCHANGED <<wres, guest, entries, queue, caller, holder, pc, refs,
                 pending, lent, result, faulted>>

\* lower_resource, `own` position: `handle.take()` of a guest resource, the
\* Transferred state of a host resource, minted first if it was not yet.
LowerOwn(t, w) ==
  /\ Lowering(t) /\ w \in refs[t]
  /\ wst[w] \in Held \cup {"unminted"}
  /\ wst' = [wst EXCEPT ![w] = IF wst[w] = "guestHeld" THEN "guestTaken"
                                                       ELSE "transferred"]
  /\ store' = store \cup {wres[w]}
  /\ owned' = [owned EXCEPT ![t] = @ \cup {wres[w]}]
  /\ UNCHANGED <<wres, guest, entries, queue, caller, holder, pc, refs,
                 pending, lent, result, faulted>>

\* lower_resource, `borrow` position: the payload keeps its handle.
LowerBorrow(t, w) ==
  /\ Lowering(t) /\ w \in refs[t]
  /\ wst[w] \in Held \cup {"unminted"}
  /\ wst' = [wst EXCEPT ![w] = IF wst[w] = "unminted" THEN "minted" ELSE @]
  /\ store' = store \cup {wres[w]}
  /\ lent' = [lent EXCEPT ![t] = @ \cup {wres[w]}]
  /\ UNCHANGED <<wres, guest, entries, queue, caller, holder, pc, refs,
                 pending, owned, result, faulted>>

\* lower_args fails: wrong arity, a value that does not convert, or a payload
\* whose handle is already transferred.
LowerFails(t) ==
  /\ Lowering(t)
  /\ Fail(t)
  /\ UNCHANGED <<wrapVars, handleVars, queue, caller, result>>

\* `f.func.call`: wasmtime moves the own arguments to the guest, which runs.
\* It refuses an own argument whose handle is lent by the same call.
EnterGuest(t) ==
  /\ Lowering(t)
  /\ owned[t] \cap lent[t] = {}
  /\ store' = store \ owned[t]
  /\ guest' = guest \cup owned[t]
  /\ owned' = [owned EXCEPT ![t] = {}]
  /\ Goto(t, "guest")
  /\ UNCHANGED <<wrapVars, entries, queue, caller, holder, refs, pending, lent,
                 result, faulted>>

\* The call fails before guest code runs (poisoned instance, wrong types, a
\* handle of another store): some own arguments may have been moved.
EnterFails(t) ==
  /\ Lowering(t)
  /\ \E moved \in SUBSET owned[t] :
       /\ store' = store \ moved
       /\ guest' = guest \cup moved
  /\ Fail(t)
  /\ UNCHANGED <<wrapVars, entries, queue, caller, result>>

GuestTraps(t) ==
  /\ pc[t] = "guest"
  /\ Fail(t)
  /\ UNCHANGED <<wrapVars, handleVars, queue, caller, result>>

\* Mutant: a result is taken for a handle whatever it is.
GuestReturnsHandle(t, r) ==
  /\ pc[t] = "guest"
  /\ r \in guest \cup {Nothing}
  /\ guest' = guest \ {r}
  /\ store' = store \cup {r}
  /\ result' = [result EXCEPT ![t] = r]
  /\ lent' = [lent EXCEPT ![t] = {}]
  /\ holder' = Nobody
  /\ Goto(t, "lift")
  /\ UNCHANGED <<wrapVars, entries, queue, caller, refs, pending, owned,
                 faulted>>

\* The guest returns, with an own handle or without; the store is unlocked
\* before the result is lifted.
GuestReturns(t, r) ==
  /\ pc[t] = "guest"
  /\ r \in guest \cup {Nothing}
  /\ guest' = guest \ {r}
  /\ store' = IF r = Nothing THEN store ELSE store \cup {r}
  /\ result' = [result EXCEPT ![t] = r]
  /\ lent' = [lent EXCEPT ![t] = {}]
  /\ holder' = Nobody
  /\ Goto(t, "lift")
  /\ UNCHANGED <<wrapVars, entries, queue, caller, refs, pending, owned,
                 faulted>>

EndCall(t) ==
  /\ Goto(t, "idle")
  /\ refs' = [refs EXCEPT ![t] = {}]
  /\ result' = [result EXCEPT ![t] = Nothing]
  /\ UNCHANGED <<handleVars, caller, holder, pending, owned, lent>>

LiftPlain(t) ==
  /\ pc[t] = "lift" /\ result[t] = Nothing
  /\ EndCall(t)
  /\ UNCHANGED <<wrapVars, queue, faulted>>

\* lift_result: the handle gets a fresh GuestResource wrapper, whichever
\* side implements the resource.
LiftResource(t, w) ==
  /\ pc[t] = "lift" /\ result[t] # Nothing
  /\ wst[w] = "free"
  /\ wst' = [wst EXCEPT ![w] = "guestHeld"]
  /\ wres' = [wres EXCEPT ![w] = result[t]]
  /\ EndCall(t)
  /\ UNCHANGED <<queue, faulted>>

\* lift_result fails on another part of the value: a handle lifted before it
\* is dropped with its wrapper, one not lifted yet is forgotten.
LiftFails(t) ==
  /\ pc[t] = "lift" /\ result[t] # Nothing
  /\ \/ queue' = queue \cup {result[t]}
     \/ UNCHANGED queue
  /\ EndCall(t)
  /\ faulted' = TRUE
  /\ UNCHANGED wrapVars

-----------------------------------------------------------------------------
(***************************************************************************)
(* The guest, while one of the threads runs it.                            *)
(***************************************************************************)

GuestCreates(t, r) ==
  /\ pc[t] = "guest" /\ r \in GuestRes /\ Fresh(r)
  /\ guest' = guest \cup {r}
  /\ UNCHANGED <<wrapVars, store, entries, queue, caller, callVars, faulted>>

\* Mutant: no destructor is registered for host resources.
GuestDropsOnly(t, r) ==
  /\ pc[t] = "guest" /\ r \in guest
  /\ guest' = guest \ {r}
  /\ UNCHANGED <<wrapVars, store, entries, queue, caller, callVars, faulted>>

\* Dropping an own handle; that of a host resource runs the destructor
\* `bind_resource_live` registered, `dtor_table.remove(rep)`.
GuestDrops(t, r) ==
  /\ pc[t] = "guest" /\ r \in guest
  /\ guest' = guest \ {r}
  /\ entries' = entries \ {r}
  /\ UNCHANGED <<wrapVars, store, queue, caller, callVars, faulted>>

-----------------------------------------------------------------------------
Dispatch(t) ==
  \/ LockStore(t)
  \/ TakeDrops(t)
  \/ \E r \in Res : DropPending(t, r)
  \/ \E r \in GuestRes : DropFails(t, r)
  \/ \E w \in Wrappers : LowerOwn(t, w)
  \/ \E w \in Wrappers : LowerBorrow(t, w)
  \/ LowerFails(t)
  \/ EnterGuest(t)
  \/ EnterFails(t)
  \/ GuestTraps(t)
  \/ \E r \in Res \cup {Nothing} : GuestReturns(t, r)
  \/ LiftPlain(t)
  \/ \E w \in Wrappers : LiftResource(t, w)
  \/ LiftFails(t)

Next ==
  \/ \E w \in Wrappers, r \in HostRes : NewHostResource(w, r)
  \/ \E w \in Wrappers : DropWrapper(w)
  \/ DropCaller
  \/ \E t \in Threads, S \in SUBSET Wrappers : BeginCall(t, S)
  \/ \E t \in Threads : Dispatch(t)
  \/ \E t \in Threads, r \in GuestRes : GuestCreates(t, r)
  \/ \E t \in Threads, r \in Res : GuestDrops(t, r)

Spec == Init /\ [][Next]_vars

(***************************************************************************)
(* Fairness: once begun, a dispatch is straight-line code on a running     *)
(* thread, so each of its steps is weakly fair; the guest call is assumed  *)
(* to end (by returning or trapping).  Nothing makes a host begin a call,  *)
(* drop a wrapper or create a resource.                                    *)
(***************************************************************************)
FairSpec == Spec /\ \A t \in Threads : WF_vars(Dispatch(t))

-----------------------------------------------------------------------------
(***************************************************************************)
(* Properties.                                                             *)
(***************************************************************************)

HeldRes == {wres[w] : w \in {v \in Wrappers : wst[v] \in Held}}
Unminted == {wres[w] : w \in {v \in Wrappers : wst[v] = "unminted"}}

\* Resources the program can still reach from the host side.
Named ==
  HeldRes \cup Unminted \cup queue
    \cup UNION {pending[t] \cup owned[t] \cup {result[t]} : t \in Threads}

\* No two places own the same handle: not two payloads, not a payload and
\* the drop queue, not the argument vectors of two calls, not host and guest.
\* A second owner would pass or drop one `ResourceAny` twice (the payload
\* states of host.rs, `mem::take` in drain_drops and `take()` in
\* lower_resource are what rules it out).
SingleOwner ==
  /\ \A v, w \in Wrappers :
       v # w /\ {wst[v], wst[w]} \subseteq Held \cup {"unminted"}
         => wres[v] # wres[w]
  /\ \A t \in Threads :
       /\ pending[t] \cap (queue \cup HeldRes \cup Unminted) = {}
       /\ owned[t] \cap (queue \cup HeldRes \cup Unminted) = {}
       /\ result[t] \notin queue \cup HeldRes \cup Unminted
       /\ \A u \in Threads \ {t} :
            /\ (pending[t] \cup owned[t]) \cap (pending[u] \cup owned[u]) = {}
            /\ result[t] = result[u] => result[t] = Nothing
            /\ result[t] \notin pending[u] \cup owned[u]
  /\ queue \cap (HeldRes \cup Unminted) = {}
  /\ guest \cap (store \cup Named) = {}

\* Every handle the program may still pass, lend or drop is live in the
\* store: `resource_drop` and `call` never see a stale `ResourceAny`.
NoStaleHandle ==
  /\ HeldRes \cup queue \subseteq store
  /\ \A t \in Threads : pending[t] \cup owned[t] \cup lent[t] \subseteq store
  /\ \A t \in Threads : result[t] # Nothing => result[t] \in store

\* A handle over a host rep, on either side, has its HostTable entry: the
\* destructor runs last, and never for a rep somebody can still use.
HostHandlesHaveEntries ==
  (HostRes \cap (store \cup guest \cup HeldRes)) \cup Unminted \subseteq entries

\* While the guest runs on behalf of t, what was lent to it stays the host's
\* and stays with a payload the call itself keeps alive: nobody drops or
\* transfers a borrowed handle under a running guest.
LentHandlesAreKept ==
  \A t \in Threads : pc[t] = "guest" =>
    \A r \in lent[t] : \E w \in refs[t] : wst[w] \in Held /\ wres[w] = r

\* Without a failed dispatch and without one of the documented leaks
\* (payload of a minted host resource dropped, caller gone) the store holds
\* no handle the program has lost.
NoSilentLeak == ~faulted => store \subseteq Named

\* Guest code runs, and handles are moved, only under the store mutex.
StoreExclusion ==
  \A t \in Threads : pc[t] \in {"take", "drain", "guest"} <=> holder = t

\* Dropping a wrapper while somebody is dispatching is enough for its handle
\* to be reclaimed: the drop queue is drained by the next dispatch, whichever
\* thread gets the store first.
DroppedHandleIsDrained ==
  \A r \in Res :
    (r \in queue /\ \E t \in Threads : pc[t] = "lock") ~> (r \notin queue)

\* A dispatch always gives the store back, on every path out of call_sync.
StoreIsReleased == \A t \in Threads : (holder = t) ~> (holder # t)

-----------------------------------------------------------------------------
(***************************************************************************)
(* What the comments of host.rs and runtime.rs promise and the failure     *)
(* paths do not keep.                                                      *)
(***************************************************************************)

\* host.rs: "an `own` position TRANSFERS the handle to the guest, whose
\* eventual drop runs the registered destructor".
TransferReachesGuest ==
  \A w \in Wrappers :
    wst[w] = "transferred" /\ wres[w] \in store => wres[w] \in Named

\* runtime.rs, drain_drops: "Reclaims guest handles whose host wrappers were
\* dropped since the last dispatch."
DrainReclaimsAll ==
  [][\A t \in Threads :
       pc[t] = "drain" /\ pc'[t] # "drain" => pending[t] \cap store' = {}]_vars

-----------------------------------------------------------------------------
(***************************************************************************)
(* The caller implements HandleOwnership.                                  *)
(***************************************************************************)
OwnerOf(r) ==
  IF r \in guest THEN "guest"
  ELSE IF r \in Named THEN "host"
  ELSE IF r \in store \cup entries THEN "lost"
  ELSE "none"

Ownership == INSTANCE HandleOwnership
               WITH Resources <- Res, owner <- [r \in Res |-> OwnerOf(r)]
OwnershipSpec == Ownership!Spec
=============================================================================
