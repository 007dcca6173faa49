---------------------------- MODULE HostResources ----------------------------
(***************************************************************************)
(* The provided direction of haphe-wit: guest instances calling resources  *)
(* whose values live on the host, in the HostTable of one WasmBinder       *)
(* (host.rs), through the dispatch closures bind_resource_live defines     *)
(* (runtime.rs).  Several stores may be linked against one binder; each    *)
(* runs on its own thread, and all of them share the table and its mutex.  *)
(*                                                                         *)
(* A guest names a value by an own handle over its `rep`.  A call carries  *)
(* a receiver (borrowed, or moved for a consuming method) and perhaps one  *)
(* own argument; the handler lifts the argument, which removes its entry,  *)
(* acquires the receiver the way its kind demands, runs user code, and     *)
(* lowers the outcome, which may insert a fresh entry.  User code may      *)
(* itself mint a resource (`WasmBinder::host_resource`), which needs the   *)
(* table mutex: ReentrantOps says under which kinds of call it does.       *)
(*                                                                         *)
(* wasmtime is external.  Modelled of it: the guest's own handles; moving  *)
(* one into a call; the destructor it runs when a guest drops one; and     *)
(* that an instance which trapped is never entered again.                  *)
(***************************************************************************)
EXTENDS Naturals, FiniteSets

CONSTANTS
  Stores,        \* stores linked against the binder, one thread each
  Types,         \* registered resource types
  MaxRep,        \* bound: reps the table hands out
  ReentrantOps,  \* kinds of call whose user code mints resources
  NoType,        \* no entry
  Nobody         \* nobody holds the table mutex

(***************************************************************************)
(* assoc     constructors, associated and free functions: no receiver      *)
(* borrow    `&self`, `&mut self`, accessors, cmp, str, call, index: user  *)
(*           code, async included, runs under the table mutex              *)
(* clone     arith, items, length: the value is cloned under the mutex     *)
(* consume   `self`: the entry is taken out of the table for the call      *)
(* dyn       a dispatcher over borrowing candidates                        *)
(* dynOwned  a dispatcher over consuming candidates                        *)
(***************************************************************************)
Ops == {"assoc", "borrow", "clone", "consume", "dyn", "dynOwned"}
LockedOps == {"borrow", "dyn", "dynOwned"}
OwningOps == {"consume", "dynOwned"}
DynOps == {"dyn", "dynOwned"}

ASSUME HostAssumption ==
  /\ MaxRep \in Nat
  /\ ReentrantOps \subseteq Ops
  /\ NoType \notin Types
  /\ Nobody \notin Stores

Reps == 1 .. MaxRep
NoRep == 0

VARIABLES
  entries,  \* HostTable.entries: the type of each live value
  next,     \* HostTable.next
  table,    \* the store whose thread holds the table mutex across a step
  payload,  \* reps in HostResource payloads no store has minted yet
  own,      \* own handles in each store's guest
  pc,       \* where each store's thread is
  op,       \* the kind of the host call in progress
  self,     \* its receiver
  arg,      \* its own argument, until it is lifted
  want,     \* the type its member belongs to
  taken,    \* the type of the entry a consuming call took out of the table
  ticket,   \* the rep an insertion has drawn and not yet filled
  lost      \* history: reps whose handle went away without the destructor

callVars == <<op, self, arg, want, taken>>
vars == <<entries, next, table, payload, own, pc, callVars, ticket, lost>>

Live == {r \in Reps : entries[r] # NoType}

TypeOK ==
  /\ entries \in [Reps -> Types \cup {NoType}]
  /\ next \in 1 .. MaxRep + 1
  /\ table \in Stores \cup {Nobody}
  /\ payload \subseteq Reps
  /\ own \in [Stores -> SUBSET Reps]
  /\ pc \in [Stores -> {"idle", "filling", "guest", "lift", "acquire", "check",
                        "run", "minting", "putback", "insert", "dead"}]
  /\ op \in [Stores -> Ops]
  /\ self \in [Stores -> Reps \cup {NoRep}]
  /\ arg \in [Stores -> Reps \cup {NoRep}]
  /\ want \in [Stores -> Types \cup {NoType}]
  /\ taken \in [Stores -> Types \cup {NoType}]
  /\ ticket \in [Stores -> Reps \cup {NoRep}]
  /\ lost \subseteq Reps

Init ==
  /\ entries = [r \in Reps |-> NoType]
  /\ next = 1
  /\ table = Nobody
  /\ payload = {}
  /\ own = [s \in Stores |-> {}]
  /\ pc = [s \in Stores |-> "idle"]
  /\ op = [s \in Stores |-> "assoc"]
  /\ self = [s \in Stores |-> NoRep]
  /\ arg = [s \in Stores |-> NoRep]
  /\ want = [s \in Stores |-> NoType]
  /\ taken = [s \in Stores |-> NoType]
  /\ ticket = [s \in Stores |-> NoRep]
  /\ lost = {}

Goto(s, label) == pc' = [pc EXCEPT ![s] = label]

\* The mutex is free for a critical section, which is one step.
Unlocked == table = Nobody

-----------------------------------------------------------------------------
(***************************************************************************)
(* HostTable::insert: `fetch_add` on `next`, then the map insertion under  *)
(* the mutex.  It runs for `host_resource`, on an idle thread (filling) or *)
(* from user code (minting), and for a call's result (insert).             *)
(***************************************************************************)

\* Mutants: `next` is read and not advanced; it is advanced twice.
DrawByLoad(s) ==
  /\ next \in Reps
  /\ ticket' = [ticket EXCEPT ![s] = next]
  /\ UNCHANGED next

DrawTwice(s) ==
  /\ next \in Reps
  /\ ticket' = [ticket EXCEPT ![s] = next]
  /\ next' = next + 2

Draw(s) ==
  /\ next \in Reps
  /\ ticket' = [ticket EXCEPT ![s] = next]
  /\ next' = next + 1

Fill(s, type) ==
  /\ Unlocked
  /\ entries' = [entries EXCEPT ![ticket[s]] = type]
  /\ ticket' = [ticket EXCEPT ![s] = NoRep]

HostResource(s) ==
  /\ pc[s] = "idle"
  /\ Draw(s)
  /\ Goto(s, "filling")
  /\ UNCHANGED <<entries, table, payload, own, callVars, lost>>

\* Mutant: user code mints under a borrowed receiver too.
ReenterAnywhere(s) ==
  /\ pc[s] = "run"
  /\ Draw(s)
  /\ Goto(s, "minting")
  /\ UNCHANGED <<entries, table, payload, own, callVars, lost>>

\* User code calls `host_resource` in the middle of a call.
Reenter(s) ==
  /\ pc[s] = "run" /\ op[s] \in ReentrantOps
  /\ Draw(s)
  /\ Goto(s, "minting")
  /\ UNCHANGED <<entries, table, payload, own, callVars, lost>>

FillPayload(s, type) ==
  /\ pc[s] \in {"filling", "minting"}
  /\ Fill(s, type)
  /\ payload' = payload \cup {ticket[s]}
  /\ Goto(s, IF pc[s] = "filling" THEN "idle" ELSE "run")
  /\ UNCHANGED <<next, table, own, callVars, lost>>

\* An Unminted payload is dropped: HostResource has no Drop.
DropPayload(r) ==
  /\ r \in payload
  /\ payload' = payload \ {r}
  /\ lost' = lost \cup {r}
  /\ UNCHANGED <<entries, next, table, own, pc, callVars, ticket>>

-----------------------------------------------------------------------------
(***************************************************************************)
(* The guest of a store.                                                   *)
(***************************************************************************)

\* The host calls an export, passing payloads by value.
Enter(s, P) ==
  /\ pc[s] = "idle"
  /\ own' = [own EXCEPT ![s] = @ \cup P]
  /\ payload' = payload \ P
  /\ Goto(s, "guest")
  /\ UNCHANGED <<entries, next, table, callVars, ticket, lost>>

Leave(s) ==
  /\ pc[s] = "guest"
  /\ \E label \in {"idle", "dead"} : Goto(s, label)
  /\ UNCHANGED <<entries, next, table, payload, own, callVars, ticket, lost>>

\* Mutant: the destructor does not take the table mutex.
DropOwnUnlocked(s, r) ==
  /\ pc[s] = "guest" /\ r \in own[s]
  /\ own' = [own EXCEPT ![s] = @ \ {r}]
  /\ entries' = [entries EXCEPT ![r] = NoType]
  /\ UNCHANGED <<next, table, payload, pc, callVars, ticket, lost>>

\* The guest drops an own handle; the destructor is `dtor_table.remove(rep)`.
DropOwn(s, r) ==
  /\ pc[s] = "guest" /\ r \in own[s]
  /\ Unlocked
  /\ own' = [own EXCEPT ![s] = @ \ {r}]
  /\ entries' = [entries EXCEPT ![r] = NoType]
  /\ UNCHANGED <<next, table, payload, pc, callVars, ticket, lost>>

\* Mutant: a consuming receiver is declared as a borrow.
CallHostBorrowing(s, k, r, a, w) ==
  /\ pc[s] = "guest"
  /\ IF k = "assoc" THEN r = NoRep ELSE r \in own[s]
  /\ a \in {NoRep} \cup (own[s] \ {r})
  /\ op' = [op EXCEPT ![s] = k]
  /\ self' = [self EXCEPT ![s] = r]
  /\ arg' = [arg EXCEPT ![s] = a]
  /\ want' = [want EXCEPT ![s] = w]
  /\ own' = [own EXCEPT ![s] = @ \ {a}]
  /\ Goto(s, "lift")
  /\ UNCHANGED <<entries, next, table, payload, taken, ticket, lost>>

\* The guest calls a member of type w.  The receiver of an owning kind and
\* the argument are own handles, which the call moves to the host.  All
\* resource types share one wasmtime host type, so r may be of another type.
CallHost(s, k, r, a, w) ==
  /\ pc[s] = "guest"
  /\ IF k = "assoc" THEN r = NoRep ELSE r \in own[s]
  /\ a \in {NoRep} \cup (own[s] \ {r})
  /\ op' = [op EXCEPT ![s] = k]
  /\ self' = [self EXCEPT ![s] = r]
  /\ arg' = [arg EXCEPT ![s] = a]
  /\ want' = [want EXCEPT ![s] = w]
  /\ own' = [own EXCEPT ![s] = @ \ ({a} \cup IF k \in OwningOps THEN {r} ELSE {})]
  /\ Goto(s, "lift")
  /\ UNCHANGED <<entries, next, table, payload, taken, ticket, lost>>

-----------------------------------------------------------------------------
(***************************************************************************)
(* A dispatch closure.                                                     *)
(***************************************************************************)

\* The call is over: what it held is dropped.
Clear(s) ==
  /\ op' = [op EXCEPT ![s] = "assoc"]
  /\ self' = [self EXCEPT ![s] = NoRep]
  /\ arg' = [arg EXCEPT ![s] = NoRep]
  /\ want' = [want EXCEPT ![s] = NoType]
  /\ taken' = [taken EXCEPT ![s] = NoType]

\* The handles that were moved into the call and are in nobody's hands now.
Moved(s) ==
  ({arg[s]} \cup IF op[s] \in OwningOps THEN {self[s]} ELSE {}) \ {NoRep}

\* An error return: wasmtime traps the guest.
Trap(s) ==
  /\ Clear(s)
  /\ lost' = lost \cup Moved(s)
  /\ Goto(s, "dead")

Unlock(s) == table' = IF table = s THEN Nobody ELSE table

\* Mutant: an own argument is cloned out of the table, like a borrowed one.
LiftArgByClone(s) ==
  /\ pc[s] = "lift"
  /\ arg' = [arg EXCEPT ![s] = NoRep]
  /\ Goto(s, "acquire")
  /\ UNCHANGED <<entries, next, table, payload, own, op, self, want, taken,
                 ticket, lost>>

\* lift_args: lifting an own argument removes its entry.
LiftArg(s) ==
  /\ pc[s] = "lift"
  /\ IF arg[s] = NoRep
     THEN UNCHANGED entries
     ELSE /\ Unlocked
          /\ entries[arg[s]] # NoType
          /\ entries' = [entries EXCEPT ![arg[s]] = NoType]
  /\ arg' = [arg EXCEPT ![s] = NoRep]
  /\ Goto(s, "acquire")
  /\ UNCHANGED <<next, table, payload, own, op, self, want, taken, ticket,
                 lost>>

\* lift_args fails on another argument, before or after this one is lifted;
\* or a dispatcher has no candidate (left) to try.
LiftFails(s) ==
  /\ pc[s] \in {"lift", "acquire"}
  /\ Trap(s)
  /\ UNCHANGED <<entries, next, table, payload, own, ticket>>

AcquireNothing(s) ==
  /\ pc[s] = "acquire" /\ op[s] = "assoc"
  /\ Goto(s, "run")
  /\ UNCHANGED <<entries, next, table, payload, own, callVars, ticket, lost>>

\* Mutant: no check_type.
AcquireRefUnchecked(s) ==
  /\ pc[s] = "acquire" /\ op[s] \in LockedOps \cup {"clone"}
  /\ Unlocked
  /\ table' = IF op[s] = "clone" THEN Nobody ELSE s
  /\ Goto(s, "run")
  /\ UNCHANGED <<entries, next, payload, own, callVars, ticket, lost>>

\* `cx.table.lock()`, `get(&rep)`, check_type; the guard lives as long as the
\* user code, or only until the value is cloned.
AcquireRef(s) ==
  /\ pc[s] = "acquire" /\ op[s] \in LockedOps \cup {"clone"}
  /\ Unlocked
  /\ entries[self[s]] = want[s]
  /\ table' = IF op[s] = "clone" THEN Nobody ELSE s
  /\ Goto(s, "run")
  /\ UNCHANGED <<entries, next, payload, own, callVars, ticket, lost>>

\* A stale handle, or one of another type.
AcquireFails(s) ==
  /\ pc[s] = "acquire" /\ op[s] # "assoc"
  /\ Unlocked
  /\ entries[self[s]] = NoType \/ (op[s] # "consume" /\ entries[self[s]] # want[s])
  /\ Trap(s)
  /\ UNCHANGED <<entries, next, table, payload, own, ticket>>

\* `table.remove(rep)`: the entry is taken before its type is looked at.
AcquireOwned(s) ==
  /\ pc[s] = "acquire" /\ op[s] = "consume"
  /\ Unlocked
  /\ entries[self[s]] # NoType
  /\ taken' = [taken EXCEPT ![s] = entries[self[s]]]
  /\ entries' = [entries EXCEPT ![self[s]] = NoType]
  /\ Goto(s, "check")
  /\ UNCHANGED <<next, table, payload, own, op, self, arg, want, ticket, lost>>

CheckTaken(s) ==
  /\ pc[s] = "check"
  /\ Goto(s, IF taken[s] = want[s] THEN "run" ELSE "putback")
  /\ UNCHANGED <<entries, next, table, payload, own, callVars, ticket, lost>>

\* Mutant: the error return forgets the entry it took.
PutBackForgotten(s) ==
  /\ pc[s] = "putback"
  /\ Trap(s)
  /\ UNCHANGED <<entries, next, table, payload, own, ticket>>

\* `table.lock().insert(rep, taken)`, then the error return.
PutBack(s) ==
  /\ pc[s] = "putback"
  /\ Unlocked
  /\ entries' = [entries EXCEPT ![self[s]] = taken[s]]
  /\ Trap(s)
  /\ UNCHANGED <<next, table, payload, own, ticket>>

\* The owned receiver is spent; a dispatcher leaves its entry behind.
Spend(s) == lost' = lost \cup IF op[s] = "dynOwned" THEN {self[s]} ELSE {}

\* User code is done (Ok, or a Callee error of a fallible surface) and its
\* outcome holds no resource.
ReturnPlain(s) ==
  /\ pc[s] = "run"
  /\ Unlock(s)
  /\ Spend(s)
  /\ Clear(s)
  /\ Goto(s, "guest")
  /\ UNCHANGED <<entries, next, payload, own, ticket>>

\* own_handle / lower_resource: the result enters the table.
ReturnResource(s) ==
  /\ pc[s] = "run"
  /\ Unlock(s)
  /\ Spend(s)
  /\ Clear(s)
  /\ Draw(s)
  /\ Goto(s, "insert")
  /\ UNCHANGED <<entries, payload, own>>

InsertResult(s, type) ==
  /\ pc[s] = "insert"
  /\ Fill(s, type)
  /\ own' = [own EXCEPT ![s] = @ \cup {ticket[s]}]
  /\ Goto(s, "guest")
  /\ UNCHANGED <<next, table, payload, callVars, lost>>

\* A later part of the result does not lower: the entry is in the table, its
\* handle never reaches the guest.
InsertFails(s, type) ==
  /\ pc[s] = "insert"
  /\ Fill(s, type)
  /\ lost' = lost \cup {ticket[s]}
  /\ Goto(s, "dead")
  /\ UNCHANGED <<next, table, payload, own, callVars>>

\* A Callee error of an infallible surface, or a result that does not lower.
RunFails(s) ==
  /\ pc[s] = "run"
  /\ Unlock(s)
  /\ Trap(s)
  /\ UNCHANGED <<entries, next, payload, own, ticket>>

\* The implementation rejects its arguments: a consuming call puts the entry
\* back, a dispatcher tries its next candidate, any other call traps.
RunRejects(s) ==
  /\ pc[s] = "run"
  /\ op[s] \in DynOps \cup {"consume"}
  /\ Unlock(s)
  /\ Goto(s, IF op[s] = "consume" THEN "putback" ELSE "acquire")
  /\ UNCHANGED <<entries, next, payload, own, callVars, ticket, lost>>

-----------------------------------------------------------------------------
Handler(s) ==
  \/ LiftArg(s)
  \/ LiftFails(s)
  \/ AcquireNothing(s)
  \/ AcquireRef(s)
  \/ AcquireFails(s)
  \/ AcquireOwned(s)
  \/ CheckTaken(s)
  \/ PutBack(s)
  \/ ReturnPlain(s)
  \/ ReturnResource(s)
  \/ \E type \in Types : InsertResult(s, type)
  \/ \E type \in Types : InsertFails(s, type)
  \/ RunFails(s)
  \/ RunRejects(s)
  \/ \E type \in Types : FillPayload(s, type)

Next ==
  \/ \E s \in Stores :
       \/ HostResource(s)
       \/ Reenter(s)
       \/ \E P \in SUBSET payload : Enter(s, P)
       \/ Leave(s)
       \/ \E r \in Reps : DropOwn(s, r)
       \/ \E k \in Ops, r, a \in Reps \cup {NoRep}, w \in Types :
            CallHost(s, k, r, a, w)
       \/ Handler(s)
  \/ \E r \in Reps : DropPayload(r)

Spec == Init /\ [][Next]_vars

(***************************************************************************)
(* Fairness: a handler is straight-line code and user code is assumed to   *)
(* end.  A thread waiting for the mutex is not promised to get it before   *)
(* the others (std's Mutex is not fair), so fairness is weak.              *)
(***************************************************************************)
FairSpec == Spec /\ \A s \in Stores : WF_vars(Handler(s))
-----------------------------------------------------------------------------
(***************************************************************************)
(* Properties.                                                             *)
(***************************************************************************)

\* What the call in progress on s holds by value.
InCall(s) ==
  ({arg[s]} \cup IF op[s] \in OwningOps THEN {self[s]} ELSE {}) \ {NoRep}

Holders == [s \in Stores |-> own[s] \cup InCall(s)]
Reachable == payload \cup UNION {Holders[s] : s \in Stores}

\* A handle a guest owns, a payload the host kept, an argument on its way and
\* a receiver not yet taken all have their entry: `get` and `remove` never
\* fail on a handle obtained from this binder ("stale resource handle",
\* "already-consumed resource handle" of runtime.rs).
HandlesAreLive ==
  /\ payload \cup UNION {own[s] : s \in Stores} \subseteq Live
  /\ \A s \in Stores :
       /\ arg[s] # NoRep => arg[s] \in Live
       /\ self[s] # NoRep /\ taken[s] = NoType => self[s] \in Live
       /\ taken[s] # NoType => self[s] \notin Live

\* A rep has one holder: one guest's handle table, one call, or one payload,
\* and what is still being inserted has none.  "Exactly one concurrent
\* consumer wins" (define_method) because there is never a second.
SingleHolder ==
  /\ \A s \in Stores :
       /\ own[s] \cap InCall(s) = {}
       /\ arg[s] = self[s] => arg[s] = NoRep
       /\ Holders[s] \cap payload = {}
       /\ ticket[s] \notin Reachable \cup Live
  /\ \A s, u \in Stores : s # u =>
       /\ Holders[s] \cap Holders[u] = {}
       /\ ticket[s] = ticket[u] => ticket[s] = NoRep

\* The value a borrowed receiver refers to stays where it is, with the type
\* its member expects, for as long as user code runs on it, and the thread
\* that runs it holds the table mutex: `&mut *e.value` is unique.
ReceiverStays ==
  \A s \in Stores :
    /\ pc[s] = "run" /\ op[s] \in LockedOps =>
         /\ table = s
         /\ entries[self[s]] = want[s]
    /\ pc[s] = "run" /\ op[s] = "consume" => taken[s] = want[s]

\* While one thread is inside the table no other changes it: the destructor,
\* the argument lift, the put-back and every insertion wait.
BorrowExcludesWriters == [][table # Nobody => entries' = entries]_vars

\* Reps are not reused: a live entry keeps its type, and one appears only by
\* filling the rep drawn for it or by putting back what a call took.
RepsAreNotReused ==
  [][\A r \in Reps : r \in Live' =>
       IF r \in Live THEN entries'[r] = entries[r]
       ELSE \E s \in Stores :
              \/ ticket[s] = r
              \/ self[s] = r /\ taken[s] = entries'[r] /\ pc[s] = "putback"]_vars

\* Every entry can still be reached, hence reclaimed, by a guest, by a call
\* or through a payload, unless its handle was lost on one of the paths that
\* record it: a payload dropped, a call that trapped, a dispatcher that
\* spent its receiver's handle.  No successful call leaks.
NoSilentOrphan == Live \subseteq Reachable \cup lost

\* A consuming call whose implementation did not run leaves its receiver's
\* entry in the table (README.md: "an argument-conversion rejection leaves
\* the resource intact"), whatever other threads did since it was taken.
RejectedReceiverStays ==
  [][\A s \in Stores :
       /\ op[s] = "consume"
       /\ pc[s] \in {"lift", "acquire", "check", "putback"}
       /\ pc'[s] = "dead"
       => self[s] \in Live']_vars

\* A thread that entered the table leaves it, if user code under a borrowed
\* receiver does not come back for the table (runtime.rs: with a receiver it
\* "would deadlock (documented)"; without, "re-entrancy is safe").
TableIsReleased == \A s \in Stores : (table = s) ~> (table # s)

-----------------------------------------------------------------------------
\* What runtime.rs says of a dispatcher over consuming candidates: it "clones
\* at the boundary instead of consuming the table entry, so the handle stays
\* live".  The generated WIT passes `this` by value all the same.
DynHandleStaysLive ==
  [][\A s \in Stores :
       /\ op[s] = "dynOwned" /\ pc[s] = "run"
       /\ pc'[s] \in {"guest", "insert"}
       => self[s] \in own'[s]]_vars
=============================================================================
