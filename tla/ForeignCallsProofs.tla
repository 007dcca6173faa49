-------------------------- MODULE ForeignCallsProofs --------------------------
(***************************************************************************)
(* Proofs about ForeignCalls, for any sets of threads, resources and       *)
(* payload objects: every safety invariant the runs check, and that        *)
(* ForeignCalls implements HandleOwnership.                                *)
(*                                                                         *)
(* The invariants of ForeignCalls speak of sets (HeldRes, Named).  Here    *)
(* they are strengthened, and restated place by place: a payload, the drop *)
(* queue, or a call in flight.  Each step then disturbs one place.         *)
(***************************************************************************)
EXTENDS ForeignCalls, TLAPS

\* The payload w is responsible for its resource.
Owns(w) == wst[w] \in {"guestHeld", "minted", "unminted"}

\* The resources the call of t is responsible for.
InFlight(t) == pending[t] \cup owned[t] \cup ({result[t]} \ {Nothing})

\* What a call holds at which point of `call_sync`.
CallShape ==
  \A t \in Threads :
    /\ pc[t] # "drain" => pending[t] = {} /\ owned[t] = {}
    /\ pending[t] # {} => owned[t] = {} /\ lent[t] = {}
    /\ pc[t] \notin {"drain", "guest"} => lent[t] = {}
    /\ pc[t] # "lift" => result[t] = Nothing

\* A payload in use was made for a resource.
PayloadShape == \A w \in Wrappers : wst[w] # "free" => wres[w] \in Res

\* No resource is in two places.
OneOwner ==
  /\ \A v, w \in Wrappers : v # w /\ Owns(v) /\ Owns(w) => wres[v] # wres[w]
  /\ \A w \in Wrappers : Owns(w) => wres[w] \notin queue \cup guest
  /\ \A t \in Threads, w \in Wrappers : Owns(w) => wres[w] \notin InFlight(t)
  /\ \A t \in Threads : InFlight(t) \cap (queue \cup guest) = {}
  /\ \A t, u \in Threads : t # u => InFlight(t) \cap InFlight(u) = {}
  /\ guest \cap (store \cup queue) = {}

\* Whatever is responsible for a handle has it in the store.
HandlesAreInStore ==
  /\ \A w \in Wrappers : wst[w] \in Held => wres[w] \in store
  /\ queue \subseteq store
  /\ \A t \in Threads : InFlight(t) \cup lent[t] \subseteq store

\* Host resources in use have their entry.
EntriesAreKept ==
  /\ HostRes \cap (store \cup guest) \subseteq entries
  /\ \A w \in Wrappers : wst[w] = "unminted" => wres[w] \in entries

\* What a call has lent is still in one of its payloads, unless the call
\* itself has moved it since (which wasmtime then refuses).
LentStaysInPayload ==
  \A t \in Threads : \A r \in lent[t] :
    r \in owned[t] \/ \E w \in refs[t] : wst[w] \in Held /\ wres[w] = r

\* Until something fails every handle of the store has its owner.
OwnersAreKnown ==
  ~faulted =>
    \A r \in store :
      \/ r \in queue
      \/ \E w \in Wrappers : Owns(w) /\ wres[w] = r
      \/ \E t \in Threads : r \in InFlight(t)

IInv ==
  /\ TypeOK
  /\ StoreExclusion
  /\ CallShape
  /\ PayloadShape
  /\ OneOwner
  /\ HandlesAreInStore
  /\ EntriesAreKept
  /\ LentStaysInPayload
  /\ OwnersAreKnown

-----------------------------------------------------------------------------
\* Nothing is named and nothing runs: every conjunct holds of Init.
LEMMA InitIInv == Init => IInv
<1> SUFFICES ASSUME Init PROVE IInv
  OBVIOUS
<1> USE DisjointAssumption DEF Init
<1>1. TypeOK /\ StoreExclusion /\ CallShape /\ PayloadShape
  BY DEF TypeOK, WrapperState, StoreExclusion, CallShape, PayloadShape
<1>2. OneOwner
  BY DEF OneOwner, Owns, InFlight
<1>3. HandlesAreInStore /\ EntriesAreKept
  BY DEF HandlesAreInStore, EntriesAreKept, Held, InFlight
<1>4. LentStaysInPayload /\ OwnersAreKnown
  BY DEF LentStaysInPayload, OwnersAreKnown
<1> QED BY <1>1, <1>2, <1>3, <1>4 DEF IInv

\* A new payload names a resource nothing else names.
LEMMA NewHostResourceStep ==
  ASSUME IInv, NEW w \in Wrappers, NEW r \in HostRes, NewHostResource(w, r)
  PROVE  IInv'
<1> USE DisjointAssumption DEF IInv, NewHostResource, Fresh, callVars
<1>1. TypeOK'
  BY DEF TypeOK, WrapperState, Res
<1>2. StoreExclusion'
  BY DEF StoreExclusion
<1>3. CallShape'
  BY DEF CallShape
<1>4. PayloadShape'
  BY DEF PayloadShape, TypeOK, Res
<1>5. OneOwner'
  BY DEF OneOwner, TypeOK, Owns, InFlight
<1>6. HandlesAreInStore'
  BY DEF HandlesAreInStore, Held, InFlight
<1>7. EntriesAreKept'
  BY DEF EntriesAreKept, TypeOK
<1>8. LentStaysInPayload'
  BY DEF LentStaysInPayload, Held
<1>9. OwnersAreKnown'
  BY DEF OwnersAreKnown, Owns, InFlight
<1> QED BY <1>1, <1>2, <1>3, <1>4, <1>5, <1>6, <1>7, <1>8, <1>9

\* A payload's handle moves to the queue, or is recorded as lost; no call in
\* flight refers to the payload.
LEMMA DropWrapperStep ==
  ASSUME IInv, NEW w \in Wrappers, DropWrapper(w)
  PROVE  IInv'
<1> USE DisjointAssumption DEF IInv, DropWrapper, handleVars, callVars
<1>1. TypeOK'
  BY DEF TypeOK, PayloadShape, WrapperState
<1>2. StoreExclusion'
  BY DEF StoreExclusion
<1>3. CallShape'
  BY DEF CallShape
<1>4. PayloadShape'
  BY DEF PayloadShape, TypeOK
<1>5. OneOwner'
  <2>1. (\A v, u \in Wrappers : v # u /\ Owns(v) /\ Owns(u) => wres[v] # wres[u])'
    BY DEF OneOwner, TypeOK, Owns
  <2>2. (\A v \in Wrappers : Owns(v) => wres[v] \notin queue \cup guest)'
    BY DEF OneOwner, TypeOK, Owns
  <2>3. (\A u \in Threads, v \in Wrappers : Owns(v) => wres[v] \notin InFlight(u))'
    BY DEF OneOwner, TypeOK, Owns, InFlight
  <2>4. (\A u \in Threads : InFlight(u) \cap (queue \cup guest) = {})'
    BY DEF OneOwner, TypeOK, Owns, InFlight
  <2>5. (\A u, v \in Threads : u # v => InFlight(u) \cap InFlight(v) = {})'
    BY DEF OneOwner, InFlight
  <2>6. (guest \cap (store \cup queue) = {})'
    BY DEF OneOwner, TypeOK, Owns
  <2> QED BY <2>1, <2>2, <2>3, <2>4, <2>5, <2>6 DEF OneOwner
<1>6. HandlesAreInStore'
  BY DEF HandlesAreInStore, TypeOK, Held, InFlight
<1>7. EntriesAreKept'
  BY DEF EntriesAreKept, TypeOK
<1>8. LentStaysInPayload'
  BY DEF LentStaysInPayload
<1>9. OwnersAreKnown'
  BY DEF OwnersAreKnown, TypeOK, Owns, InFlight
<1> QED BY <1>1, <1>2, <1>3, <1>4, <1>5, <1>6, <1>7, <1>8, <1>9

\* The queue goes with the caller; no call is in flight.
LEMMA DropCallerStep ==
  ASSUME IInv, DropCaller
  PROVE  IInv'
<1> USE DisjointAssumption DEF IInv, DropCaller, wrapVars, handleVars, callVars
<1>1. TypeOK'
  BY DEF TypeOK
<1>2. StoreExclusion'
  BY DEF StoreExclusion
<1>3. CallShape'
  BY DEF CallShape
<1>4. PayloadShape'
  BY DEF PayloadShape
<1>5. OneOwner'
  BY DEF OneOwner, Owns, InFlight
<1>6. HandlesAreInStore'
  BY DEF HandlesAreInStore, InFlight
<1>7. EntriesAreKept'
  BY DEF EntriesAreKept
<1>8. LentStaysInPayload'
  BY DEF LentStaysInPayload
<1>9. OwnersAreKnown'
  BY DEF OwnersAreKnown, Owns, InFlight
<1> QED BY <1>1, <1>2, <1>3, <1>4, <1>5, <1>6, <1>7, <1>8, <1>9

\* A call only takes note of its arguments.
LEMMA BeginCallStep ==
  ASSUME IInv, NEW t \in Threads, NEW S \in SUBSET Wrappers, BeginCall(t, S)
  PROVE  IInv'
<1> USE DisjointAssumption DEF IInv, BeginCall, Goto, wrapVars, handleVars
<1>1. TypeOK'
  BY DEF TypeOK
<1>2. StoreExclusion'
  BY DEF StoreExclusion
<1>3. CallShape'
  BY DEF CallShape
<1>4. PayloadShape'
  BY DEF PayloadShape
<1>5. OneOwner'
  BY DEF OneOwner, Owns, InFlight
<1>6. HandlesAreInStore'
  BY DEF HandlesAreInStore, InFlight
<1>7. EntriesAreKept'
  BY DEF EntriesAreKept
<1>8. LentStaysInPayload'
  BY DEF LentStaysInPayload, CallShape
<1>9. OwnersAreKnown'
  BY DEF OwnersAreKnown, Owns, InFlight
<1> QED BY <1>1, <1>2, <1>3, <1>4, <1>5, <1>6, <1>7, <1>8, <1>9

\* The mutex passes to a thread that holds nothing yet.
LEMMA LockStoreStep ==
  ASSUME IInv, NEW t \in Threads, LockStore(t)
  PROVE  IInv'
<1> USE DisjointAssumption DEF IInv, LockStore, Goto, wrapVars, handleVars
<1>1. TypeOK'
  BY DEF TypeOK
<1>2. StoreExclusion'
  BY DEF StoreExclusion, TypeOK
<1>3. CallShape'
  BY DEF CallShape
<1>4. PayloadShape'
  BY DEF PayloadShape
<1>5. OneOwner'
  BY DEF OneOwner, Owns, InFlight
<1>6. HandlesAreInStore'
  BY DEF HandlesAreInStore, InFlight
<1>7. EntriesAreKept'
  BY DEF EntriesAreKept
<1>8. LentStaysInPayload'
  BY DEF LentStaysInPayload
<1>9. OwnersAreKnown'
  BY DEF OwnersAreKnown, Owns, InFlight
<1> QED BY <1>1, <1>2, <1>3, <1>4, <1>5, <1>6, <1>7, <1>8, <1>9

\* The whole queue becomes the thread's pending list.
LEMMA TakeDropsStep ==
  ASSUME IInv, NEW t \in Threads, TakeDrops(t)
  PROVE  IInv'
<1> USE DisjointAssumption DEF IInv, TakeDrops, Goto, wrapVars, handleVars
<1>1. TypeOK'
  BY DEF TypeOK
<1>2. StoreExclusion'
  BY DEF StoreExclusion
<1>3. CallShape'
  BY DEF CallShape, TypeOK
<1>4. PayloadShape'
  BY DEF PayloadShape
<1>5. OneOwner'
  BY DEF OneOwner, CallShape, HandlesAreInStore, StoreExclusion, Owns,
        InFlight, Res
<1>6. HandlesAreInStore'
  BY DEF HandlesAreInStore, InFlight
<1>7. EntriesAreKept'
  BY DEF EntriesAreKept
<1>8. LentStaysInPayload'
  BY DEF LentStaysInPayload
<1>9. OwnersAreKnown'
  BY DEF OwnersAreKnown, TypeOK, CallShape, Owns, InFlight
<1> QED BY <1>1, <1>2, <1>3, <1>4, <1>5, <1>6, <1>7, <1>8, <1>9

\* A dropped handle was named by the pending list alone.
LEMMA DropPendingStep ==
  ASSUME IInv, NEW t \in Threads, NEW r \in Res, DropPending(t, r)
  PROVE  IInv'
<1> USE DisjointAssumption DEF IInv, DropPending, wrapVars
<1>1. TypeOK'
  BY DEF TypeOK
<1>2. StoreExclusion'
  BY DEF StoreExclusion
<1>3. CallShape'
  BY DEF CallShape
<1>4. PayloadShape'
  BY DEF PayloadShape
<1>5. OneOwner'
  BY DEF OneOwner, Owns, InFlight
<1>6. HandlesAreInStore'
  BY DEF HandlesAreInStore, TypeOK, CallShape, OneOwner, StoreExclusion,
        Held, InFlight, Owns
<1>7. EntriesAreKept'
  BY DEF EntriesAreKept, OneOwner, Owns, InFlight
<1>8. LentStaysInPayload'
  BY DEF LentStaysInPayload
<1>9. OwnersAreKnown'
  BY DEF OwnersAreKnown, Owns, InFlight
<1> QED BY <1>1, <1>2, <1>3, <1>4, <1>5, <1>6, <1>7, <1>8, <1>9

\* The rest of the pending list loses its owner: a failed dispatch.
LEMMA DropFailsStep ==
  ASSUME IInv, NEW t \in Threads, NEW r \in GuestRes, DropFails(t, r)
  PROVE  IInv'
<1> USE DisjointAssumption DEF IInv, DropFails, Fail, Goto, wrapVars
<1>1. TypeOK'
  BY DEF TypeOK
<1>2. StoreExclusion'
  BY DEF StoreExclusion, TypeOK
<1>3. CallShape'
  BY DEF CallShape, TypeOK
<1>4. PayloadShape'
  BY DEF PayloadShape
<1>5. OneOwner'
  BY DEF OneOwner, PayloadShape, Owns, InFlight
<1>6. HandlesAreInStore'
  BY DEF HandlesAreInStore, TypeOK, CallShape, OneOwner, StoreExclusion,
        Held, InFlight, Owns
<1>7. EntriesAreKept'
  BY DEF EntriesAreKept
<1>8. LentStaysInPayload'
  BY DEF LentStaysInPayload, TypeOK
<1>9. OwnersAreKnown'
  BY DEF OwnersAreKnown
<1> QED BY <1>1, <1>2, <1>3, <1>4, <1>5, <1>6, <1>7, <1>8, <1>9

\* A handle moves from its payload to the argument vector.
LEMMA LowerOwnStep ==
  ASSUME IInv, NEW t \in Threads, NEW w \in Wrappers, LowerOwn(t, w)
  PROVE  IInv'
<1> USE DisjointAssumption DEF IInv, LowerOwn, Lowering
<1>1. TypeOK'
  BY DEF TypeOK, PayloadShape, WrapperState, Held
<1>2. StoreExclusion'
  BY DEF StoreExclusion
<1>3. CallShape'
  BY DEF CallShape
<1>4. PayloadShape'
  BY DEF PayloadShape, Held
<1>5. OneOwner'
  <2>a. \A u \in Threads : u # t => InFlight(u)' = InFlight(u)
    BY DEF InFlight, TypeOK
  <2>b. InFlight(t)' \subseteq InFlight(t) \cup {wres[w]}
    BY DEF InFlight, TypeOK
  <2>1. (\A v, u \in Wrappers : v # u /\ Owns(v) /\ Owns(u) => wres[v] # wres[u])'
    BY DEF OneOwner, TypeOK, Owns, Held
  <2>2. (\A v \in Wrappers : Owns(v) => wres[v] \notin queue \cup guest)'
    BY DEF OneOwner, TypeOK, Owns, Held
  <2>3. (\A u \in Threads, v \in Wrappers : Owns(v) => wres[v] \notin InFlight(u))'
    BY <2>a, <2>b DEF OneOwner, TypeOK, Owns, Held
  <2>4. (\A u \in Threads : InFlight(u) \cap (queue \cup guest) = {})'
    BY <2>a, <2>b DEF OneOwner, Owns, Held
  <2>5. (\A u, v \in Threads : u # v => InFlight(u) \cap InFlight(v) = {})'
    BY <2>a, <2>b DEF OneOwner, Owns, Held
  <2>6. (guest \cap (store \cup queue) = {})'
    BY DEF OneOwner, Owns, Held
  <2> QED BY <2>1, <2>2, <2>3, <2>4, <2>5, <2>6 DEF OneOwner
<1>6. HandlesAreInStore'
  BY DEF HandlesAreInStore, InFlight
<1>7. EntriesAreKept'
  BY DEF EntriesAreKept, HandlesAreInStore
<1>8. LentStaysInPayload'
  BY DEF LentStaysInPayload, TypeOK, CallShape, StoreExclusion
<1>9. OwnersAreKnown'
  BY DEF OwnersAreKnown, TypeOK, Owns, InFlight
<1> QED BY <1>1, <1>2, <1>3, <1>4, <1>5, <1>6, <1>7, <1>8, <1>9

\* The payload keeps the handle it lends.
LEMMA LowerBorrowStep ==
  ASSUME IInv, NEW t \in Threads, NEW w \in Wrappers, LowerBorrow(t, w)
  PROVE  IInv'
<1> USE DisjointAssumption DEF IInv, LowerBorrow, Lowering
<1>1. TypeOK'
  BY DEF TypeOK, PayloadShape, WrapperState, Held
<1>2. StoreExclusion'
  BY DEF StoreExclusion
<1>3. CallShape'
  BY DEF CallShape
<1>4. PayloadShape'
  BY DEF PayloadShape
<1>5. OneOwner'
  <2>1. (\A v, u \in Wrappers : v # u /\ Owns(v) /\ Owns(u) => wres[v] # wres[u])'
    BY DEF OneOwner, TypeOK, Owns, Held
  <2>2. (\A v \in Wrappers : Owns(v) => wres[v] \notin queue \cup guest)'
    BY DEF OneOwner, TypeOK, Owns, Held
  <2>3. (\A u \in Threads, v \in Wrappers : Owns(v) => wres[v] \notin InFlight(u))'
    BY DEF OneOwner, TypeOK, Owns, Held, InFlight
  <2>4. (\A u \in Threads : InFlight(u) \cap (queue \cup guest) = {})'
    BY DEF OneOwner, InFlight
  <2>5. (\A u, v \in Threads : u # v => InFlight(u) \cap InFlight(v) = {})'
    BY DEF OneOwner, InFlight
  <2>6. (guest \cap (store \cup queue) = {})'
    BY DEF OneOwner, Owns, Held
  <2> QED BY <2>1, <2>2, <2>3, <2>4, <2>5, <2>6 DEF OneOwner
<1>6. HandlesAreInStore'
  BY DEF HandlesAreInStore, InFlight
<1>7. EntriesAreKept'
  BY DEF EntriesAreKept, HandlesAreInStore
<1>8. LentStaysInPayload'
  BY DEF LentStaysInPayload, TypeOK, Held
<1>9. OwnersAreKnown'
  BY DEF OwnersAreKnown, Owns, InFlight, Held
<1> QED BY <1>1, <1>2, <1>3, <1>4, <1>5, <1>6, <1>7, <1>8, <1>9

\* What was lowered by value loses its owner: a failed dispatch.
LEMMA LowerFailsStep ==
  ASSUME IInv, NEW t \in Threads, LowerFails(t)
  PROVE  IInv'
<1> USE DisjointAssumption DEF IInv, LowerFails, Lowering, Fail, Goto, wrapVars, handleVars
<1>1. TypeOK'
  BY DEF TypeOK
<1>2. StoreExclusion'
  BY DEF StoreExclusion, TypeOK
<1>3. CallShape'
  BY DEF CallShape, TypeOK
<1>4. PayloadShape'
  BY DEF PayloadShape
<1>5. OneOwner'
  BY DEF OneOwner, Owns, InFlight
<1>6. HandlesAreInStore'
  BY DEF HandlesAreInStore, InFlight
<1>7. EntriesAreKept'
  BY DEF EntriesAreKept
<1>8. LentStaysInPayload'
  BY DEF LentStaysInPayload, TypeOK
<1>9. OwnersAreKnown'
  BY DEF OwnersAreKnown
<1> QED BY <1>1, <1>2, <1>3, <1>4, <1>5, <1>6, <1>7, <1>8, <1>9

\* The handles lowered by value become the guest's.
LEMMA EnterGuestStep ==
  ASSUME IInv, NEW t \in Threads, EnterGuest(t)
  PROVE  IInv'
<1> USE DisjointAssumption DEF IInv, EnterGuest, Lowering, Goto, wrapVars
<1>1. TypeOK'
  BY DEF TypeOK
<1>2. StoreExclusion'
  BY DEF StoreExclusion
<1>3. CallShape'
  BY DEF CallShape, TypeOK
<1>4. PayloadShape'
  BY DEF PayloadShape
<1>5. OneOwner'
  BY DEF OneOwner, TypeOK, CallShape, PayloadShape, Owns, InFlight, Held
<1>6. HandlesAreInStore'
  BY DEF HandlesAreInStore, TypeOK, CallShape, OneOwner, StoreExclusion,
        Held, InFlight, Owns
<1>7. EntriesAreKept'
  BY DEF EntriesAreKept, HandlesAreInStore, InFlight
<1>8. LentStaysInPayload'
  BY DEF LentStaysInPayload
<1>9. OwnersAreKnown'
  BY DEF OwnersAreKnown, Owns, InFlight
<1> QED BY <1>1, <1>2, <1>3, <1>4, <1>5, <1>6, <1>7, <1>8, <1>9

\* Some of the handles lowered by value become the guest's, the others
\* lose their owner.
LEMMA EnterFailsStep ==
  ASSUME IInv, NEW t \in Threads, EnterFails(t)
  PROVE  IInv'
<1> USE DisjointAssumption DEF IInv, EnterFails, Lowering, Fail, Goto, wrapVars
<1>1. TypeOK'
  BY DEF TypeOK
<1>2. StoreExclusion'
  BY DEF StoreExclusion, TypeOK
<1>3. CallShape'
  BY DEF CallShape, TypeOK
<1>4. PayloadShape'
  BY DEF PayloadShape
<1>5. OneOwner'
  BY DEF OneOwner, TypeOK, CallShape, Owns, InFlight
<1>6. HandlesAreInStore'
  BY DEF HandlesAreInStore, TypeOK, CallShape, OneOwner, StoreExclusion,
        Held, InFlight, Owns
<1>7. EntriesAreKept'
  BY DEF EntriesAreKept, HandlesAreInStore, InFlight
<1>8. LentStaysInPayload'
  BY DEF LentStaysInPayload, TypeOK
<1>9. OwnersAreKnown'
  BY DEF OwnersAreKnown
<1> QED BY <1>1, <1>2, <1>3, <1>4, <1>5, <1>6, <1>7, <1>8, <1>9

\* A trap ends the call with nothing in flight.
LEMMA GuestTrapsStep ==
  ASSUME IInv, NEW t \in Threads, GuestTraps(t)
  PROVE  IInv'
<1> USE DisjointAssumption DEF IInv, GuestTraps, Fail, Goto, wrapVars, handleVars
<1>1. TypeOK'
  BY DEF TypeOK
<1>2. StoreExclusion'
  BY DEF StoreExclusion, TypeOK
<1>3. CallShape'
  BY DEF CallShape, TypeOK
<1>4. PayloadShape'
  BY DEF PayloadShape
<1>5. OneOwner'
  BY DEF OneOwner, Owns, InFlight
<1>6. HandlesAreInStore'
  BY DEF HandlesAreInStore, InFlight
<1>7. EntriesAreKept'
  BY DEF EntriesAreKept
<1>8. LentStaysInPayload'
  BY DEF LentStaysInPayload, TypeOK
<1>9. OwnersAreKnown'
  BY DEF OwnersAreKnown
<1> QED BY <1>1, <1>2, <1>3, <1>4, <1>5, <1>6, <1>7, <1>8, <1>9

\* A handle moves from the guest to the result.
LEMMA GuestReturnsStep ==
  ASSUME IInv, NEW t \in Threads, NEW r \in Res \cup {Nothing}, GuestReturns(t, r)
  PROVE  IInv'
<1> USE DisjointAssumption DEF IInv, GuestReturns, Goto, wrapVars
<1>1. TypeOK'
  BY DEF TypeOK
<1>2. StoreExclusion'
  BY DEF StoreExclusion, TypeOK
<1>3. CallShape'
  BY DEF CallShape, TypeOK
<1>4. PayloadShape'
  BY DEF PayloadShape
<1>5. OneOwner'
  BY DEF OneOwner, Owns, InFlight, WrapperState, Res
<1>6. HandlesAreInStore'
  BY DEF HandlesAreInStore, InFlight
<1>7. EntriesAreKept'
  BY DEF EntriesAreKept
<1>8. LentStaysInPayload'
  BY DEF LentStaysInPayload
<1>9. OwnersAreKnown'
  BY DEF OwnersAreKnown, TypeOK, CallShape, Owns, InFlight
<1> QED BY <1>1, <1>2, <1>3, <1>4, <1>5, <1>6, <1>7, <1>8, <1>9

\* A result without a resource leaves nothing behind.
LEMMA LiftPlainStep ==
  ASSUME IInv, NEW t \in Threads, LiftPlain(t)
  PROVE  IInv'
<1> USE DisjointAssumption DEF IInv, LiftPlain, EndCall, Goto, wrapVars, handleVars
<1>1. TypeOK'
  BY DEF TypeOK
<1>2. StoreExclusion'
  BY DEF StoreExclusion
<1>3. CallShape'
  BY DEF CallShape
<1>4. PayloadShape'
  BY DEF PayloadShape
<1>5. OneOwner'
  BY DEF OneOwner, CallShape, Owns, InFlight, Res
<1>6. HandlesAreInStore'
  BY DEF HandlesAreInStore, InFlight
<1>7. EntriesAreKept'
  BY DEF EntriesAreKept
<1>8. LentStaysInPayload'
  BY DEF LentStaysInPayload, CallShape
<1>9. OwnersAreKnown'
  BY DEF OwnersAreKnown, Owns, InFlight
<1> QED BY <1>1, <1>2, <1>3, <1>4, <1>5, <1>6, <1>7, <1>8, <1>9

\* The result's handle moves to a fresh payload.
LEMMA LiftResourceStep ==
  ASSUME IInv, NEW t \in Threads, NEW w \in Wrappers, LiftResource(t, w)
  PROVE  IInv'
<1> USE DisjointAssumption DEF IInv, LiftResource, EndCall, Goto, handleVars
<1>1. TypeOK'
  BY DEF TypeOK, WrapperState
<1>2. StoreExclusion'
  BY DEF StoreExclusion
<1>3. CallShape'
  BY DEF CallShape, TypeOK
<1>4. PayloadShape'
  BY DEF PayloadShape, TypeOK
<1>5. OneOwner'
  <2>a. \A u \in Threads : u # t => InFlight(u)' = InFlight(u)
    BY DEF InFlight, TypeOK
  <2>b. InFlight(t) = {result[t]} /\ InFlight(t)' = {}
    BY DEF InFlight, TypeOK, CallShape
  <2>1. (\A v, u \in Wrappers : v # u /\ Owns(v) /\ Owns(u) => wres[v] # wres[u])'
    BY <2>b DEF OneOwner, TypeOK, Owns
  <2>2. (\A v \in Wrappers : Owns(v) => wres[v] \notin queue \cup guest)'
    BY <2>b DEF OneOwner, TypeOK, Owns
  <2>3. (\A u \in Threads, v \in Wrappers : Owns(v) => wres[v] \notin InFlight(u))'
    BY <2>a, <2>b DEF OneOwner, TypeOK, Owns
  <2>4. (\A u \in Threads : InFlight(u) \cap (queue \cup guest) = {})'
    BY <2>a, <2>b DEF OneOwner
  <2>5. (\A u, v \in Threads : u # v => InFlight(u) \cap InFlight(v) = {})'
    BY <2>a, <2>b DEF OneOwner
  <2>6. (guest \cap (store \cup queue) = {})'
    BY DEF OneOwner
  <2> QED BY <2>1, <2>2, <2>3, <2>4, <2>5, <2>6 DEF OneOwner
<1>6. HandlesAreInStore'
  BY DEF HandlesAreInStore, TypeOK, InFlight
<1>7. EntriesAreKept'
  BY DEF EntriesAreKept
<1>8. LentStaysInPayload'
  BY DEF LentStaysInPayload, CallShape, Held
<1>9. OwnersAreKnown'
  BY DEF OwnersAreKnown, TypeOK, Owns, InFlight
<1> QED BY <1>1, <1>2, <1>3, <1>4, <1>5, <1>6, <1>7, <1>8, <1>9

\* The result's handle moves to the queue or is recorded as lost.
LEMMA LiftFailsStep ==
  ASSUME IInv, NEW t \in Threads, LiftFails(t)
  PROVE  IInv'
<1> USE DisjointAssumption DEF IInv, LiftFails, EndCall, Goto, wrapVars, handleVars
<1>1. TypeOK'
  BY DEF TypeOK
<1>2. StoreExclusion'
  BY DEF StoreExclusion
<1>3. CallShape'
  BY DEF CallShape, TypeOK
<1>4. PayloadShape'
  BY DEF PayloadShape
<1>5. OneOwner'
  <2>a. \A u \in Threads : u # t => InFlight(u)' = InFlight(u)
    BY DEF InFlight, TypeOK
  <2>b. InFlight(t) = {result[t]} /\ InFlight(t)' = {}
    BY DEF InFlight, TypeOK, CallShape
  <2>1. (\A v, u \in Wrappers : v # u /\ Owns(v) /\ Owns(u) => wres[v] # wres[u])'
    BY DEF OneOwner, Owns
  <2>2. (\A v \in Wrappers : Owns(v) => wres[v] \notin queue \cup guest)'
    BY <2>b DEF OneOwner, TypeOK, Owns
  <2>3. (\A u \in Threads, v \in Wrappers : Owns(v) => wres[v] \notin InFlight(u))'
    BY <2>a, <2>b DEF OneOwner, Owns
  <2>4. (\A u \in Threads : InFlight(u) \cap (queue \cup guest) = {})'
    BY <2>a, <2>b DEF OneOwner
  <2>5. (\A u, v \in Threads : u # v => InFlight(u) \cap InFlight(v) = {})'
    BY <2>a, <2>b DEF OneOwner
  <2>6. (guest \cap (store \cup queue) = {})'
    BY <2>b DEF OneOwner, HandlesAreInStore
  <2> QED BY <2>1, <2>2, <2>3, <2>4, <2>5, <2>6 DEF OneOwner
<1>6. HandlesAreInStore'
  BY DEF HandlesAreInStore, InFlight
<1>7. EntriesAreKept'
  BY DEF EntriesAreKept
<1>8. LentStaysInPayload'
  BY DEF LentStaysInPayload, CallShape
<1>9. OwnersAreKnown'
  BY DEF OwnersAreKnown
<1> QED BY <1>1, <1>2, <1>3, <1>4, <1>5, <1>6, <1>7, <1>8, <1>9

\* The guest's new resource is one nothing else names.
LEMMA GuestCreatesStep ==
  ASSUME IInv, NEW t \in Threads, NEW r \in GuestRes, GuestCreates(t, r)
  PROVE  IInv'
<1> USE DisjointAssumption DEF IInv, GuestCreates, Fresh, wrapVars, callVars
<1>1. TypeOK'
  BY DEF TypeOK, Res
<1>2. StoreExclusion'
  BY DEF StoreExclusion
<1>3. CallShape'
  BY DEF CallShape
<1>4. PayloadShape'
  BY DEF PayloadShape
<1>5. OneOwner'
  BY DEF OneOwner, CallShape, Owns, InFlight, Res
<1>6. HandlesAreInStore'
  BY DEF HandlesAreInStore, InFlight
<1>7. EntriesAreKept'
  BY DEF EntriesAreKept
<1>8. LentStaysInPayload'
  BY DEF LentStaysInPayload
<1>9. OwnersAreKnown'
  BY DEF OwnersAreKnown, Owns, InFlight
<1> QED BY <1>1, <1>2, <1>3, <1>4, <1>5, <1>6, <1>7, <1>8, <1>9

\* A resource of the guest has no other owner, so its entry may go.
LEMMA GuestDropsStep ==
  ASSUME IInv, NEW t \in Threads, NEW r \in Res, GuestDrops(t, r)
  PROVE  IInv'
<1> USE DisjointAssumption DEF IInv, GuestDrops, wrapVars, callVars
<1>1. TypeOK'
  BY DEF TypeOK
<1>2. StoreExclusion'
  BY DEF StoreExclusion
<1>3. CallShape'
  BY DEF CallShape
<1>4. PayloadShape'
  BY DEF PayloadShape
<1>5. OneOwner'
  BY DEF OneOwner, Owns, InFlight
<1>6. HandlesAreInStore'
  BY DEF HandlesAreInStore, InFlight
<1>7. EntriesAreKept'
  BY DEF EntriesAreKept, OneOwner, Owns
<1>8. LentStaysInPayload'
  BY DEF LentStaysInPayload
<1>9. OwnersAreKnown'
  BY DEF OwnersAreKnown, Owns, InFlight
<1> QED BY <1>1, <1>2, <1>3, <1>4, <1>5, <1>6, <1>7, <1>8, <1>9

\* A step that changes nothing preserves the invariant.
LEMMA Stutter == IInv /\ UNCHANGED vars => IInv'
<1> SUFFICES ASSUME IInv, UNCHANGED vars PROVE IInv'
  OBVIOUS
<1> USE DEF IInv, vars
<1>1. TypeOK' /\ StoreExclusion' /\ CallShape' /\ PayloadShape'
  BY DEF TypeOK, StoreExclusion, CallShape, PayloadShape
<1>2. OneOwner'
  BY DEF OneOwner, Owns, InFlight
<1>3. HandlesAreInStore' /\ EntriesAreKept' /\ LentStaysInPayload'
  BY DEF HandlesAreInStore, EntriesAreKept, LentStaysInPayload, InFlight
<1>4. OwnersAreKnown'
  BY DEF OwnersAreKnown, Owns, InFlight
<1> QED BY <1>1, <1>2, <1>3, <1>4

\* IInv is inductive, hence an invariant of the caller.
THEOREM Invariance == Spec => []IInv
<1>1. IInv /\ [Next]_vars => IInv'
  <2> SUFFICES ASSUME IInv, [Next]_vars PROVE IInv'
    OBVIOUS
  <2>1. ASSUME NEW w \in Wrappers, NEW r \in HostRes, NewHostResource(w, r)
        PROVE  IInv'
    BY <2>1, NewHostResourceStep
  <2>2. ASSUME NEW w \in Wrappers, DropWrapper(w) PROVE IInv'
    BY <2>2, DropWrapperStep
  <2>3. ASSUME DropCaller PROVE IInv'
    BY <2>3, DropCallerStep
  <2>4. ASSUME NEW t \in Threads, NEW S \in SUBSET Wrappers, BeginCall(t, S)
        PROVE  IInv'
    BY <2>4, BeginCallStep
  <2>5. ASSUME NEW t \in Threads, Dispatch(t) PROVE IInv'
    BY <2>5, LockStoreStep, TakeDropsStep, DropPendingStep, DropFailsStep,
       LowerOwnStep, LowerBorrowStep, LowerFailsStep, EnterGuestStep,
       EnterFailsStep, GuestTrapsStep, GuestReturnsStep, LiftPlainStep,
       LiftResourceStep, LiftFailsStep DEF Dispatch
  <2>6. ASSUME NEW t \in Threads, NEW r \in GuestRes, GuestCreates(t, r)
        PROVE  IInv'
    BY <2>6, GuestCreatesStep
  <2>7. ASSUME NEW t \in Threads, NEW r \in Res, GuestDrops(t, r) PROVE IInv'
    BY <2>7, GuestDropsStep
  <2> QED BY <2>1, <2>2, <2>3, <2>4, <2>5, <2>6, <2>7, Stutter DEF Next
<1> QED BY InitIInv, <1>1, PTL DEF Spec

-----------------------------------------------------------------------------
(***************************************************************************)
(* What the invariant says of ForeignCalls's own properties.               *)
(***************************************************************************)

\* The places of IInv are the sets of ForeignCalls.
LEMMA NamedByPlace ==
  ASSUME IInv, NEW r \in Res
  PROVE  r \in Named <=> \/ r \in queue
                         \/ \E w \in Wrappers : Owns(w) /\ wres[w] = r
                         \/ \E t \in Threads : r \in InFlight(t)
<1>1. r # Nothing
  BY DisjointAssumption DEF Res
<1>2. r \in HeldRes \cup Unminted <=> \E w \in Wrappers : Owns(w) /\ wres[w] = r
  BY DEF HeldRes, Unminted, Owns, Held
<1>3. r \in UNION {pending[t] \cup owned[t] \cup {result[t]} : t \in Threads}
        <=> \E t \in Threads : r \in InFlight(t)
  BY <1>1 DEF InFlight
<1> QED BY <1>2, <1>3 DEF Named

\* Every variable keeps its type; in particular a lifted result is a resource.
THEOREM TypeCorrect == Spec => []TypeOK
<1>1. IInv => TypeOK
  BY DEF IInv
<1> QED BY Invariance, <1>1, PTL

\* Guest code runs, and handles move, only under the store mutex, on every
\* path through call_sync.
THEOREM StoreIsExclusive == Spec => []StoreExclusion
<1>1. IInv => StoreExclusion
  BY DEF IInv
<1> QED BY Invariance, <1>1, PTL

\* No two places of the program own the same handle, whatever the threads,
\* `Drop` and the guest do.
THEOREM HandlesHaveOneOwner == Spec => []SingleOwner
<1>1. ASSUME IInv PROVE SingleOwner
  <2> USE <1>1 DEF IInv
  <2>1. \A w \in Wrappers : wst[w] \in Held \cup {"unminted"} <=> Owns(w)
    BY DEF Held, Owns
  <2>2. \A r : r \in HeldRes \cup Unminted
                 <=> \E w \in Wrappers : Owns(w) /\ wres[w] = r
    BY DEF HeldRes, Unminted, Owns, Held
  <2>3. \A v, w \in Wrappers :
          v # w /\ {wst[v], wst[w]} \subseteq Held \cup {"unminted"}
            => wres[v] # wres[w]
    BY <2>1 DEF OneOwner
  <2>4. queue \cap (HeldRes \cup Unminted) = {}
    BY <2>2 DEF OneOwner
  <2>5. ASSUME NEW t \in Threads
        PROVE  /\ pending[t] \cap (queue \cup HeldRes \cup Unminted) = {}
               /\ owned[t] \cap (queue \cup HeldRes \cup Unminted) = {}
    BY <2>2 DEF OneOwner, InFlight
  <2>6. ASSUME NEW t \in Threads
        PROVE  result[t] \notin queue \cup HeldRes \cup Unminted
    <3>1. CASE result[t] = Nothing
      <4>1. Nothing \notin queue
        BY DisjointAssumption DEF TypeOK, Res
      <4>2. \A w \in Wrappers : Owns(w) => wres[w] # Nothing
        BY DisjointAssumption DEF PayloadShape, Owns, Res
      <4> QED BY <3>1, <4>1, <4>2, <2>2
    <3>2. CASE result[t] # Nothing
      <4>1. result[t] \in InFlight(t)
        BY <3>2 DEF InFlight
      <4> QED BY <4>1, <2>2 DEF OneOwner
    <3> QED BY <3>1, <3>2
  <2>7. ASSUME NEW t \in Threads, NEW u \in Threads \ {t}
        PROVE  /\ (pending[t] \cup owned[t]) \cap (pending[u] \cup owned[u]) = {}
               /\ result[t] = result[u] => result[t] = Nothing
               /\ result[t] \notin pending[u] \cup owned[u]
    <3>1. InFlight(t) \cap InFlight(u) = {}
      BY DEF OneOwner
    <3>2. Nothing \notin pending[u] \cup owned[u]
      BY DisjointAssumption DEF TypeOK, Res
    <3> QED BY <3>1, <3>2 DEF InFlight
  <2>8. guest \cap (store \cup Named) = {}
    <3>1. guest \subseteq Res
      BY DEF TypeOK
    <3> QED BY <3>1, NamedByPlace DEF OneOwner
  <2> QED BY <2>3, <2>4, <2>5, <2>6, <2>7, <2>8 DEF SingleOwner
<1> QED BY Invariance, <1>1, PTL

\* Every handle the program may still pass, lend or drop is in the store:
\* `resource_drop` and `call` never see a stale `ResourceAny`.
THEOREM HandlesAreNotStale == Spec => []NoStaleHandle
<1>1. ASSUME IInv PROVE NoStaleHandle
  BY <1>1 DEF IInv, NoStaleHandle, HandlesAreInStore, HeldRes, InFlight
<1> QED BY Invariance, <1>1, PTL

\* A handle over a host rep, on either side, has its HostTable entry.
THEOREM EntriesOutliveHandles == Spec => []HostHandlesHaveEntries
<1>1. ASSUME IInv PROVE HostHandlesHaveEntries
  BY <1>1 DEF IInv, HostHandlesHaveEntries, EntriesAreKept, HandlesAreInStore,
              HeldRes, Unminted
<1> QED BY Invariance, <1>1, PTL

\* Nobody drops or transfers a handle that is lent to a running guest.
THEOREM LentHandlesStay == Spec => []LentHandlesAreKept
<1>1. ASSUME IInv PROVE LentHandlesAreKept
  BY <1>1 DEF IInv, LentHandlesAreKept, LentStaysInPayload, CallShape
<1> QED BY Invariance, <1>1, PTL

\* Without a failed dispatch or a documented leak, the program can still
\* reach every handle of the store.
THEOREM NothingLeaksSilently == Spec => []NoSilentLeak
<1>1. ASSUME IInv PROVE NoSilentLeak
  <2>1. store \subseteq Res
    BY <1>1 DEF IInv, TypeOK
  <2> QED BY <1>1, <2>1, NamedByPlace DEF IInv, NoSilentLeak, OwnersAreKnown
<1> QED BY Invariance, <1>1, PTL

-----------------------------------------------------------------------------
(***************************************************************************)
(* ForeignCalls implements HandleOwnership.  Under the refinement mapping  *)
(* OwnerOf, all HandleOwnership forbids is that a lost resource is found   *)
(* again and that one gets lost without having been the host's; so these   *)
(* are the two facts to show of each step.                                 *)
(***************************************************************************)

\* Some place of the program is responsible for r.
InPlay(r) ==
  \/ r \in queue
  \/ \E w \in Wrappers : Owns(w) /\ wres[w] = r
  \/ \E t \in Threads : r \in InFlight(t)

Lost(r) == r \in store \cup entries /\ r \notin guest /\ ~InPlay(r)

\* What a step may do to a lost resource, and to one that is not.
LosesOnlyOnce(r) ==
  /\ Lost(r) => Lost(r)'
  /\ Lost(r)' => Lost(r) \/ InPlay(r)

-----------------------------------------------------------------------------
\* A fresh identity was in no place before, and its wrapper owns it after.
LEMMA NewHostResourceLoses ==
  ASSUME IInv, NEW x \in Res, NEW w \in Wrappers, NEW r \in HostRes, NewHostResource(w, r)
  PROVE  LosesOnlyOnce(x)
BY DEF LosesOnlyOnce, Lost, InPlay, NewHostResource, Fresh, callVars, IInv,
        TypeOK, Owns, InFlight

\* What the payload held goes to the queue, or the host loses it here.
LEMMA DropWrapperLoses ==
  ASSUME IInv, NEW x \in Res, NEW w \in Wrappers, DropWrapper(w)
  PROVE  LosesOnlyOnce(x)
BY DEF LosesOnlyOnce, Lost, InPlay, DropWrapper, handleVars, callVars, IInv,
        TypeOK, Owns, InFlight

\* The queue goes with the caller: its handles are lost from here on.
LEMMA DropCallerLoses ==
  ASSUME IInv, NEW x \in Res, DropCaller
  PROVE  LosesOnlyOnce(x)
BY DEF LosesOnlyOnce, Lost, InPlay, DropCaller, wrapVars, handleVars,
        callVars, Owns, InFlight

\* Starting a call moves no handle.
LEMMA BeginCallLoses ==
  ASSUME IInv, NEW x \in Res, NEW t \in Threads, NEW S \in SUBSET Wrappers, BeginCall(t, S)
  PROVE  LosesOnlyOnce(x)
BY DEF LosesOnlyOnce, Lost, InPlay, BeginCall, wrapVars, handleVars, Owns,
        InFlight

\* Taking the mutex moves no handle.
LEMMA LockStoreLoses ==
  ASSUME IInv, NEW x \in Res, NEW t \in Threads, LockStore(t)
  PROVE  LosesOnlyOnce(x)
BY DEF LosesOnlyOnce, Lost, InPlay, LockStore, wrapVars, handleVars, Owns,
        InFlight

\* mem::take moves the queue to the thread's list: both are in play.
LEMMA TakeDropsLoses ==
  ASSUME IInv, NEW x \in Res, NEW t \in Threads, TakeDrops(t)
  PROVE  LosesOnlyOnce(x)
BY DEF LosesOnlyOnce, Lost, InPlay, TakeDrops, wrapVars, handleVars, Owns,
        InFlight

\* A drained handle was in play and leaves the store altogether.
LEMMA DropPendingLoses ==
  ASSUME IInv, NEW x \in Res, NEW t \in Threads, NEW r \in Res, DropPending(t, r)
  PROVE  LosesOnlyOnce(x)
BY DEF LosesOnlyOnce, Lost, InPlay, DropPending, wrapVars, Owns, InFlight

\* The rest of the drained list is lost with the early return.
LEMMA DropFailsLoses ==
  ASSUME IInv, NEW x \in Res, NEW t \in Threads, NEW r \in GuestRes, DropFails(t, r)
  PROVE  LosesOnlyOnce(x)
BY DEF LosesOnlyOnce, Lost, InPlay, DropFails, Fail, wrapVars, Owns,
        InFlight

\* The handle moves from the payload to the argument vector.
LEMMA LowerOwnLoses ==
  ASSUME IInv, NEW x \in Res, NEW t \in Threads, NEW w \in Wrappers, LowerOwn(t, w)
  PROVE  LosesOnlyOnce(x)
BY DEF LosesOnlyOnce, Lost, InPlay, LowerOwn, Owns, InFlight, Held

\* A lent handle stays with its payload.
LEMMA LowerBorrowLoses ==
  ASSUME IInv, NEW x \in Res, NEW t \in Threads, NEW w \in Wrappers, LowerBorrow(t, w)
  PROVE  LosesOnlyOnce(x)
BY DEF LosesOnlyOnce, Lost, InPlay, LowerBorrow, IInv, HandlesAreInStore,
        Owns, InFlight

\* The arguments lowered so far are lost with the vector.
LEMMA LowerFailsLoses ==
  ASSUME IInv, NEW x \in Res, NEW t \in Threads, LowerFails(t)
  PROVE  LosesOnlyOnce(x)
BY DEF LosesOnlyOnce, Lost, InPlay, LowerFails, Fail, wrapVars, handleVars,
        Owns, InFlight

\* The own arguments become the guest's.
LEMMA EnterGuestLoses ==
  ASSUME IInv, NEW x \in Res, NEW t \in Threads, EnterGuest(t)
  PROVE  LosesOnlyOnce(x)
BY DEF LosesOnlyOnce, Lost, InPlay, EnterGuest, wrapVars, Owns, InFlight

\* Each own argument becomes the guest's or is lost.
LEMMA EnterFailsLoses ==
  ASSUME IInv, NEW x \in Res, NEW t \in Threads, EnterFails(t)
  PROVE  LosesOnlyOnce(x)
BY DEF LosesOnlyOnce, Lost, InPlay, EnterFails, Fail, wrapVars, Owns,
        InFlight

\* The guest keeps what it owned; nothing lost comes back.
LEMMA GuestTrapsLoses ==
  ASSUME IInv, NEW x \in Res, NEW t \in Threads, GuestTraps(t)
  PROVE  LosesOnlyOnce(x)
BY DEF LosesOnlyOnce, Lost, InPlay, GuestTraps, Fail, wrapVars, handleVars,
        Owns, InFlight

\* A returned handle was the guest's, not a lost one.
LEMMA GuestReturnsLoses ==
  ASSUME IInv, NEW x \in Res, NEW t \in Threads, NEW r \in Res \cup {Nothing}, GuestReturns(t, r)
  PROVE  LosesOnlyOnce(x)
BY DisjointAssumption DEF LosesOnlyOnce, Lost, InPlay, GuestReturns,
        wrapVars, IInv, TypeOK, OneOwner, Owns, InFlight

\* A result without a handle moves none.
LEMMA LiftPlainLoses ==
  ASSUME IInv, NEW x \in Res, NEW t \in Threads, LiftPlain(t)
  PROVE  LosesOnlyOnce(x)
BY DEF LosesOnlyOnce, Lost, InPlay, LiftPlain, EndCall, wrapVars,
        handleVars, Owns, InFlight

\* The handle moves from the result to its wrapper.
LEMMA LiftResourceLoses ==
  ASSUME IInv, NEW x \in Res, NEW t \in Threads, NEW w \in Wrappers, LiftResource(t, w)
  PROVE  LosesOnlyOnce(x)
BY DEF LosesOnlyOnce, Lost, InPlay, LiftResource, EndCall, handleVars, IInv,
        TypeOK, Owns, InFlight

\* The result's handle is queued, or lost here.
LEMMA LiftFailsLoses ==
  ASSUME IInv, NEW x \in Res, NEW t \in Threads, LiftFails(t)
  PROVE  LosesOnlyOnce(x)
BY DEF LosesOnlyOnce, Lost, InPlay, LiftFails, EndCall, wrapVars,
        handleVars, Owns, InFlight

\* A fresh identity is not lost, and becomes the guest's.
LEMMA GuestCreatesLoses ==
  ASSUME IInv, NEW x \in Res, NEW t \in Threads, NEW r \in GuestRes, GuestCreates(t, r)
  PROVE  LosesOnlyOnce(x)
BY DEF LosesOnlyOnce, Lost, InPlay, GuestCreates, Fresh, wrapVars, callVars,
        Owns, InFlight

\* Only what the guest owned goes, its table entry with it.
LEMMA GuestDropsLoses ==
  ASSUME IInv, NEW x \in Res, NEW t \in Threads, NEW r \in Res, GuestDrops(t, r)
  PROVE  LosesOnlyOnce(x)
BY DEF LosesOnlyOnce, Lost, InPlay, GuestDrops, wrapVars, callVars, IInv,
        OneOwner, Owns, InFlight

-----------------------------------------------------------------------------
\* No step finds a lost resource again, or loses one that was not the host's.
LEMMA NextLoses ==
  ASSUME IInv, [Next]_vars, NEW x \in Res
  PROVE  LosesOnlyOnce(x)
<1>1. ASSUME NEW t \in Threads, Dispatch(t) PROVE LosesOnlyOnce(x)
  BY <1>1, LockStoreLoses, TakeDropsLoses, DropPendingLoses, DropFailsLoses,
     LowerOwnLoses, LowerBorrowLoses, LowerFailsLoses, EnterGuestLoses,
     EnterFailsLoses, GuestTrapsLoses, GuestReturnsLoses, LiftPlainLoses,
     LiftResourceLoses, LiftFailsLoses DEF Dispatch
<1>2. CASE UNCHANGED vars
  BY <1>2 DEF vars, LosesOnlyOnce, Lost, InPlay, Owns, InFlight
<1> QED BY <1>1, <1>2, NewHostResourceLoses, DropWrapperLoses,
           DropCallerLoses, BeginCallLoses, GuestCreatesLoses, GuestDropsLoses
        DEF Next

Place(r) ==
  IF r \in guest THEN "guest"
  ELSE IF InPlay(r) THEN "host"
  ELSE IF Lost(r) THEN "lost"
  ELSE "none"

\* The refinement mapping, place by place.
LEMMA OwnerByPlace == IInv => \A r \in Res : OwnerOf(r) = Place(r)
<1> SUFFICES ASSUME IInv, NEW r \in Res PROVE OwnerOf(r) = Place(r)
  OBVIOUS
<1>1. r \in Named <=> InPlay(r)
  BY NamedByPlace DEF InPlay
<1> QED BY <1>1 DEF OwnerOf, Place, Lost

owners == [r \in Res |-> OwnerOf(r)]

\* Every step of the caller is a step of HandleOwnership, or a stutter.
LEMMA StepImplements ==
  ASSUME IInv, [Next]_vars,
         \A r \in Res : OwnerOf(r) = Place(r),
         \A r \in Res : OwnerOf(r)' = Place(r)'
  PROVE  [Ownership!Next]_owners
<1>1. owners' = [r \in Res |-> Place(r)']
  BY DEF owners
<1>2. owners = [r \in Res |-> Place(r)]
  BY DEF owners
<1>3. owners' \in [Res -> Ownership!Owner]
  BY <1>1 DEF Place, Ownership!Owner
<1>4. ASSUME NEW r \in Res
      PROVE  \/ Ownership!Create(r) \/ Ownership!Transfer(r)
             \/ Ownership!Return(r) \/ Ownership!Drop(r)
             \/ Ownership!Lose(r) \/ Ownership!Keep(r)
  <2>1. LosesOnlyOnce(r)
    BY NextLoses
  <2>2. owners[r] = Place(r) /\ owners'[r] = Place(r)'
    BY <1>1, <1>2
  <2>3. r \in guest => ~InPlay(r)
    BY DEF IInv, OneOwner, InPlay
  <2>4. \/ owners[r] = owners'[r]
        \/ owners[r] = "none" /\ owners'[r] \in {"guest", "host"}
        \/ owners[r] = "host"
        \/ owners[r] = "guest" /\ owners'[r] \in {"host", "none"}
    BY <2>1, <2>2, <2>3 DEF LosesOnlyOnce, Place, Lost
  <2>5. owners'[r] \in {"none", "guest", "host", "lost"}
    BY <2>2 DEF Place
  <2> QED BY <2>4, <2>5 DEF owners, Ownership!Create, Ownership!Transfer,
             Ownership!Return, Ownership!Drop, Ownership!Lose, Ownership!Keep,
             Ownership!Move
<1> QED BY <1>3, <1>4 DEF owners, Ownership!Next

\* The synchronous caller keeps the promise of HandleOwnership: ownership of
\* a resource moves only by passing and returning it, its owner drops it
\* once, and a handle the host has lost is never found again.
THEOREM CallerImplementsOwnership == Spec => OwnershipSpec
<1>1. Init => Ownership!Init
  <2> SUFFICES ASSUME Init PROVE \A r \in Res : Place(r) = "none"
    BY InitIInv, OwnerByPlace DEF Ownership!Init
  <2>1. \A r \in Res : ~InPlay(r) /\ ~Lost(r) /\ r \notin guest
    BY DEF Init, InPlay, Lost, Owns, InFlight
  <2> QED BY <2>1 DEF Place
<1>2. IInv' => (\A r \in Res : OwnerOf(r) = Place(r))'
  BY OwnerByPlace, PTL
<1>3. IInv /\ IInv' /\ [Next]_vars => [Ownership!Next]_owners
  BY <1>2, OwnerByPlace, StepImplements
<1> QED BY <1>1, <1>3, Invariance, PTL DEF Spec, OwnershipSpec, Ownership!Spec, owners
=============================================================================
