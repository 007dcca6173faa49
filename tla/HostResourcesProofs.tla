-------------------------- MODULE HostResourcesProofs --------------------------
(***************************************************************************)
(* Proofs about HostResources, for any sets of stores and types, any bound *)
(* on the reps and any choice of which user code re-enters the table: the  *)
(* invariants and the action properties the runs check.                    *)
(***************************************************************************)
EXTENDS HostResources, TLAPS

\* What a call holds at which point of a dispatch closure.
CallShape ==
  \A s \in Stores :
    /\ pc[s] \in {"idle", "filling", "guest", "insert", "dead"} =>
         op[s] = "assoc" /\ self[s] = NoRep
    /\ op[s] = "assoc" <=> self[s] = NoRep
    /\ arg[s] # NoRep => pc[s] = "lift"
    /\ taken[s] # NoType => pc[s] \in {"check", "run", "minting", "putback"}
    /\ pc[s] \in {"check", "putback"} => op[s] = "consume"
    /\ op[s] = "consume" /\ pc[s] \in {"check", "run", "minting", "putback"} =>
         taken[s] # NoType
    /\ op[s] = "consume" /\ pc[s] \in {"run", "minting"} => taken[s] = want[s]
    /\ taken[s] # NoType => op[s] = "consume"
    /\ op[s] # "assoc" => want[s] # NoType
    /\ ticket[s] # NoRep <=> pc[s] \in {"filling", "minting", "insert"}

\* The thread in the table is running user code on a borrowed receiver.
TableShape ==
  \A s \in Stores :
    /\ table = s <=> pc[s] \in {"run", "minting"} /\ op[s] \in LockedOps
    /\ table = s => entries[self[s]] = want[s]

\* The counter is ahead of every rep in use.
NextIsFresh ==
  /\ \A r \in Live \cup payload : r < next
  /\ \A s \in Stores : \A r \in own[s] : r < next
  /\ \A s \in Stores : ticket[s] < next /\ self[s] < next /\ arg[s] < next

\* A rep being inserted is nobody's, and has no entry.
TicketsAreFresh ==
  /\ \A s \in Stores : ticket[s] \notin Live \cup payload
  /\ \A s, u \in Stores : ticket[s] \notin own[u] \cup InCall(u)
  /\ \A s, u \in Stores : s # u /\ ticket[s] = ticket[u] => ticket[s] = NoRep

\* A rep has one holder: one guest, one argument, one consuming call, or the
\* payloads.
OneHolder ==
  /\ \A s \in Stores :
       /\ own[s] \cap payload = {}
       /\ arg[s] \notin payload
       /\ arg[s] = self[s] => arg[s] = NoRep
       /\ op[s] \in OwningOps => self[s] \notin payload \cup own[s]
       /\ arg[s] \notin own[s]
  /\ \A s, u \in Stores : s # u =>
       /\ own[s] \cap own[u] = {}
       /\ arg[s] \notin own[u]
       /\ arg[s] = arg[u] => arg[s] = NoRep
       /\ op[s] \in OwningOps =>
            /\ self[s] \notin own[u]
            /\ self[s] # arg[u]
            /\ op[u] \in OwningOps => self[s] # self[u]

\* A borrowed receiver stays with the guest for the length of the call.
BorrowedIsOwned ==
  \A s \in Stores : self[s] # NoRep /\ op[s] \notin OwningOps => self[s] \in own[s]

\* Who holds an entry, place by place.
HoldersAreKnown ==
  \A r \in Live :
    \/ r \in payload \cup lost
    \/ \E s \in Stores : r \in own[s] \cup InCall(s)

IInv ==
  /\ TypeOK
  /\ CallShape
  /\ TableShape
  /\ NextIsFresh
  /\ TicketsAreFresh
  /\ OneHolder
  /\ BorrowedIsOwned
  /\ HandlesAreLive
  /\ HoldersAreKnown

-----------------------------------------------------------------------------
\* Nothing is held and nothing runs: every conjunct holds of Init.
LEMMA InitIInv == Init => IInv
<1> SUFFICES ASSUME Init PROVE IInv
  OBVIOUS
<1> USE HostAssumption DEF Init, Reps, NoRep
<1>1. TypeOK
  BY DEF TypeOK, Ops
<1>2. CallShape /\ TableShape
  BY DEF CallShape, TableShape
<1>3. NextIsFresh /\ TicketsAreFresh
  BY DEF NextIsFresh, TicketsAreFresh, Live, InCall, OwningOps
<1>4. OneHolder /\ BorrowedIsOwned
  BY DEF OneHolder, BorrowedIsOwned, OwningOps
<1>5. HandlesAreLive /\ HoldersAreKnown
  BY DEF HandlesAreLive, HoldersAreKnown, Live
<1> QED BY <1>1, <1>2, <1>3, <1>4, <1>5 DEF IInv

\* The rep drawn is ahead of every rep in use.
LEMMA HostResourceStep ==
  ASSUME IInv, NEW s \in Stores, HostResource(s)
  PROVE  IInv'
<1> USE HostAssumption DEF IInv, HostResource, Draw, Goto, callVars
<1>1. TypeOK'
  BY DEF TypeOK, Reps
<1>2. CallShape'
  BY DEF CallShape, TypeOK, NoRep
<1>3. TableShape'
  BY DEF TableShape
<1>4. NextIsFresh'
  BY DEF NextIsFresh, TypeOK, Live, Reps, NoRep
<1>5. TicketsAreFresh'
  BY DEF TicketsAreFresh, TypeOK, CallShape, NextIsFresh, Live, InCall
<1>6. OneHolder'
  BY DEF OneHolder
<1>7. BorrowedIsOwned'
  BY DEF BorrowedIsOwned
<1>8. HandlesAreLive'
  BY DEF HandlesAreLive, Live
<1>9. HoldersAreKnown'
  BY DEF HoldersAreKnown, Live, InCall
<1> QED BY <1>1, <1>2, <1>3, <1>4, <1>5, <1>6, <1>7, <1>8, <1>9

\* The same, from user code; the table stays as it is.
LEMMA ReenterStep ==
  ASSUME IInv, NEW s \in Stores, Reenter(s)
  PROVE  IInv'
<1> USE HostAssumption DEF IInv, Reenter, Draw, Goto, callVars
<1>1. TypeOK'
  BY DEF TypeOK, Reps
<1>2. CallShape'
  BY DEF CallShape, TypeOK, NoRep
<1>3. TableShape'
  BY DEF TableShape
<1>4. NextIsFresh'
  BY DEF NextIsFresh, TypeOK, CallShape, Live, Reps, NoRep
<1>5. TicketsAreFresh'
  BY DEF TicketsAreFresh, TypeOK, CallShape, NextIsFresh, Live, InCall
<1>6. OneHolder'
  BY DEF OneHolder
<1>7. BorrowedIsOwned'
  BY DEF BorrowedIsOwned
<1>8. HandlesAreLive'
  BY DEF HandlesAreLive, Live
<1>9. HoldersAreKnown'
  BY DEF HoldersAreKnown, Live, InCall
<1> QED BY <1>1, <1>2, <1>3, <1>4, <1>5, <1>6, <1>7, <1>8, <1>9

\* A drawn rep becomes an entry and a payload; nobody is in the table.
LEMMA FillPayloadStep ==
  ASSUME IInv, NEW s \in Stores, NEW type \in Types, FillPayload(s, type)
  PROVE  IInv'
<1> USE HostAssumption DEF IInv, FillPayload, Fill, Unlocked, Goto, callVars
<1>1. TypeOK'
  BY DEF TypeOK, CallShape
<1>2. CallShape'
  BY DEF CallShape, TypeOK
<1>3. TableShape'
  BY DEF TableShape
<1>4. NextIsFresh'
  BY DEF NextIsFresh, TypeOK, Live, NoRep
<1>5. TicketsAreFresh'
  BY DEF TicketsAreFresh, TypeOK, CallShape, Live, InCall, Reps, NoRep
<1>6. OneHolder'
  BY DEF OneHolder, CallShape, TicketsAreFresh, InCall
<1>7. BorrowedIsOwned'
  BY DEF BorrowedIsOwned
<1>8. HandlesAreLive'
  BY DEF HandlesAreLive, TypeOK, CallShape, BorrowedIsOwned,
        TicketsAreFresh, InCall, Live
<1>9. HoldersAreKnown'
  BY DEF HoldersAreKnown, Live, InCall
<1> QED BY <1>1, <1>2, <1>3, <1>4, <1>5, <1>6, <1>7, <1>8, <1>9

\* An entry whose payload goes is recorded as lost.
LEMMA DropPayloadStep ==
  ASSUME IInv, NEW r \in Reps, DropPayload(r)
  PROVE  IInv'
<1> USE HostAssumption DEF IInv, DropPayload, callVars
<1>1. TypeOK'
  BY DEF TypeOK
<1>2. CallShape'
  BY DEF CallShape
<1>3. TableShape'
  BY DEF TableShape
<1>4. NextIsFresh'
  BY DEF NextIsFresh, Live
<1>5. TicketsAreFresh'
  BY DEF TicketsAreFresh, Live, InCall
<1>6. OneHolder'
  BY DEF OneHolder
<1>7. BorrowedIsOwned'
  BY DEF BorrowedIsOwned
<1>8. HandlesAreLive'
  BY DEF HandlesAreLive, Live
<1>9. HoldersAreKnown'
  BY DEF HoldersAreKnown, Live, InCall
<1> QED BY <1>1, <1>2, <1>3, <1>4, <1>5, <1>6, <1>7, <1>8, <1>9

\* Payloads become handles of one guest.
LEMMA EnterStep ==
  ASSUME IInv, NEW s \in Stores, NEW P \in SUBSET payload, Enter(s, P)
  PROVE  IInv'
<1> USE HostAssumption DEF IInv, Enter, Goto, callVars
<1>1. TypeOK'
  BY DEF TypeOK
<1>2. CallShape'
  BY DEF CallShape
<1>3. TableShape'
  BY DEF TableShape
<1>4. NextIsFresh'
  BY DEF NextIsFresh, Live
<1>5. TicketsAreFresh'
  BY DEF TicketsAreFresh, Live, InCall
<1>6. OneHolder'
  BY DEF OneHolder, NoRep
<1>7. BorrowedIsOwned'
  BY DEF BorrowedIsOwned
<1>8. HandlesAreLive'
  BY DEF HandlesAreLive, Live
<1>9. HoldersAreKnown'
  BY DEF HoldersAreKnown, TypeOK, Live, InCall
<1> QED BY <1>1, <1>2, <1>3, <1>4, <1>5, <1>6, <1>7, <1>8, <1>9

\* A guest that returns or traps is in no host call.
LEMMA LeaveStep ==
  ASSUME IInv, NEW s \in Stores, Leave(s)
  PROVE  IInv'
<1> USE HostAssumption DEF IInv, Leave, Goto, callVars
<1>1. TypeOK'
  BY DEF TypeOK
<1>2. CallShape'
  BY DEF CallShape
<1>3. TableShape'
  BY DEF TableShape
<1>4. NextIsFresh'
  BY DEF NextIsFresh, Live
<1>5. TicketsAreFresh'
  BY DEF TicketsAreFresh, Live, InCall
<1>6. OneHolder'
  BY DEF OneHolder
<1>7. BorrowedIsOwned'
  BY DEF BorrowedIsOwned
<1>8. HandlesAreLive'
  BY DEF HandlesAreLive, Live
<1>9. HoldersAreKnown'
  BY DEF HoldersAreKnown, Live, InCall
<1> QED BY <1>1, <1>2, <1>3, <1>4, <1>5, <1>6, <1>7, <1>8, <1>9

\* The entry goes with its only handle.
LEMMA DropOwnStep ==
  ASSUME IInv, NEW s \in Stores, NEW r \in Reps, DropOwn(s, r)
  PROVE  IInv'
<1> USE HostAssumption DEF IInv, DropOwn, Unlocked, callVars
<1>1. TypeOK'
  BY DEF TypeOK
<1>2. CallShape'
  BY DEF CallShape
<1>3. TableShape'
  BY DEF TableShape
<1>4. NextIsFresh'
  BY DEF NextIsFresh, Live
<1>5. TicketsAreFresh'
  BY DEF TicketsAreFresh, Live, InCall
<1>6. OneHolder'
  BY DEF OneHolder
<1>7. BorrowedIsOwned'
  BY DEF BorrowedIsOwned, CallShape
<1>8. HandlesAreLive'
  BY DEF HandlesAreLive, TypeOK, CallShape, OneHolder, BorrowedIsOwned, Live
<1>9. HoldersAreKnown'
  BY DEF HoldersAreKnown, TypeOK, Live, InCall
<1> QED BY <1>1, <1>2, <1>3, <1>4, <1>5, <1>6, <1>7, <1>8, <1>9

\* An own argument, and the receiver of an owning kind, move from the guest
\* to the call.
LEMMA CallHostStep ==
  ASSUME IInv, NEW s \in Stores, NEW k \in Ops, NEW r \in Reps \cup {NoRep},
         NEW a \in Reps \cup {NoRep}, NEW w \in Types, CallHost(s, k, r, a, w)
  PROVE  IInv'
<1> USE HostAssumption DEF IInv, CallHost, Goto
<1>1. TypeOK'
  BY DEF TypeOK
<1>2. CallShape'
  BY DEF CallShape, TypeOK, Reps, NoRep
<1>3. TableShape'
  BY DEF TableShape
<1>4. NextIsFresh'
  BY DEF NextIsFresh, TypeOK, Live, NoRep
<1>5. TicketsAreFresh'
  BY DEF TicketsAreFresh, TypeOK, Live, InCall
<1>6. OneHolder'
  BY DEF OneHolder, TypeOK, CallShape
<1>7. BorrowedIsOwned'
  BY DEF BorrowedIsOwned, TypeOK
<1>8. HandlesAreLive'
  BY DEF HandlesAreLive, TypeOK, CallShape, Live
<1>9. HoldersAreKnown'
  BY DEF HoldersAreKnown, TypeOK, CallShape, OneHolder, Live, InCall
<1> QED BY <1>1, <1>2, <1>3, <1>4, <1>5, <1>6, <1>7, <1>8, <1>9

\* An argument's entry goes with the handle that was moved.
LEMMA LiftArgStep ==
  ASSUME IInv, NEW s \in Stores, LiftArg(s)
  PROVE  IInv'
<1> USE HostAssumption DEF IInv, LiftArg, Unlocked, Goto
<1>1. TypeOK'
  BY DEF TypeOK
<1>2. CallShape'
  BY DEF CallShape, TypeOK
<1>3. TableShape'
  BY DEF TableShape
<1>4. NextIsFresh'
  BY DEF NextIsFresh, TypeOK, Live, NoRep
<1>5. TicketsAreFresh'
  BY DEF TicketsAreFresh, TypeOK, Live, InCall
<1>6. OneHolder'
  BY DEF OneHolder, TypeOK, CallShape, OwningOps, Reps, NoRep
<1>7. BorrowedIsOwned'
  BY DEF BorrowedIsOwned
<1>8. HandlesAreLive'
  BY DEF HandlesAreLive, TypeOK, OneHolder, BorrowedIsOwned, Live
<1>9. HoldersAreKnown'
  BY DEF HoldersAreKnown, TypeOK, Live, InCall
<1> QED BY <1>1, <1>2, <1>3, <1>4, <1>5, <1>6, <1>7, <1>8, <1>9

\* What was moved into the call is recorded as lost.
LEMMA LiftFailsStep ==
  ASSUME IInv, NEW s \in Stores, LiftFails(s)
  PROVE  IInv'
<1> USE HostAssumption DEF IInv, LiftFails, Trap, Clear, Moved, Goto
<1>1. TypeOK'
  <2>1. lost' \subseteq Reps
    BY DEF TypeOK, CallShape, Reps, NoRep, OwningOps, Ops
  <2> QED BY <2>1 DEF TypeOK, Ops, Reps, NoRep, LockedOps
<1>2. CallShape'
  BY DEF CallShape, TypeOK
<1>3. TableShape'
  BY DEF TableShape
<1>4. NextIsFresh'
  BY DEF NextIsFresh, TypeOK, Live, NoRep
<1>5. TicketsAreFresh'
  BY DEF TicketsAreFresh, TypeOK, Live, InCall
<1>6. OneHolder'
  BY DEF OneHolder, TypeOK, CallShape, OwningOps, Reps, NoRep
<1>7. BorrowedIsOwned'
  BY DEF BorrowedIsOwned, TypeOK
<1>8. HandlesAreLive'
  BY DEF HandlesAreLive, TypeOK, Live
<1>9. HoldersAreKnown'
  BY DEF HoldersAreKnown, Live, InCall
<1> QED BY <1>1, <1>2, <1>3, <1>4, <1>5, <1>6, <1>7, <1>8, <1>9

\* User code without a receiver runs outside the table.
LEMMA AcquireNothingStep ==
  ASSUME IInv, NEW s \in Stores, AcquireNothing(s)
  PROVE  IInv'
<1> USE HostAssumption DEF IInv, AcquireNothing, Goto, callVars
<1>1. TypeOK'
  BY DEF TypeOK
<1>2. CallShape'
  BY DEF CallShape
<1>3. TableShape'
  BY DEF TableShape, LockedOps
<1>4. NextIsFresh'
  BY DEF NextIsFresh, Live
<1>5. TicketsAreFresh'
  BY DEF TicketsAreFresh, Live, InCall
<1>6. OneHolder'
  BY DEF OneHolder
<1>7. BorrowedIsOwned'
  BY DEF BorrowedIsOwned
<1>8. HandlesAreLive'
  BY DEF HandlesAreLive, Live
<1>9. HoldersAreKnown'
  BY DEF HoldersAreKnown, Live, InCall
<1> QED BY <1>1, <1>2, <1>3, <1>4, <1>5, <1>6, <1>7, <1>8, <1>9

\* The thread enters the table for an entry of the right type.
LEMMA AcquireRefStep ==
  ASSUME IInv, NEW s \in Stores, AcquireRef(s)
  PROVE  IInv'
<1> USE HostAssumption DEF IInv, AcquireRef, Unlocked, Goto, callVars
<1>1. TypeOK'
  BY DEF TypeOK
<1>2. CallShape'
  BY DEF CallShape, LockedOps
<1>3. TableShape'
  BY DEF TableShape, TypeOK, LockedOps
<1>4. NextIsFresh'
  BY DEF NextIsFresh, Live
<1>5. TicketsAreFresh'
  BY DEF TicketsAreFresh, Live, InCall
<1>6. OneHolder'
  BY DEF OneHolder
<1>7. BorrowedIsOwned'
  BY DEF BorrowedIsOwned
<1>8. HandlesAreLive'
  BY DEF HandlesAreLive, Live
<1>9. HoldersAreKnown'
  BY DEF HoldersAreKnown, Live, InCall
<1> QED BY <1>1, <1>2, <1>3, <1>4, <1>5, <1>6, <1>7, <1>8, <1>9

\* What was moved into the call is recorded as lost.
LEMMA AcquireFailsStep ==
  ASSUME IInv, NEW s \in Stores, AcquireFails(s)
  PROVE  IInv'
<1> USE HostAssumption DEF IInv, AcquireFails, Trap, Clear, Moved, Goto, Unlocked
<1>1. TypeOK'
  <2>1. Moved(s) \subseteq Reps
    BY DEF TypeOK, OwningOps, CallShape, NoRep
  <2>2. lost' = lost \cup Moved(s)
    OBVIOUS
  <2> QED BY <2>1, <2>2 DEF TypeOK, Ops, Reps, NoRep
<1>2. CallShape'
  BY DEF CallShape, TypeOK
<1>3. TableShape'
  BY DEF TableShape
<1>4. NextIsFresh'
  BY DEF NextIsFresh, TypeOK, Live, NoRep
<1>5. TicketsAreFresh'
  BY DEF TicketsAreFresh, TypeOK, Live, InCall
<1>6. OneHolder'
  BY DEF OneHolder, TypeOK, CallShape, OwningOps
<1>7. BorrowedIsOwned'
  BY DEF BorrowedIsOwned, TypeOK
<1>8. HandlesAreLive'
  BY DEF HandlesAreLive, TypeOK, Live
<1>9. HoldersAreKnown'
  BY DEF HoldersAreKnown, Live, InCall
<1> QED BY <1>1, <1>2, <1>3, <1>4, <1>5, <1>6, <1>7, <1>8, <1>9

\* The entry moves from the table to the call.
LEMMA AcquireOwnedStep ==
  ASSUME IInv, NEW s \in Stores, AcquireOwned(s)
  PROVE  IInv'
<1> USE HostAssumption DEF IInv, AcquireOwned, Unlocked, Goto
<1>1. TypeOK'
  BY DEF TypeOK, CallShape
<1>2. CallShape'
  BY DEF CallShape, TypeOK
<1>3. TableShape'
  BY DEF TableShape
<1>4. NextIsFresh'
  BY DEF NextIsFresh, Live
<1>5. TicketsAreFresh'
  BY DEF TicketsAreFresh, Live, InCall
<1>6. OneHolder'
  BY DEF OneHolder
<1>7. BorrowedIsOwned'
  BY DEF BorrowedIsOwned
<1>8. HandlesAreLive'
  BY DEF HandlesAreLive, TypeOK, OneHolder, BorrowedIsOwned, OwningOps, Live
<1>9. HoldersAreKnown'
  BY DEF HoldersAreKnown, Live, InCall
<1> QED BY <1>1, <1>2, <1>3, <1>4, <1>5, <1>6, <1>7, <1>8, <1>9

\* The taken entry decides whether user code runs.
LEMMA CheckTakenStep ==
  ASSUME IInv, NEW s \in Stores, CheckTaken(s)
  PROVE  IInv'
<1> USE HostAssumption DEF IInv, CheckTaken, Goto, callVars
<1>1. TypeOK'
  BY DEF TypeOK
<1>2. CallShape'
  BY DEF CallShape
<1>3. TableShape'
  BY DEF TableShape, CallShape, LockedOps
<1>4. NextIsFresh'
  BY DEF NextIsFresh, Live
<1>5. TicketsAreFresh'
  BY DEF TicketsAreFresh, Live, InCall
<1>6. OneHolder'
  BY DEF OneHolder
<1>7. BorrowedIsOwned'
  BY DEF BorrowedIsOwned
<1>8. HandlesAreLive'
  BY DEF HandlesAreLive, Live
<1>9. HoldersAreKnown'
  BY DEF HoldersAreKnown, Live, InCall
<1> QED BY <1>1, <1>2, <1>3, <1>4, <1>5, <1>6, <1>7, <1>8, <1>9

\* The taken entry returns to its rep, which nobody has used since.
LEMMA PutBackStep ==
  ASSUME IInv, NEW s \in Stores, PutBack(s)
  PROVE  IInv'
<1> USE HostAssumption DEF IInv, PutBack, Unlocked, Trap, Clear, Moved, Goto
<1>1. TypeOK'
  BY DEF TypeOK, Ops
<1>2. CallShape'
  BY DEF CallShape, TypeOK
<1>3. TableShape'
  BY DEF TableShape
<1>4. NextIsFresh'
  BY DEF NextIsFresh, TypeOK, Live, NoRep
<1>5. TicketsAreFresh'
  BY DEF TicketsAreFresh, TypeOK, CallShape, BorrowedIsOwned, Live, InCall
<1>6. OneHolder'
  BY DEF OneHolder, TypeOK, CallShape, OwningOps
<1>7. BorrowedIsOwned'
  BY DEF BorrowedIsOwned, TypeOK
<1>8. HandlesAreLive'
  BY DEF HandlesAreLive, TypeOK, CallShape, OneHolder, BorrowedIsOwned, Live
<1>9. HoldersAreKnown'
  BY DEF HoldersAreKnown, CallShape, Live, InCall, OwningOps
<1> QED BY <1>1, <1>2, <1>3, <1>4, <1>5, <1>6, <1>7, <1>8, <1>9

\* The thread leaves the table; what a dispatcher spent is recorded.
LEMMA ReturnPlainStep ==
  ASSUME IInv, NEW s \in Stores, ReturnPlain(s)
  PROVE  IInv'
<1> USE HostAssumption DEF IInv, ReturnPlain, Unlock, Spend, Clear, Goto
<1>1. TypeOK'
  <2>1. lost' \subseteq Reps
    BY DEF TypeOK, CallShape, Reps, NoRep, OwningOps, Ops
  <2> QED BY <2>1 DEF TypeOK, Ops, Reps, NoRep, LockedOps
<1>2. CallShape'
  BY DEF CallShape, TypeOK
<1>3. TableShape'
  BY DEF TableShape, TypeOK
<1>4. NextIsFresh'
  BY DEF NextIsFresh, TypeOK, Live, NoRep
<1>5. TicketsAreFresh'
  BY DEF TicketsAreFresh, TypeOK, Live, InCall
<1>6. OneHolder'
  BY DEF OneHolder, TypeOK, CallShape, OwningOps
<1>7. BorrowedIsOwned'
  BY DEF BorrowedIsOwned, TypeOK
<1>8. HandlesAreLive'
  BY DEF HandlesAreLive, TypeOK, Live
<1>9. HoldersAreKnown'
  BY DEF HoldersAreKnown, CallShape, HandlesAreLive, Live, InCall, OwningOps
<1> QED BY <1>1, <1>2, <1>3, <1>4, <1>5, <1>6, <1>7, <1>8, <1>9

\* The same, and a rep is drawn for the result.
LEMMA ReturnResourceStep ==
  ASSUME IInv, NEW s \in Stores, ReturnResource(s)
  PROVE  IInv'
<1> USE HostAssumption DEF IInv, ReturnResource, Unlock, Spend, Clear, Draw, Goto
<1>1. TypeOK'
  <2>1. lost' \subseteq Reps
    BY DEF TypeOK, CallShape, Reps, NoRep, OwningOps, Ops
  <2> QED BY <2>1 DEF TypeOK, Ops, Reps, NoRep, LockedOps
<1>2. CallShape'
  BY DEF CallShape, TypeOK, NoRep
<1>3. TableShape'
  BY DEF TableShape, TypeOK
<1>4. NextIsFresh'
  BY DEF NextIsFresh, TypeOK, Live, Reps, NoRep
<1>5. TicketsAreFresh'
  BY DEF TicketsAreFresh, TypeOK, CallShape, NextIsFresh, Live, InCall
<1>6. OneHolder'
  BY DEF OneHolder, TypeOK, CallShape, OwningOps
<1>7. BorrowedIsOwned'
  BY DEF BorrowedIsOwned, TypeOK
<1>8. HandlesAreLive'
  BY DEF HandlesAreLive, TypeOK, Live
<1>9. HoldersAreKnown'
  BY DEF HoldersAreKnown, CallShape, HandlesAreLive, Live, InCall, OwningOps
<1> QED BY <1>1, <1>2, <1>3, <1>4, <1>5, <1>6, <1>7, <1>8, <1>9

\* A drawn rep becomes an entry and a handle of the guest.
LEMMA InsertResultStep ==
  ASSUME IInv, NEW s \in Stores, NEW type \in Types, InsertResult(s, type)
  PROVE  IInv'
<1> USE HostAssumption DEF IInv, InsertResult, Fill, Unlocked, Goto, callVars
<1>1. TypeOK'
  BY DEF TypeOK, CallShape
<1>2. CallShape'
  BY DEF CallShape, TypeOK
<1>3. TableShape'
  BY DEF TableShape
<1>4. NextIsFresh'
  BY DEF NextIsFresh, TypeOK, Live, NoRep
<1>5. TicketsAreFresh'
  BY DEF TicketsAreFresh, TypeOK, CallShape, Live, InCall, Reps, NoRep
<1>6. OneHolder'
  BY DEF OneHolder, CallShape, TicketsAreFresh, InCall
<1>7. BorrowedIsOwned'
  BY DEF BorrowedIsOwned
<1>8. HandlesAreLive'
  BY DEF HandlesAreLive, TypeOK, CallShape, BorrowedIsOwned,
        TicketsAreFresh, InCall, Live
<1>9. HoldersAreKnown'
  BY DEF HoldersAreKnown, TypeOK, Live, InCall
<1> QED BY <1>1, <1>2, <1>3, <1>4, <1>5, <1>6, <1>7, <1>8, <1>9

\* A drawn rep becomes an entry whose handle is recorded as lost.
LEMMA InsertFailsStep ==
  ASSUME IInv, NEW s \in Stores, NEW type \in Types, InsertFails(s, type)
  PROVE  IInv'
<1> USE HostAssumption DEF IInv, InsertFails, Fill, Unlocked, Goto, callVars
<1>1. TypeOK'
  BY DEF TypeOK, CallShape
<1>2. CallShape'
  BY DEF CallShape, TypeOK
<1>3. TableShape'
  BY DEF TableShape
<1>4. NextIsFresh'
  BY DEF NextIsFresh, TypeOK, Live, NoRep
<1>5. TicketsAreFresh'
  BY DEF TicketsAreFresh, TypeOK, Live, InCall, Reps, NoRep
<1>6. OneHolder'
  BY DEF OneHolder
<1>7. BorrowedIsOwned'
  BY DEF BorrowedIsOwned
<1>8. HandlesAreLive'
  BY DEF HandlesAreLive, TypeOK, CallShape, BorrowedIsOwned,
        TicketsAreFresh, InCall, Live
<1>9. HoldersAreKnown'
  BY DEF HoldersAreKnown, Live, InCall
<1> QED BY <1>1, <1>2, <1>3, <1>4, <1>5, <1>6, <1>7, <1>8, <1>9

\* The thread leaves the table; what was moved is recorded as lost.
LEMMA RunFailsStep ==
  ASSUME IInv, NEW s \in Stores, RunFails(s)
  PROVE  IInv'
<1> USE HostAssumption DEF IInv, RunFails, Unlock, Trap, Clear, Moved, Goto
<1>1. TypeOK'
  <2>1. lost' \subseteq Reps
    BY DEF TypeOK, CallShape, Reps, NoRep, OwningOps, Ops
  <2> QED BY <2>1 DEF TypeOK, Ops, Reps, NoRep, LockedOps
<1>2. CallShape'
  BY DEF CallShape, TypeOK
<1>3. TableShape'
  BY DEF TableShape, TypeOK
<1>4. NextIsFresh'
  BY DEF NextIsFresh, TypeOK, Live, NoRep
<1>5. TicketsAreFresh'
  BY DEF TicketsAreFresh, TypeOK, Live, InCall
<1>6. OneHolder'
  BY DEF OneHolder, TypeOK, CallShape, OwningOps
<1>7. BorrowedIsOwned'
  BY DEF BorrowedIsOwned, TypeOK
<1>8. HandlesAreLive'
  BY DEF HandlesAreLive, TypeOK, Live
<1>9. HoldersAreKnown'
  BY DEF HoldersAreKnown, Live, InCall
<1> QED BY <1>1, <1>2, <1>3, <1>4, <1>5, <1>6, <1>7, <1>8, <1>9

\* The thread leaves the table for the next attempt, or to put back.
LEMMA RunRejectsStep ==
  ASSUME IInv, NEW s \in Stores, RunRejects(s)
  PROVE  IInv'
<1> USE HostAssumption DEF IInv, RunRejects, Unlock, Goto, callVars
<1>1. TypeOK'
  BY DEF TypeOK
<1>2. CallShape'
  BY DEF CallShape
<1>3. TableShape'
  BY DEF TableShape, TypeOK
<1>4. NextIsFresh'
  BY DEF NextIsFresh, Live
<1>5. TicketsAreFresh'
  BY DEF TicketsAreFresh, Live, InCall
<1>6. OneHolder'
  BY DEF OneHolder
<1>7. BorrowedIsOwned'
  BY DEF BorrowedIsOwned
<1>8. HandlesAreLive'
  BY DEF HandlesAreLive, Live
<1>9. HoldersAreKnown'
  BY DEF HoldersAreKnown, Live, InCall
<1> QED BY <1>1, <1>2, <1>3, <1>4, <1>5, <1>6, <1>7, <1>8, <1>9

\* A step that changes nothing preserves the invariant.
LEMMA Stutter == IInv /\ UNCHANGED vars => IInv'
<1> SUFFICES ASSUME IInv, UNCHANGED vars PROVE IInv'
  OBVIOUS
<1> USE DEF IInv, vars, callVars
<1>1. TypeOK' /\ CallShape' /\ TableShape'
  BY DEF TypeOK, CallShape, TableShape
<1>2. NextIsFresh' /\ TicketsAreFresh'
  BY DEF NextIsFresh, TicketsAreFresh, Live, InCall
<1>3. OneHolder' /\ BorrowedIsOwned'
  BY DEF OneHolder, BorrowedIsOwned
<1>4. HandlesAreLive' /\ HoldersAreKnown'
  BY DEF HandlesAreLive, HoldersAreKnown, Live, InCall
<1> QED BY <1>1, <1>2, <1>3, <1>4

\* IInv is preserved by every step.
LEMMA NextIInv == IInv /\ [Next]_vars => IInv'
<1> SUFFICES ASSUME IInv, [Next]_vars PROVE IInv'
  OBVIOUS
<1>1. ASSUME NEW s \in Stores, Handler(s) PROVE IInv'
  BY <1>1, LiftArgStep, LiftFailsStep, AcquireNothingStep, AcquireRefStep,
     AcquireFailsStep, AcquireOwnedStep, CheckTakenStep, PutBackStep,
     ReturnPlainStep, ReturnResourceStep, InsertResultStep, InsertFailsStep,
     RunFailsStep, RunRejectsStep, FillPayloadStep DEF Handler
<1>2. ASSUME NEW s \in Stores, HostResource(s) \/ Reenter(s) \/ Leave(s)
      PROVE  IInv'
  BY <1>2, HostResourceStep, ReenterStep, LeaveStep
<1>3. ASSUME NEW s \in Stores, NEW P \in SUBSET payload, Enter(s, P)
      PROVE  IInv'
  BY <1>3, EnterStep
<1>4. ASSUME NEW s \in Stores, NEW r \in Reps, DropOwn(s, r) PROVE IInv'
  BY <1>4, DropOwnStep
<1>5. ASSUME NEW s \in Stores, NEW k \in Ops, NEW r \in Reps \cup {NoRep},
             NEW a \in Reps \cup {NoRep}, NEW w \in Types,
             CallHost(s, k, r, a, w)
      PROVE  IInv'
  BY <1>5, CallHostStep
<1>6. ASSUME NEW r \in Reps, DropPayload(r) PROVE IInv'
  BY <1>6, DropPayloadStep
<1> QED BY <1>1, <1>2, <1>3, <1>4, <1>5, <1>6, Stutter DEF Next

\* IInv is inductive, hence an invariant of the table.
THEOREM Invariance == Spec => []IInv
BY InitIInv, NextIInv, PTL DEF Spec

-----------------------------------------------------------------------------
(***************************************************************************)
(* What the invariant says of HostResources's own properties.              *)
(***************************************************************************)

\* Every variable keeps its type, up to the bound on the reps.
THEOREM TypeCorrect == Spec => []TypeOK
<1>1. IInv => TypeOK
  BY DEF IInv
<1> QED BY Invariance, <1>1, PTL

\* A handle a guest, a payload or a call holds has its entry: no dispatch
\* closure meets a stale handle of this binder.
THEOREM HandlesStayLive == Spec => []HandlesAreLive
<1>1. IInv => HandlesAreLive
  BY DEF IInv
<1> QED BY Invariance, <1>1, PTL

\* A rep has one holder, so a consuming call never has a rival.
THEOREM RepsHaveOneHolder == Spec => []SingleHolder
<1>1. ASSUME IInv PROVE SingleHolder
  <2> USE <1>1 DEF IInv
  <2>1. ASSUME NEW s \in Stores
        PROVE  /\ own[s] \cap InCall(s) = {}
               /\ arg[s] = self[s] => arg[s] = NoRep
               /\ Holders[s] \cap payload = {}
    BY DEF OneHolder, Holders, InCall, TypeOK
  <2>2. ASSUME NEW s \in Stores PROVE ticket[s] \notin Reachable \cup Live
    BY DEF TicketsAreFresh, Reachable, Holders
  <2>3. ASSUME NEW s \in Stores, NEW u \in Stores, s # u
        PROVE  /\ Holders[s] \cap Holders[u] = {}
               /\ ticket[s] = ticket[u] => ticket[s] = NoRep
    BY <2>3 DEF OneHolder, Holders, InCall, TicketsAreFresh
  <2> QED BY <2>1, <2>2, <2>3 DEF SingleHolder
<1> QED BY Invariance, <1>1, PTL

\* User code on a borrowed receiver has the table to itself and the entry of
\* the type it expects; a consuming call runs on an entry of that type.
THEOREM ReceiversStay == Spec => []ReceiverStays
<1>1. ASSUME IInv PROVE ReceiverStays
  BY <1>1 DEF IInv, CallShape, TableShape, ReceiverStays, LockedOps
<1> QED BY Invariance, <1>1, PTL

\* Every entry is held by somebody, or was lost on a path that records it.
THEOREM NothingIsOrphaned == Spec => []NoSilentOrphan
<1>1. ASSUME IInv PROVE NoSilentOrphan
  BY <1>1 DEF IInv, HoldersAreKnown, NoSilentOrphan, Reachable, Holders
<1> QED BY Invariance, <1>1, PTL

\* While one thread is inside the table no other changes it.
THEOREM BorrowsExcludeWriters == Spec => BorrowExcludesWriters
<1>1. ASSUME IInv, [Next]_vars, table # Nobody PROVE entries' = entries
  BY <1>1 DEF Next, vars, HostResource, Reenter, FillPayload, Fill, Enter,
     Leave, DropOwn, CallHost, Handler, LiftArg, LiftFails, AcquireNothing,
     AcquireRef, AcquireFails, AcquireOwned, CheckTaken, PutBack, ReturnPlain,
     ReturnResource, InsertResult, InsertFails, RunFails, RunRejects,
     DropPayload, Unlocked
<1>2. IInv /\ [Next]_vars => [table # Nobody => entries' = entries]_vars
  BY <1>1
<1> QED BY <1>2, Invariance, PTL DEF Spec, BorrowExcludesWriters

\* An insertion fills a drawn rep, which has no entry yet.
LEMMA FillIsFresh ==
  ASSUME IInv, NEW s \in Stores, NEW type \in Types, Fill(s, type),
         ticket[s] # NoRep
  PROVE  \A r \in Reps : r \in Live' =>
           IF r \in Live THEN entries'[r] = entries[r] ELSE ticket[s] = r
BY DEF IInv, TypeOK, TicketsAreFresh, Fill, Live

\* Reps are not reused: a live entry keeps its type, and one appears only by
\* filling the rep drawn for it or by putting back what a call took.
THEOREM RepsStayDistinct == Spec => RepsAreNotReused
<1> DEFINE Kept == \A r \in Reps : r \in Live' =>
             IF r \in Live THEN entries'[r] = entries[r]
             ELSE \E s \in Stores :
                    \/ ticket[s] = r
                    \/ self[s] = r /\ taken[s] = entries'[r] /\ pc[s] = "putback"
<1>1. ASSUME IInv, [Next]_vars PROVE Kept
  <2>1. CASE UNCHANGED entries
    BY <2>1 DEF Live
  <2>2. ASSUME NEW s \in Stores, NEW type \in Types,
               FillPayload(s, type) \/ InsertResult(s, type) \/ InsertFails(s, type)
        PROVE  Kept
    <3>1. ticket[s] # NoRep /\ Fill(s, type)
      BY <1>1, <2>2 DEF IInv, CallShape, FillPayload, InsertResult, InsertFails
    <3> QED BY <1>1, <3>1, FillIsFresh
  <2>3. ASSUME NEW s \in Stores, NEW r \in Reps, DropOwn(s, r) PROVE Kept
    BY <1>1, <2>3 DEF DropOwn, Live, IInv, TypeOK
  <2>4. ASSUME NEW s \in Stores, LiftArg(s) \/ AcquireOwned(s) PROVE Kept
    BY <1>1, <2>4 DEF LiftArg, AcquireOwned, Live, IInv, TypeOK
  <2>5. ASSUME NEW s \in Stores, PutBack(s) PROVE Kept
    <3>1. taken[s] # NoType /\ self[s] \notin Live
      BY <1>1, <2>5 DEF IInv, CallShape, HandlesAreLive, PutBack
    <3> QED BY <1>1, <2>5, <3>1 DEF PutBack, Live, IInv, TypeOK
  <2> QED BY <1>1, <2>1, <2>2, <2>3, <2>4, <2>5 DEF Next, Handler, vars,
             HostResource, Reenter, Enter, Leave, CallHost, LiftFails,
             AcquireNothing, AcquireRef, AcquireFails, CheckTaken, ReturnPlain,
             ReturnResource, RunFails, RunRejects, DropPayload
<1>2. IInv /\ [Next]_vars => [Kept]_vars
  BY <1>1
<1> QED BY <1>2, Invariance, PTL DEF Spec, RepsAreNotReused

\* A consuming call whose implementation did not run leaves its receiver's
\* entry in the table.
THEOREM RejectionsRestore == Spec => RejectedReceiverStays
<1> DEFINE Rejected(s) == /\ op[s] = "consume"
                          /\ pc[s] \in {"lift", "acquire", "check", "putback"}
                          /\ pc'[s] = "dead"
<1>1. ASSUME IInv, [Next]_vars, NEW s \in Stores, Rejected(s)
      PROVE  self[s] \in Live'
  <2>1. self[s] \in Reps
    BY <1>1 DEF IInv, TypeOK, CallShape
  <2>2. CASE LiftFails(s)
    <3>1. taken[s] = NoType
      BY <1>1, <2>2 DEF IInv, CallShape, LiftFails
    <3>2. self[s] \in Live
      BY <1>1, <2>1, <3>1 DEF IInv, HandlesAreLive, CallShape
    <3> QED BY <2>2, <3>2 DEF LiftFails, Live
  <2>3. CASE AcquireFails(s)
    <3>1. taken[s] = NoType
      BY <1>1, <2>3 DEF IInv, CallShape, AcquireFails
    <3>2. self[s] \in Live
      BY <1>1, <2>1, <3>1 DEF IInv, HandlesAreLive, CallShape
    <3> QED BY <1>1, <2>3, <3>2 DEF AcquireFails, Live
  <2>4. CASE PutBack(s)
    <3>1. taken[s] # NoType
      BY <1>1, <2>4 DEF IInv, CallShape, PutBack
    <3> QED BY <1>1, <2>1, <2>4, <3>1 DEF PutBack, Live, IInv, TypeOK
  <2>5. LiftFails(s) \/ AcquireFails(s) \/ PutBack(s)
    <3> USE DEF IInv, TypeOK, Goto
    <3>1. pc[s] # "dead" /\ pc'[s] = "dead"
      BY <1>1
    <3>2. ASSUME NEW u \in Stores, Handler(u) PROVE u = s
      BY <1>1, <3>1, <3>2 DEF Handler, Trap, LiftArg, LiftFails, AcquireNothing,
         AcquireRef, AcquireFails, AcquireOwned, CheckTaken, PutBack,
         ReturnPlain, ReturnResource, InsertResult, InsertFails, RunFails,
         RunRejects, FillPayload
    <3>3. CASE Handler(s)
      BY <1>1, <3>3 DEF Handler, LiftArg, AcquireNothing, AcquireRef,
         AcquireOwned, CheckTaken, ReturnPlain, ReturnResource, InsertResult,
         InsertFails, RunFails, RunRejects, FillPayload
    <3>4. ASSUME NEW u \in Stores, Leave(u) PROVE FALSE
      BY <1>1, <3>1, <3>4 DEF Leave
    <3> QED BY <1>1, <3>1, <3>2, <3>3, <3>4 DEF Next, vars, HostResource,
               Reenter, Enter, DropOwn, CallHost, DropPayload
  <2> QED BY <2>2, <2>3, <2>4, <2>5
<1>2. IInv /\ [Next]_vars
        => [\A s \in Stores : Rejected(s) => self[s] \in Live']_vars
  BY <1>1
<1> QED BY <1>2, Invariance, PTL DEF Spec, RejectedReceiverStays
=============================================================================
