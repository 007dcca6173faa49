---------------------------- MODULE BlockOnProofs ----------------------------
(***************************************************************************)
(* Proofs about BlockOn, for any number of invocations, wakers and awaits: *)
(* no wake-up is lost.                                                     *)
(***************************************************************************)
EXTENDS BlockOn, TLAPS

Waiting == {"pending", "check", "park"}

\* Only the innermost invocation is outside a poll.
OnlyTopSleeps == \A c \in Calls : pc[c] \in {"check", "park"} => c = top

\* A future that is not done still waits for something.
StillNeeds == \A c \in Calls : pc[c] # "done" => need[c] # 0

\* The contract of `poll`: a future that is Pending has left its waker with
\* the event, until the event happens.
WakerIsLeft == \A c \in Calls : pc[c] \in Waiting /\ ~fired[c] => registered[c]

\* An event that happened since has set the flag, or is about to.
FlagFollows ==
  \A c \in Calls : pc[c] \in Waiting /\ fired[c] =>
    notified[c] \/ \E w \in Wakers : waking[w] = c /\ stage[w] = "flag"

\* A flag set since the last swap is followed by an unpark.
UnparkFollows ==
  \A c \in Calls : pc[c] = "park" /\ notified[c] =>
    token \/ \E w \in Wakers : waking[w] = c /\ stage[w] = "unpark"

\* A waker thread past its first step is waking some invocation.
WakersHaveTargets == \A w \in Wakers : stage[w] # "quiet" => waking[w] \in Calls

IInv ==
  /\ TypeOK
  /\ OnlyTopSleeps
  /\ StillNeeds
  /\ WakerIsLeft
  /\ FlagFollows
  /\ UnparkFollows
  /\ WakersHaveTargets

-----------------------------------------------------------------------------
\* Nothing runs yet: every conjunct holds of the initial states.
LEMMA InitIInv == Init => IInv
BY CallsAssumption
   DEF Init, IInv, TypeOK, OnlyTopSleeps, StillNeeds, WakerIsLeft,
       FlagFollows, UnparkFollows, WakersHaveTargets, Waiting

\* A new invocation starts from within a poll, so no invocation sleeps.
LEMMA StartStep ==
  ASSUME IInv, NEW c \in Calls, Start(c)
  PROVE  IInv'
<1> USE DEF IInv, Start, futureVars, wakeVars
<1>1. TypeOK'
  BY DEF TypeOK
<1>2. OnlyTopSleeps'
  BY CallsAssumption DEF OnlyTopSleeps
<1>3. StillNeeds'
  BY DEF StillNeeds
<1>4. WakerIsLeft'
  BY DEF WakerIsLeft, Waiting
<1>5. FlagFollows'
  BY DEF FlagFollows, Waiting
<1>6. UnparkFollows'
  BY DEF UnparkFollows
<1>7. WakersHaveTargets'
  BY DEF WakersHaveTargets
<1> QED BY <1>1, <1>2, <1>3, <1>4, <1>5, <1>6, <1>7

\* The event is consumed in the middle of a poll.
LEMMA AdvanceStep ==
  ASSUME IInv, NEW c \in Calls, Advance(c)
  PROVE  IInv'
<1> USE DEF IInv, Advance, wakeVars
<1>1. TypeOK'
  BY CallsAssumption DEF TypeOK, StillNeeds
<1>2. OnlyTopSleeps'
  BY DEF OnlyTopSleeps, TypeOK
<1>3. StillNeeds'
  BY DEF StillNeeds, TypeOK
<1>4. WakerIsLeft'
  BY DEF WakerIsLeft, TypeOK, Waiting
<1>5. FlagFollows'
  BY DEF FlagFollows, TypeOK, Waiting
<1>6. UnparkFollows'
  BY DEF UnparkFollows, TypeOK
<1>7. WakersHaveTargets'
  BY DEF WakersHaveTargets
<1> QED BY <1>1, <1>2, <1>3, <1>4, <1>5, <1>6, <1>7

\* A poll leaves the waker with an event that has not happened.
LEMMA RegisterStep ==
  ASSUME IInv, NEW c \in Calls, Register(c)
  PROVE  IInv'
<1> USE DEF IInv, Register, wakeVars
<1>1. TypeOK'
  BY DEF TypeOK
<1>2. OnlyTopSleeps'
  BY DEF OnlyTopSleeps
<1>3. StillNeeds'
  BY DEF StillNeeds
<1>4. WakerIsLeft'
  BY DEF WakerIsLeft, TypeOK, Waiting
<1>5. FlagFollows'
  BY DEF FlagFollows, Waiting
<1>6. UnparkFollows'
  BY DEF UnparkFollows
<1>7. WakersHaveTargets'
  BY DEF WakersHaveTargets
<1> QED BY <1>1, <1>2, <1>3, <1>4, <1>5, <1>6, <1>7

\* Between the poll and the swap nothing changes but the place.
LEMMA ReturnPendingStep ==
  ASSUME IInv, NEW c \in Calls, ReturnPending(c)
  PROVE  IInv'
<1> USE DEF IInv, ReturnPending, futureVars, wakeVars
<1>1. TypeOK'
  BY DEF TypeOK
<1>2. OnlyTopSleeps'
  BY DEF OnlyTopSleeps
<1>3. StillNeeds'
  BY DEF StillNeeds
<1>4. WakerIsLeft'
  BY DEF WakerIsLeft, Waiting
<1>5. FlagFollows'
  BY DEF FlagFollows, Waiting
<1>6. UnparkFollows'
  BY DEF UnparkFollows
<1>7. WakersHaveTargets'
  BY DEF WakersHaveTargets
<1> QED BY <1>1, <1>2, <1>3, <1>4, <1>5, <1>6, <1>7

\* The swap clears a flag only on the way to another poll; a flag it finds
\* clear is set later, by a waker that unparks after it.
LEMMA SwapStep ==
  ASSUME IInv, NEW c \in Calls, Swap(c)
  PROVE  IInv'
<1> USE DEF IInv, Swap, futureVars, wakeVars
<1>1. TypeOK'
  BY DEF TypeOK
<1>2. OnlyTopSleeps'
  BY DEF OnlyTopSleeps
<1>3. StillNeeds'
  BY DEF StillNeeds
<1>4. WakerIsLeft'
  BY DEF WakerIsLeft, Waiting
<1>5. FlagFollows'
  BY DEF FlagFollows, TypeOK, Waiting
<1>6. UnparkFollows'
  BY DEF UnparkFollows
<1>7. WakersHaveTargets'
  BY DEF WakersHaveTargets
<1> QED BY <1>1, <1>2, <1>3, <1>4, <1>5, <1>6, <1>7

\* The token is taken only by the innermost invocation, which then looks at
\* its flag again.
LEMMA UnparkedStep ==
  ASSUME IInv, NEW c \in Calls, Unparked(c)
  PROVE  IInv'
<1> USE DEF IInv, Unparked, futureVars, wakeVars
<1>1. TypeOK'
  BY DEF TypeOK
<1>2. OnlyTopSleeps'
  BY DEF OnlyTopSleeps
<1>3. StillNeeds'
  BY DEF StillNeeds
<1>4. WakerIsLeft'
  BY DEF WakerIsLeft, Waiting
<1>5. FlagFollows'
  BY DEF FlagFollows, Waiting
<1>6. UnparkFollows'
  BY DEF UnparkFollows, TypeOK, OnlyTopSleeps
<1>7. WakersHaveTargets'
  BY DEF WakersHaveTargets
<1> QED BY <1>1, <1>2, <1>3, <1>4, <1>5, <1>6, <1>7

\* A spurious return from park looks at the flag again.
LEMMA SpuriousUnparkStep ==
  ASSUME IInv, NEW c \in Calls, SpuriousUnpark(c)
  PROVE  IInv'
<1> USE DEF IInv, SpuriousUnpark, futureVars, wakeVars
<1>1. TypeOK'
  BY DEF TypeOK
<1>2. OnlyTopSleeps'
  BY DEF OnlyTopSleeps
<1>3. StillNeeds'
  BY DEF StillNeeds
<1>4. WakerIsLeft'
  BY DEF WakerIsLeft, Waiting
<1>5. FlagFollows'
  BY DEF FlagFollows, Waiting
<1>6. UnparkFollows'
  BY DEF UnparkFollows
<1>7. WakersHaveTargets'
  BY DEF WakersHaveTargets
<1> QED BY <1>1, <1>2, <1>3, <1>4, <1>5, <1>6, <1>7

\* An event that happens takes the waker it holds and runs it.
LEMMA FireStep ==
  ASSUME IInv, NEW w \in Wakers, NEW c \in Calls, Fire(w, c)
  PROVE  IInv'
<1> USE DEF IInv, Fire, wakeVars
<1>1. TypeOK'
  BY DEF TypeOK
<1>2. OnlyTopSleeps'
  BY DEF OnlyTopSleeps
<1>3. StillNeeds'
  BY DEF StillNeeds
<1>4. WakerIsLeft'
  BY DEF WakerIsLeft, TypeOK, Waiting
<1>5. FlagFollows'
  BY DEF FlagFollows, TypeOK, WakerIsLeft, Waiting
<1>6. UnparkFollows'
  BY DEF UnparkFollows, TypeOK
<1>7. WakersHaveTargets'
  BY DEF WakersHaveTargets, TypeOK
<1> QED BY <1>1, <1>2, <1>3, <1>4, <1>5, <1>6, <1>7

\* A stray wake-up occupies a waker thread that was quiet.
LEMMA StrayWakeStep ==
  ASSUME IInv, NEW w \in Wakers, NEW c \in Calls, StrayWake(w, c)
  PROVE  IInv'
<1> USE DEF IInv, StrayWake, futureVars
<1>1. TypeOK'
  BY DEF TypeOK
<1>2. OnlyTopSleeps'
  BY DEF OnlyTopSleeps
<1>3. StillNeeds'
  BY DEF StillNeeds
<1>4. WakerIsLeft'
  BY DEF WakerIsLeft, Waiting
<1>5. FlagFollows'
  BY DEF FlagFollows, Waiting
<1>6. UnparkFollows'
  BY DEF UnparkFollows
<1>7. WakersHaveTargets'
  BY DEF WakersHaveTargets, TypeOK
<1> QED BY <1>1, <1>2, <1>3, <1>4, <1>5, <1>6, <1>7

\* Once the flag is set the same waker owes an unpark.
LEMMA SetFlagStep ==
  ASSUME IInv, NEW w \in Wakers, SetFlag(w)
  PROVE  IInv'
<1> USE DEF IInv, SetFlag, futureVars
<1>1. TypeOK'
  BY DEF TypeOK
<1>2. OnlyTopSleeps'
  BY DEF OnlyTopSleeps
<1>3. StillNeeds'
  BY DEF StillNeeds
<1>4. WakerIsLeft'
  BY DEF WakerIsLeft, Waiting
<1>5. FlagFollows'
  BY DEF FlagFollows, TypeOK, Waiting
<1>6. UnparkFollows'
  BY DEF UnparkFollows, TypeOK
<1>7. WakersHaveTargets'
  BY DEF WakersHaveTargets
<1> QED BY <1>1, <1>2, <1>3, <1>4, <1>5, <1>6, <1>7

\* The token outlives the waker.
LEMMA UnparkStep ==
  ASSUME IInv, NEW w \in Wakers, Unpark(w)
  PROVE  IInv'
<1> USE DEF IInv, Unpark, futureVars
<1>1. TypeOK'
  BY DEF TypeOK
<1>2. OnlyTopSleeps'
  BY DEF OnlyTopSleeps
<1>3. StillNeeds'
  BY DEF StillNeeds
<1>4. WakerIsLeft'
  BY DEF WakerIsLeft, Waiting
<1>5. FlagFollows'
  BY DEF FlagFollows, Waiting
<1>6. UnparkFollows'
  BY DEF UnparkFollows
<1>7. WakersHaveTargets'
  BY DEF WakersHaveTargets, TypeOK
<1> QED BY <1>1, <1>2, <1>3, <1>4, <1>5, <1>6, <1>7

\* A step that changes nothing preserves any invariant.
LEMMA Stutter == IInv /\ UNCHANGED vars => IInv'
BY DEF vars, futureVars, wakeVars, IInv, TypeOK, OnlyTopSleeps, StillNeeds,
       WakerIsLeft, FlagFollows, UnparkFollows, WakersHaveTargets, Waiting

\* IInv is inductive, hence an invariant of the executor.
THEOREM Invariance == Spec => []IInv
<1>1. IInv /\ [Next]_vars => IInv'
  <2> SUFFICES ASSUME IInv, [Next]_vars PROVE IInv'
    OBVIOUS
  <2>1. ASSUME NEW c \in Calls, Start(c) \/ Executor(c) \/ SpuriousUnpark(c)
        PROVE  IInv'
    BY <2>1, StartStep, AdvanceStep, RegisterStep, ReturnPendingStep,
       SwapStep, UnparkedStep, SpuriousUnparkStep DEF Executor
  <2>2. ASSUME NEW w \in Wakers, Wake(w) PROVE IInv'
    BY <2>2, SetFlagStep, UnparkStep DEF Wake
  <2>3. ASSUME NEW w \in Wakers, NEW c \in Calls, Fire(w, c) \/ StrayWake(w, c)
        PROVE  IInv'
    BY <2>3, FireStep, StrayWakeStep
  <2> QED BY <2>1, <2>2, <2>3, Stutter DEF Next
<1> QED BY InitIInv, <1>1, PTL DEF Spec

\* Every variable keeps its type; in particular a future that is Ready is
\* never polled again (need does not go below zero).
THEOREM TypeCorrect == Spec => []TypeOK
<1>1. IInv => TypeOK
  BY DEF IInv
<1> QED BY Invariance, <1>1, PTL

\* The executor of host.rs never parks through an event, whatever nested
\* invocations and stray wakers do to the thread's park token.
THEOREM WakeupsAreNotLost == Spec => []NoLostWakeup
<1>1. IInv => NoLostWakeup
  BY DEF IInv, FlagFollows, UnparkFollows, Waiting, NoLostWakeup
<1> QED BY Invariance, <1>1, PTL

\* A notification that arrives while a nested invocation runs is still there
\* when the outer poll returns.
THEOREM OuterWakesAreKept == Spec => []OuterWakeIsKept
<1>1. IInv => OuterWakeIsKept
  BY DEF IInv, FlagFollows, Waiting, OuterWakeIsKept
<1> QED BY Invariance, <1>1, PTL
=============================================================================
