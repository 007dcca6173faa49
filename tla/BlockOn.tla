------------------------------- MODULE BlockOn -------------------------------
(***************************************************************************)
(* `block_on` (host.rs): the parking executor that drives the future of an *)
(* async provided member to completion on the thread of the guest call.    *)
(*                                                                         *)
(* Each invocation has a Signal of its own, a flag beside the thread to    *)
(* unpark; the park token belongs to the thread, and is shared by all the  *)
(* invocations that thread ever makes.  Invocations nest: a future that is *)
(* being polled may call the guest, whose async import blocks on the same  *)
(* thread again.  The inner invocation then consumes unparks meant for the *)
(* outer one, and wakers of finished invocations still unpark the thread.  *)
(* The flag is what keeps a wake-up from being lost.                       *)
(*                                                                         *)
(* The future is external: it resolves after a number of events, and polls *)
(* by the contract of `Future::poll`: a poll that ends in Pending has      *)
(* registered the waker of this invocation with the event it waits for.    *)
(* Events happen on other threads (the documented limit of the executor).  *)
(***************************************************************************)
EXTENDS Naturals

CONSTANTS
  Calls,      \* bound: the invocations of block_on the thread makes
  Wakers,     \* threads on which events happen and wakers run
  MaxAwaits,  \* bound: the events one future waits for, one after the other
  None        \* no invocation

ASSUME CallsAssumption == None \notin Calls /\ MaxAwaits \in Nat \ {0}

VARIABLES
  pc,          \* where each invocation is in its loop
  top,         \* the innermost invocation in progress
  parent,      \* the invocation it was made from
  need,        \* events the future still waits for
  fired,       \* the event it waits for has happened
  registered,  \* the event holds the waker
  notified,    \* Signal.notified
  token,       \* the thread's park token
  waking,      \* the invocation each waker thread is waking
  stage        \* how far its `wake` has come

vars == <<pc, top, parent, need, fired, registered, notified, token, waking,
          stage>>

futureVars == <<need, fired, registered>>
wakeVars == <<waking, stage>>

TypeOK ==
  /\ pc \in [Calls -> {"idle", "poll", "pending", "check", "park", "done"}]
  /\ top \in Calls \cup {None}
  /\ parent \in [Calls -> Calls \cup {None}]
  /\ need \in [Calls -> 0 .. MaxAwaits]
  /\ fired \in [Calls -> BOOLEAN]
  /\ registered \in [Calls -> BOOLEAN]
  /\ notified \in [Calls -> BOOLEAN]
  /\ token \in BOOLEAN
  /\ waking \in [Wakers -> Calls \cup {None}]
  /\ stage \in [Wakers -> {"quiet", "flag", "unpark"}]

Init ==
  /\ pc = [c \in Calls |-> "idle"]
  /\ top = None
  /\ parent = [c \in Calls |-> None]
  /\ need \in [Calls -> 1 .. MaxAwaits]
  /\ fired = [c \in Calls |-> FALSE]
  /\ registered = [c \in Calls |-> FALSE]
  /\ notified = [c \in Calls |-> FALSE]
  /\ token \in BOOLEAN
  /\ waking = [w \in Wakers |-> None]
  /\ stage = [w \in Wakers |-> "quiet"]

-----------------------------------------------------------------------------
(***************************************************************************)
(* The executor's thread.                                                  *)
(***************************************************************************)

\* block_on is called, from outside or while the innermost future is being
\* polled, before or after it has registered its waker.
Start(c) ==
  /\ pc[c] = "idle"
  /\ top # None => pc[top] \in {"poll", "pending"}
  /\ pc' = [pc EXCEPT ![c] = "poll"]
  /\ parent' = [parent EXCEPT ![c] = top]
  /\ top' = c
  /\ UNCHANGED <<futureVars, notified, token, wakeVars>>

\* Mutant: a future that is Ready is polled once more.
AdvancePastReady(c) ==
  /\ c = top /\ pc[c] = "poll" /\ fired[c]
  /\ need' = [need EXCEPT ![c] = @ - 1]
  /\ fired' = [fired EXCEPT ![c] = FALSE]
  /\ IF need[c] > 0
     THEN UNCHANGED <<pc, top>>
     ELSE /\ pc' = [pc EXCEPT ![c] = "done"]
          /\ top' = parent[c]
  /\ UNCHANGED <<parent, registered, notified, token, wakeVars>>

\* The event has happened: the future goes on to wait for the next one in
\* the same poll, or is Ready, and block_on returns.
Advance(c) ==
  /\ c = top /\ pc[c] = "poll" /\ fired[c]
  /\ need' = [need EXCEPT ![c] = @ - 1]
  /\ fired' = [fired EXCEPT ![c] = FALSE]
  /\ IF need[c] > 1
     THEN UNCHANGED <<pc, top>>
     ELSE /\ pc' = [pc EXCEPT ![c] = "done"]
          /\ top' = parent[c]
  /\ UNCHANGED <<parent, registered, notified, token, wakeVars>>

\* The event has not happened: it gets the waker.
Register(c) ==
  /\ c = top /\ pc[c] = "poll" /\ ~fired[c]
  /\ registered' = [registered EXCEPT ![c] = TRUE]
  /\ pc' = [pc EXCEPT ![c] = "pending"]
  /\ UNCHANGED <<top, parent, need, fired, notified, token, wakeVars>>

\* Mutant: the flag is reset when the poll returns, not by the swap.
ReturnPendingResetting(c) ==
  /\ c = top /\ pc[c] = "pending"
  /\ pc' = [pc EXCEPT ![c] = "check"]
  /\ notified' = [notified EXCEPT ![c] = FALSE]
  /\ UNCHANGED <<top, parent, futureVars, token, wakeVars>>

\* The poll returns Pending.
ReturnPending(c) ==
  /\ c = top /\ pc[c] = "pending"
  /\ pc' = [pc EXCEPT ![c] = "check"]
  /\ UNCHANGED <<top, parent, futureVars, notified, token, wakeVars>>

\* `while !signal.notified.swap(false)`: poll again, or park.
Swap(c) ==
  /\ c = top /\ pc[c] = "check"
  /\ notified' = [notified EXCEPT ![c] = FALSE]
  /\ pc' = [pc EXCEPT ![c] = IF notified[c] THEN "poll" ELSE "park"]
  /\ UNCHANGED <<top, parent, futureVars, token, wakeVars>>

\* `thread::park` returns when there is a token, which it takes, ...
Unparked(c) ==
  /\ c = top /\ pc[c] = "park" /\ token
  /\ token' = FALSE
  /\ pc' = [pc EXCEPT ![c] = "check"]
  /\ UNCHANGED <<top, parent, futureVars, notified, wakeVars>>

\* ... or spuriously.
SpuriousUnpark(c) ==
  /\ c = top /\ pc[c] = "park"
  /\ pc' = [pc EXCEPT ![c] = "check"]
  /\ UNCHANGED <<top, parent, futureVars, notified, token, wakeVars>>

-----------------------------------------------------------------------------
(***************************************************************************)
(* The threads of the event sources.                                       *)
(***************************************************************************)

\* The event a future waits for, or will wait for, happens; a registered
\* waker is taken and run.
Fire(w, c) ==
  /\ stage[w] = "quiet"
  /\ pc[c] \in {"poll", "pending", "check", "park"} /\ ~fired[c]
  /\ fired' = [fired EXCEPT ![c] = TRUE]
  /\ registered' = [registered EXCEPT ![c] = FALSE]
  /\ IF registered[c]
     THEN /\ waking' = [waking EXCEPT ![w] = c]
          /\ stage' = [stage EXCEPT ![w] = "flag"]
     ELSE UNCHANGED wakeVars
  /\ UNCHANGED <<pc, top, parent, need, notified, token>>

\* A clone of a waker is run for no reason, maybe after its call returned.
StrayWake(w, c) ==
  /\ stage[w] = "quiet" /\ pc[c] # "idle"
  /\ waking' = [waking EXCEPT ![w] = c]
  /\ stage' = [stage EXCEPT ![w] = "flag"]
  /\ UNCHANGED <<pc, top, parent, futureVars, notified, token>>

\* wake_by_ref: `notified.store(true)`, ...
SetFlag(w) ==
  /\ stage[w] = "flag"
  /\ notified' = [notified EXCEPT ![waking[w]] = TRUE]
  /\ stage' = [stage EXCEPT ![w] = "unpark"]
  /\ UNCHANGED <<pc, top, parent, futureVars, token, waking>>

\* Mutant: the flag is set, the thread is not unparked.
UnparkForgotten(w) ==
  /\ stage[w] = "unpark"
  /\ waking' = [waking EXCEPT ![w] = None]
  /\ stage' = [stage EXCEPT ![w] = "quiet"]
  /\ UNCHANGED <<pc, top, parent, futureVars, notified, token>>

\* ... then `thread.unpark()`.
Unpark(w) ==
  /\ stage[w] = "unpark"
  /\ token' = TRUE
  /\ waking' = [waking EXCEPT ![w] = None]
  /\ stage' = [stage EXCEPT ![w] = "quiet"]
  /\ UNCHANGED <<pc, top, parent, futureVars, notified>>

-----------------------------------------------------------------------------
Executor(c) ==
  \/ Advance(c)
  \/ Register(c)
  \/ ReturnPending(c)
  \/ Swap(c)
  \/ Unparked(c)

\* Mutant: the thread is unparked first, the flag set afterwards.
WakeSwapped(w) ==
  \/ /\ stage[w] = "flag"
     /\ token' = TRUE
     /\ stage' = [stage EXCEPT ![w] = "unpark"]
     /\ UNCHANGED <<pc, top, parent, futureVars, notified, waking>>
  \/ /\ stage[w] = "unpark"
     /\ notified' = [notified EXCEPT ![waking[w]] = TRUE]
     /\ waking' = [waking EXCEPT ![w] = None]
     /\ stage' = [stage EXCEPT ![w] = "quiet"]
     /\ UNCHANGED <<pc, top, parent, futureVars, token>>

Wake(w) == SetFlag(w) \/ Unpark(w)

Next ==
  \/ \E c \in Calls : Start(c) \/ Executor(c) \/ SpuriousUnpark(c)
  \/ \E w \in Wakers : Wake(w)
  \/ \E w \in Wakers, c \in Calls : Fire(w, c) \/ StrayWake(w, c)

Spec == Init /\ [][Next]_vars

(***************************************************************************)
(* Fairness: the executor's loop and `wake` are straight-line code; a park *)
(* is only promised to return when there is a token (Unparked, not         *)
(* SpuriousUnpark).  That an awaited event happens in the end is an        *)
(* assumption on the future; strong, because its thread may meanwhile be   *)
(* busy with stray wake-ups.                                               *)
(***************************************************************************)
FairSpec ==
  /\ Spec
  /\ \A c \in Calls : /\ WF_vars(Executor(c))
                      /\ SF_vars(\E w \in Wakers : Fire(w, c))
  /\ \A w \in Wakers : WF_vars(Wake(w))

-----------------------------------------------------------------------------
(***************************************************************************)
(* Properties.                                                             *)
(***************************************************************************)

\* The thread never sleeps through an event: whenever the innermost future
\* could make progress and its invocation is parked, there is a token to wake
\* it or a waker on its way (the flag, and its order with unpark, in
\* host.rs).
NoLostWakeup ==
  \A c \in Calls : pc[c] = "park" /\ fired[c] =>
    token \/ \E w \in Wakers : waking[w] = c

\* A wake-up that comes while a nested invocation runs is kept: the inner one
\* may take the outer one's unpark, never its notification.  So as soon as
\* the outer poll returns, its `swap` finds the flag set, or about to be.
OuterWakeIsKept ==
  \A c \in Calls : pc[c] \in {"pending", "check"} /\ fired[c] =>
    notified[c] \/ \E w \in Wakers : waking[w] = c /\ stage[w] = "flag"

\* Every invocation returns: if the events of its future happen, nothing
\* that other invocations or stray wakers do to the token stops it.
EveryCallReturns == \A c \in Calls : pc[c] # "idle" ~> pc[c] = "done"
=============================================================================
