------------------------------ MODULE LuaGuards ------------------------------
(***************************************************************************)
(* Objects bound to Lua by haphe-lua and the borrow guards its userdata    *)
(* callbacks hold (crates/haphe-lua/src/binder.rs, LuaTypeBinder::register *)
(* and make_stepper).                                                      *)
(*                                                                         *)
(* A bound object is an mlua userdata.  A callback borrows it, shared or   *)
(* mutably, and keeps the guard in a local variable or in the future of an *)
(* async method.  mlua never waits for a guard: a conflicting borrow is a  *)
(* Lua error, after which the call has not happened.                       *)
(*                                                                         *)
(* Without the `send` feature all of Lua runs on one thread, but a guard   *)
(* outlives the step that took it in two ways:                             *)
(*   - Lua code runs under it: converting a table argument calls its       *)
(*     `__index`, and the method itself may call a foreign function that a *)
(*     script supplied.  That code calls other methods, of the same object *)
(*     too.  These calls nest: `stack` is the stack of native calls.       *)
(*   - an async method is suspended at an await, off the stack, while      *)
(*     other coroutines run.                                               *)
(*                                                                         *)
(* The content of an object is a counter.  A `&mut self` body reads it     *)
(* when it starts and writes one more when it ends, so that any other      *)
(* writer in between shows as a lost update.                               *)
(***************************************************************************)
EXTENDS Naturals, Sequences, SequencesExt

CONSTANTS Objects,      \* the bound objects
          Calls,        \* the calls that may be under way at a time
          MaxWrites     \* bound on the mutations of one object

ASSUME WritesAssumption == MaxWrites \in Nat

VARIABLES call,         \* what each call does
          guard,        \* the guard each call holds on its object
          stack,        \* the calls running on the one thread, innermost last
          value,        \* the content of each object
          writes        \* history: mutations completed on each object

vars == <<call, guard, stack, value, writes>>

\* How a callback acquires its receiver.  Plain, mangled generic and dyn
\* methods of one kind differ in the body they choose, not in the receiver.
\* Getters, indexing and calls acquire it as a `&self` method does, field
\* setters and `__newindex` as a `&mut self` method does.
Shared == {"method", "async"}
Mutable == {"method_mut", "async_mut"}
Async == {"async", "async_mut"}
Mutating == Mutable \cup {"property_set"}
Ops == Shared \cup Mutating \cup {"iter"}

Phases == {"idle", "converting", "running", "suspended", "abandoned", "iterating"}

Idle == [phase |-> "idle"]
Under(op, o, phase, seen) == [phase |-> phase, op |-> op, obj |-> o, seen |-> seen]

Active(c) == call[c].phase # "idle"

\* AnyUserData::borrow and borrow_mut, UserDataRef and UserDataRefMut
Holders(o) == {c \in Calls : Active(c) /\ guard[c] # "none" /\ call[c].obj = o}
CanBorrow(o) == \A c \in Holders(o) : guard[c] = "shared"
CanBorrowMutBesideReaders(o) == \A c \in Holders(o) : guard[c] = "shared"
CanBorrowMut(o) == Holders(o) = {}

Top(c) == stack # <<>> /\ Last(stack) = c

\* Script code runs at top level, or called by the innermost native call: by
\* the conversion of its arguments or by a foreign function its body calls.
LuaRuns == stack # <<>> => call[Last(stack)].phase \in {"converting", "running"}

Init == /\ call = [c \in Calls |-> Idle]
        /\ guard = [c \in Calls |-> "none"]
        /\ stack = <<>>
        /\ value = [o \in Objects |-> 0]
        /\ writes = [o \in Objects |-> 0]

(***************************************************************************)
(* A script calls a method: the receiver is borrowed before the other      *)
(* arguments are converted.                                                *)
(***************************************************************************)
BeginShared(c, op, o) ==
  /\ ~Active(c) /\ LuaRuns
  /\ op \in Shared
  /\ CanBorrow(o)
  /\ guard' = [guard EXCEPT ![c] = "shared"]
  /\ call' = [call EXCEPT ![c] = Under(op, o, "converting", 0)]
  /\ stack' = Append(stack, c)
  /\ UNCHANGED <<value, writes>>

BeginMut(c, op, o) ==
  /\ ~Active(c) /\ LuaRuns
  /\ op \in Mutable
  /\ CanBorrowMut(o)
  /\ guard' = [guard EXCEPT ![c] = "mut"]
  /\ call' = [call EXCEPT ![c] = Under(op, o, "converting", 0)]
  /\ stack' = Append(stack, c)
  /\ UNCHANGED <<value, writes>>

\* `obj.name = v` on a computed property converts v first.
BeginPropertySet(c, o) ==
  /\ ~Active(c) /\ LuaRuns
  /\ call' = [call EXCEPT ![c] = Under("property_set", o, "converting", 0)]
  /\ stack' = Append(stack, c)
  /\ UNCHANGED <<guard, value, writes>>

\* `pairs(obj)`, `obj:iter()`: the stepper owns an iterator over a clone; the
\* guard is gone when the loop starts.
BeginIteration(c, o) ==
  /\ ~Active(c) /\ LuaRuns
  /\ CanBorrow(o)
  /\ call' = [call EXCEPT ![c] = Under("iter", o, "iterating", value[o])]
  /\ UNCHANGED <<guard, stack, value, writes>>

EndIteration(c) ==
  /\ call[c].phase = "iterating" /\ LuaRuns
  /\ call' = [call EXCEPT ![c] = Idle]
  /\ UNCHANGED <<guard, stack, value, writes>>

\* The call is over, one way or another, and its guard is dropped.
LeaveKeepingGuard(c) == call' = [call EXCEPT ![c] = Idle] /\ UNCHANGED guard
Leave(c) ==
  /\ call' = [call EXCEPT ![c] = Idle]
  /\ guard' = [guard EXCEPT ![c] = "none"]

Goes(c, phase) ==
  call' = [call EXCEPT ![c] = Under(call[c].op, call[c].obj, phase, call[c].seen)]

\* Every argument converted: the body starts and reads the object.
Converted(c) ==
  /\ Top(c) /\ call[c].phase = "converting"
  /\ call[c].op = "property_set" => CanBorrowMut(call[c].obj)
  /\ guard' = IF call[c].op = "property_set" THEN [guard EXCEPT ![c] = "mut"] ELSE guard
  /\ call' = [call EXCEPT ![c] = Under(call[c].op, call[c].obj, "running", value[call[c].obj])]
  /\ UNCHANGED <<stack, value, writes>>

\* An argument does not convert, its `__index` raises, or a property setter
\* finds the object borrowed.
ConversionFails(c) ==
  /\ Top(c) /\ call[c].phase = "converting"
  /\ Leave(c)
  /\ stack' = Front(stack)
  /\ UNCHANGED <<value, writes>>

\* The future of an async method is pending: the coroutine yields with it,
\* guard and all.
AwaitReleasing(c) ==
  /\ Top(c) /\ call[c].phase = "running" /\ call[c].op \in Async
  /\ Goes(c, "suspended")
  /\ guard' = [guard EXCEPT ![c] = "none"]
  /\ stack' = Front(stack)
  /\ UNCHANGED <<value, writes>>

Await(c) ==
  /\ Top(c) /\ call[c].phase = "running" /\ call[c].op \in Async
  /\ Goes(c, "suspended")
  /\ stack' = Front(stack)
  /\ UNCHANGED <<guard, value, writes>>

\* Its coroutine is resumed by the executor, or by other Lua code.
Resume(c) ==
  /\ call[c].phase = "suspended" /\ LuaRuns
  /\ Goes(c, "running")
  /\ stack' = Append(stack, c)
  /\ UNCHANGED <<guard, value, writes>>

\* The body returns; a mutating one has written what it read, plus one.
ReturnTwice(c) ==
  /\ Top(c) /\ call[c].phase = "running" /\ call[c].op \in Mutating
  /\ writes[call[c].obj] < MaxWrites
  /\ value' = [value EXCEPT ![call[c].obj] = call[c].seen + 2]
  /\ writes' = [writes EXCEPT ![call[c].obj] = @ + 1]
  /\ Leave(c)
  /\ stack' = Front(stack)

Return(c) ==
  /\ Top(c) /\ call[c].phase = "running"
  /\ LET o == call[c].obj IN
       IF call[c].op \in Mutating
       THEN /\ writes[o] < MaxWrites
            /\ value' = [value EXCEPT ![o] = call[c].seen + 1]
            /\ writes' = [writes EXCEPT ![o] = @ + 1]
       ELSE UNCHANGED <<value, writes>>
  /\ Leave(c)
  /\ stack' = Front(stack)

\* The body fails; it has not changed the object.
Raise(c) ==
  /\ Top(c) /\ call[c].phase = "running"
  /\ Leave(c)
  /\ stack' = Front(stack)
  /\ UNCHANGED <<value, writes>>

\* The script, or the host's executor, drops the coroutine of a suspended
\* call.  The future, and the guard in it, live until Lua collects them.
Abandon(c) ==
  /\ call[c].phase = "suspended"
  /\ Goes(c, "abandoned")
  /\ UNCHANGED <<guard, stack, value, writes>>

CollectForgetting(c) ==
  /\ call[c].phase = "abandoned"
  /\ call' = [call EXCEPT ![c] = Idle]
  /\ UNCHANGED <<guard, stack, value, writes>>

Collect(c) ==
  /\ call[c].phase = "abandoned"
  /\ Leave(c)
  /\ UNCHANGED <<stack, value, writes>>

Step(c) == \/ \E o \in Objects : \/ \E op \in Ops : BeginShared(c, op, o) \/ BeginMut(c, op, o)
                                 \/ BeginPropertySet(c, o)
                                 \/ BeginIteration(c, o)
           \/ EndIteration(c)
           \/ Converted(c)
           \/ ConversionFails(c)
           \/ Await(c)
           \/ Resume(c)
           \/ Return(c)
           \/ Raise(c)
           \/ Abandon(c)
           \/ Collect(c)

Next == \E c \in Calls : Step(c)

Spec == Init /\ [][Next]_vars

(***************************************************************************)
(* Conversions and bodies end, the Lua code that they call included; a     *)
(* suspended coroutine is resumed when its future is woken, and a future   *)
(* resumed often enough is ready.  Lua collects what is unreachable.       *)
(* Nobody promises to abandon anything.                                    *)
(***************************************************************************)
FairSpec ==
  /\ Spec
  /\ \A c \in Calls : /\ SF_vars(Converted(c) \/ ConversionFails(c))
                      /\ SF_vars(Resume(c))
                      /\ SF_vars(Return(c) \/ Raise(c))
                      /\ WF_vars(Collect(c))
-----------------------------------------------------------------------------
Record(phases, ops) ==
  [phase : phases, op : ops, obj : Objects, seen : 0..MaxWrites]

\* Every variable keeps its shape.
TypeOK ==
  /\ call \in [Calls -> {Idle} \cup Record(Phases \ {"idle"}, Ops)]
  /\ guard \in [Calls -> {"none", "shared", "mut"}]
  /\ stack \in Seq(Calls)
  /\ value \in [Objects -> 0..MaxWrites]
  /\ writes \in [Objects -> 0..MaxWrites]

InBody(c) == call[c].phase \in {"running", "suspended", "abandoned"}

\* What a body saw of its object when it started is what the object holds for
\* as long as the body runs, over every await and every re-entry: nobody
\* writes an object that a method is using.
StableUnderGuard ==
  \A c \in Calls : InBody(c) => call[c].seen = value[call[c].obj]

\* Mutation writes back in place: no completed `&mut self` call is lost,
\* whatever other calls ran while it awaited or called back into Lua.
NoLostUpdate == value = writes

\* A guard is held by a call that is under way and by no other, and the
\* thread's stack holds each synchronous call once: when every call is over,
\* every object can be borrowed mutably again.
NeedsGuard(c) == InBody(c) \/ (call[c].phase = "converting" /\ call[c].op # "property_set")
OnStack(c) == \E i \in 1..Len(stack) : stack[i] = c

GuardsEndWithCalls ==
  /\ \A c \in Calls : guard[c] # "none" <=> NeedsGuard(c)
  /\ \A c \in Calls : OnStack(c) <=> call[c].phase \in {"converting", "running"}
  /\ \A i, j \in 1..Len(stack) : stack[i] = stack[j] => i = j

\* A guard is given back: no interleaving of suspended, nested and abandoned
\* calls keeps an object borrowed for ever.
GuardIsReleased == \A c \in Calls : guard[c] # "none" ~> guard[c] = "none"
=============================================================================
