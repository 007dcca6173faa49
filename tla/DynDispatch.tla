----------------------------- MODULE DynDispatch -----------------------------
(***************************************************************************)
(* One call of a script into bound Rust code, in the three runtimes: the   *)
(* arguments are lifted to ScriptValues, a `dyn` function ranks the        *)
(* declared instantiations and tries them in turn until one converts the   *)
(* arguments, a function under its own name has one candidate only.  A     *)
(* conversion error means the body has not run; whatever the body answers, *)
(* a value or an error of the callee, ends the call.                       *)
(*                                                                         *)
(* The runtimes differ in the order of the fall-through and in how a       *)
(* `&mut self` method reaches its object: Rhai takes the object out of the *)
(* script's variable and stores it back later.                             *)
(*                                                                         *)
(* Values, types and conversions are parameters, so that what is proved of *)
(* the control holds of any; MCDynDispatch supplies those of the bridge.   *)
(***************************************************************************)
EXTENDS Integers, Sequences

CONSTANTS
  Calls,            \* what scripts may call; see CallType
  NoCall,           \* no call is in progress
  Candidates(_),    \* what such a call may try, numbered as declared
  Params(_, _),     \* the declared parameter types of a call's candidate
  Lifted(_),        \* the argument lists a call's arguments may lift to
  Unliftable,       \* ... or this, when the runtime cannot convert one
  Fit(_, _),        \* value_matches_descriptor: 0 No, 1 Coercible, 2 Exact
  Accepts(_, _, _)  \* the wrapper's FromScript conversions succeed

(***************************************************************************)
(* A call names the runtime it comes from, its receiver and whether it     *)
(* goes through a dispatcher.  The candidates of a dispatcher are all the  *)
(* declared instantiations, in WebAssembly those that the variant case in  *)
(* the arguments names; a function under its own name is the only one.     *)
(***************************************************************************)
CallType(k) ==
  /\ k.runtime \in {"lua", "rhai", "wit"}
  /\ k.receiver \in {"none", "ref", "mut"}
  /\ k.dyn \in BOOLEAN
  /\ Candidates(k) \subseteq Nat \ {0}

ASSUME CallsAssumption == NoCall \notin Calls /\ \A k \in Calls : CallType(k)

\* MatchQuality has three values.
ASSUME FitAssumption ==
  \A k \in Calls : \A c \in Candidates(k), vs \in Lifted(k) \ {Unliftable} :
    Len(Params(k, c)) = Len(vs) =>
      \A i \in 1 .. Len(vs) : Fit(vs[i], Params(k, c)[i]) \in 0 .. 2

VARIABLES
  pc,       \* where the call in progress is
  call,     \* that call
  args,     \* its arguments, once lifted
  winner,   \* the resolver's pick, 0 when there is none
  left,     \* candidates not tried yet
  ran,      \* candidates whose body ran for this call
  outcome,  \* how the call ended
  object    \* the receiver: in the script's variable, in the call, or lost

vars == <<pc, call, args, winner, left, ran, outcome, object>>

TypeOK ==
  /\ pc \in {"idle", "lift", "resolve", "try", "done"}
  /\ IF pc = "idle" THEN call = NoCall /\ left = {} /\ ran = {}
     ELSE /\ call \in Calls
          /\ left \subseteq Candidates(call)
          /\ ran \subseteq Candidates(call)
          /\ winner \in {0} \cup Candidates(call)
  /\ pc \in {"resolve", "try"} => args \in Lifted(call) \ {Unliftable}
  /\ outcome \in {"none", "value", "callee", "refused", "unliftable"}
  /\ object \in {"home", "held", "lost"}

Init ==
  /\ pc = "idle"
  /\ call = NoCall
  /\ args = <<>>
  /\ winner = 0
  /\ left = {}
  /\ ran = {}
  /\ outcome = "none"
  /\ object = "home"

-----------------------------------------------------------------------------
(***************************************************************************)
(* resolve_dyn_candidate: the first candidate all of whose parameters fit  *)
(* exactly, else the first all of whose parameters fit at all.             *)
(***************************************************************************)
FitsAt(k, c, vs, minimum) ==
  /\ Len(Params(k, c)) = Len(vs)
  /\ \A i \in 1 .. Len(vs) : Fit(vs[i], Params(k, c)[i]) >= minimum

FirstOf(S) == CHOOSE c \in S : \A d \in S : c <= d

\* Mutant: one pass, in which a coercion counts as much as an exact fit.
RankedInOnePass(k, vs) ==
  LET fit == {c \in Candidates(k) : FitsAt(k, c, vs, 1)}
  IN  IF fit = {} THEN 0 ELSE FirstOf(fit)

Ranked(k, vs) ==
  LET exact == {c \in Candidates(k) : FitsAt(k, c, vs, 2)}
      fit   == {c \in Candidates(k) : FitsAt(k, c, vs, 1)}
  IN  IF exact # {} THEN FirstOf(exact)
      ELSE IF fit # {} THEN FirstOf(fit) ELSE 0

(***************************************************************************)
(* The attempt order, as a position for every candidate.  Lua and WIT move *)
(* the winner to the front; Rhai swaps it with the first candidate.        *)
(***************************************************************************)
\* Mutant: the winner changes places with the first in every runtime.
PositionSwapped(c) ==
  IF winner = 0 THEN c
  ELSE IF c = winner THEN 1 ELSE IF c = 1 THEN winner ELSE c

Position(c) ==
  IF winner = 0 THEN c
  ELSE IF call.runtime = "rhai"
       THEN IF c = winner THEN 1 ELSE IF c = 1 THEN winner ELSE c
       ELSE IF c = winner THEN 0 ELSE c

IsNext(c) == c \in left /\ \A d \in left : Position(c) <= Position(d)

-----------------------------------------------------------------------------
(* What becomes of a receiver that was taken from its variable. *)

\* Mutant: a dispatcher stores the object back with a result only.
StoredBackOnSuccess(result) ==
  object' = IF object # "held" THEN object
            ELSE IF result = "value" THEN "home" ELSE "lost"

StoredBack(result) ==
  object' = IF object # "held" THEN object
            ELSE IF result = "unliftable" THEN "lost"
            ELSE IF call.dyn \/ result = "value" THEN "home"
            ELSE "lost"

Return(result) ==
  /\ pc' = "done"
  /\ outcome' = result
  /\ StoredBack(result)

-----------------------------------------------------------------------------
\* The script calls.  A Rhai method on `&mut self` takes its object first.
Call(k) ==
  /\ pc = "idle"
  /\ k.receiver # "none" => object = "home"
  /\ pc' = "lift"
  /\ call' = k
  /\ object' = IF k.runtime = "rhai" /\ k.receiver = "mut" THEN "held" ELSE object
  /\ UNCHANGED <<args, winner, left, ran, outcome>>

\* lua_to_script, args_to_script, lift_args
\* Mutant: an argument that does not convert is passed on.
LiftArgsUnchecked ==
  /\ pc = "lift"
  /\ \E vs \in Lifted(call) : args' = vs
  /\ pc' = "resolve"
  /\ UNCHANGED <<call, winner, left, ran, outcome, object>>

LiftArgs ==
  /\ pc = "lift"
  /\ \E vs \in Lifted(call) \ {Unliftable} : args' = vs
  /\ pc' = "resolve"
  /\ UNCHANGED <<call, winner, left, ran, outcome, object>>

LiftFails ==
  /\ pc = "lift"
  /\ Unliftable \in Lifted(call)
  /\ Return("unliftable")
  /\ UNCHANGED <<call, args, winner, left, ran>>

\* The attempt order is made; a static function has nothing to rank.
Resolve ==
  /\ pc = "resolve"
  /\ pc' = "try"
  /\ winner' = IF call.dyn THEN Ranked(call, args) ELSE 0
  /\ left' = Candidates(call)
  /\ UNCHANGED <<call, args, ran, outcome, object>>

\* The next candidate's conversions fail: ScriptCallError::Convert.
Reject(c) ==
  /\ pc = "try"
  /\ IsNext(c)
  /\ ~Accepts(call, c, args)
  /\ left' = left \ {c}
  /\ UNCHANGED <<pc, call, args, winner, ran, outcome, object>>

\* Mutant: an error of the callee falls through like one of conversion.
RunFallingThrough(c, result) ==
  /\ pc = "try"
  /\ IsNext(c)
  /\ Accepts(call, c, args)
  /\ ran' = ran \cup {c}
  /\ left' = left \ {c}
  /\ IF result = "value" THEN Return(result) ELSE UNCHANGED <<pc, outcome, object>>
  /\ UNCHANGED <<call, args, winner>>

\* They succeed, the body runs: Ok, or ScriptCallError::Callee.
Run(c, result) ==
  /\ pc = "try"
  /\ IsNext(c)
  /\ Accepts(call, c, args)
  /\ result \in {"value", "callee"}
  /\ ran' = ran \cup {c}
  /\ left' = left \ {c}
  /\ Return(result)
  /\ UNCHANGED <<call, args, winner>>

\* No candidate is left: the conversion error, or the no-candidate error.
Refuse ==
  /\ pc = "try"
  /\ left = {}
  /\ Return("refused")
  /\ UNCHANGED <<call, args, winner, left, ran>>

\* The script goes on with the result; nothing of the call remains.
GoOn ==
  /\ pc = "done"
  /\ pc' = "idle"
  /\ call' = NoCall
  /\ args' = <<>>
  /\ winner' = 0
  /\ left' = {}
  /\ ran' = {}
  /\ outcome' = "none"
  /\ UNCHANGED object

Next ==
  \/ \E k \in Calls : Call(k)
  \/ LiftArgs
  \/ LiftFails
  \/ Resolve
  \/ \E c \in left : Reject(c)
  \/ \E c \in left, result \in {"value", "callee"} : Run(c, result)
  \/ Refuse
  \/ GoOn

Spec == Init /\ [][Next]_vars

-----------------------------------------------------------------------------
(***************************************************************************)
(* A finished call has run one body if any candidate accepts its           *)
(* arguments, and it is refused only when every candidate rejects them:    *)
(* the fall-through passes over none.  Before that no body has run, so a   *)
(* call whose arguments do not lift or convert has had no effect.          *)
(***************************************************************************)
Acceptors == {c \in Candidates(call) : Accepts(call, c, args)}

OneBodyRuns ==
  /\ outcome \in {"value", "callee"} => \E c \in Acceptors : ran = {c}
  /\ outcome = "refused" => Acceptors = {} /\ ran = {}
  /\ outcome \in {"none", "unliftable"} => ran = {}

(***************************************************************************)
(* A body runs instead of one whose candidate fits the arguments better    *)
(* only when the resolver's pick rejects them: the body of an exact fit is *)
(* not shadowed by a coercion that was declared before it.                 *)
(***************************************************************************)
BestFitRuns ==
  \A c \in ran : \A d \in Candidates(call), quality \in 1 .. 2 :
    /\ call.dyn
    /\ FitsAt(call, d, args, quality)
    /\ ~FitsAt(call, c, args, quality)
    => ~Accepts(call, winner, args)

(***************************************************************************)
(* Fall-through goes in declaration order: the body that runs instead of   *)
(* the pick's is the first declared that accepts the arguments.            *)
(***************************************************************************)
FallThroughOrder ==
  \A c \in ran : c # winner => \A d \in Acceptors : c <= d

\* That order where the code keeps it, in Lua and WIT; Rhai swaps instead.
DeclarationOrder == ran # {} /\ call.runtime # "rhai" => FallThroughOrder

(***************************************************************************)
(* A script keeps the object on which it called a method: when no call is  *)
(* under way the object is in its variable, whatever became of the calls.  *)
(***************************************************************************)
ReceiverKept == pc \in {"idle", "done"} => object = "home"

(***************************************************************************)
(* What the code keeps of that: a call that ends has put the object back.  *)
(* The calls that lose it are the mutating ones in Rhai whose arguments do *)
(* not lift and, without a dispatcher, those that fail in any way.         *)
(***************************************************************************)
LosesReceiver ==
  /\ call.receiver = "mut"
  /\ call.runtime = "rhai"
  /\ \/ outcome = "unliftable"
     \/ ~call.dyn /\ outcome \in {"callee", "refused"}

ReceiverComesBack ==
  [][pc # "done" /\ pc' = "done" /\ object # "lost"
     => object' = IF LosesReceiver' THEN "lost" ELSE "home"]_vars
=============================================================================
