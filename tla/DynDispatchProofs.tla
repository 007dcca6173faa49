-------------------------- MODULE DynDispatchProofs --------------------------
(***************************************************************************)
(* The dispatch loop, for any calls, types, values and conversions: which  *)
(* body runs, and what becomes of the receiver.  Then the number types the *)
(* bridge folds before the loop reads them, for every width and every      *)
(* resolution of the clock.                                                *)
(***************************************************************************)
EXTENDS DynDispatch, Numbers, WellFoundedInduction, TLAPS

-----------------------------------------------------------------------------
(* The resolver. *)

LEMMA FirstExists ==
  ASSUME NEW S \in SUBSET Nat, S # {}
  PROVE  FirstOf(S) \in S /\ \A d \in S : FirstOf(S) <= d
<1> DEFINE R == OpToRel(<, Nat)
<1>0. R = {ss \in Nat \X Nat : ss[1] < ss[2]}
  BY DEF OpToRel
<1>1. PICK c \in S : \A d \in S : ~ (<<d, c>> \in R)
  <2> HIDE DEF R
  <2> QED  BY NatLessThanWellFounded, WFMin DEF R
<1>2. \A d \in S : c <= d
  <2> HIDE DEF R
  <2> TAKE d \in S
  <2>1. <<d, c>> \notin R
    BY <1>1
  <2>2. <<d, c>> \in Nat \X Nat
    OBVIOUS
  <2>3. ~(d < c)
    BY <1>0, <2>1, <2>2
  <2> QED  BY <2>3
<1> QED  BY <1>2 DEF FirstOf

LEMMA ExactIsCoercible ==
  ASSUME NEW k \in Calls, NEW vs \in Lifted(k) \ {Unliftable},
         NEW c \in Candidates(k), FitsAt(k, c, vs, 2)
  PROVE  FitsAt(k, c, vs, 1)
<1>1. \A i \in 1 .. Len(vs) : Fit(vs[i], Params(k, c)[i]) \in 0 .. 2
  BY FitAssumption DEF FitsAt
<1> QED  BY <1>1 DEF FitsAt

LEMMA RankedPick ==
  ASSUME NEW k \in Calls, NEW vs \in Lifted(k) \ {Unliftable}
  PROVE  /\ Ranked(k, vs) \in {0} \cup Candidates(k)
         /\ \A d \in Candidates(k), quality \in 1 .. 2 :
              FitsAt(k, d, vs, quality)
              => /\ Ranked(k, vs) \in Candidates(k)
                 /\ FitsAt(k, Ranked(k, vs), vs, quality)
<1> DEFINE exact == {c \in Candidates(k) : FitsAt(k, c, vs, 2)}
           fit   == {c \in Candidates(k) : FitsAt(k, c, vs, 1)}
           pick  == Ranked(k, vs)
<1>0. Candidates(k) \subseteq Nat
  BY CallsAssumption DEF CallType
<1>1. pick = IF exact # {} THEN FirstOf(exact)
             ELSE IF fit # {} THEN FirstOf(fit) ELSE 0
  BY DEF Ranked
<1>2. /\ exact # {} => FirstOf(exact) \in exact
      /\ fit # {} => FirstOf(fit) \in fit
  <2>1. exact \in SUBSET Nat /\ fit \in SUBSET Nat
    BY <1>0
  <2> HIDE DEF exact, fit
  <2> QED  BY <2>1, FirstExists
<1>3. CASE exact # {}
  <2>1. pick \in Candidates(k) /\ FitsAt(k, pick, vs, 2)
    BY <1>1, <1>2, <1>3
  <2>2. FitsAt(k, pick, vs, 1)
    BY <2>1, ExactIsCoercible
  <2>3. \A quality \in 1 .. 2 : quality = 1 \/ quality = 2
    OBVIOUS
  <2> QED  BY <2>1, <2>2, <2>3
<1>4. CASE exact = {} /\ fit # {}
  <2>1. pick \in Candidates(k) /\ FitsAt(k, pick, vs, 1)
    BY <1>1, <1>2, <1>4
  <2>2. \A d \in Candidates(k) : ~FitsAt(k, d, vs, 2)
    BY <1>4
  <2>3. \A quality \in 1 .. 2 : quality = 1 \/ quality = 2
    OBVIOUS
  <2> QED  BY <2>1, <2>2, <2>3
<1>5. CASE exact = {} /\ fit = {}
  <2>1. pick = 0
    BY <1>1, <1>5
  <2>2. \A d \in Candidates(k) : ~FitsAt(k, d, vs, 1) /\ ~FitsAt(k, d, vs, 2)
    BY <1>5
  <2>3. \A quality \in 1 .. 2 : quality = 1 \/ quality = 2
    OBVIOUS
  <2> QED  BY <2>1, <2>2, <2>3
<1> QED  BY <1>3, <1>4, <1>5

-----------------------------------------------------------------------------
(***************************************************************************)
(* The inductive invariant.  While the attempts last, and at their end,    *)
(* every candidate that is neither left nor has run rejected the arguments *)
(* (Tried), and whatever stands before the body that ran is among those    *)
(* (Ordered).  A Rhai object is held exactly during a mutating call.       *)
(***************************************************************************)
Attempting == pc = "try" \/ (pc = "done" /\ outcome # "unliftable")

Staged ==
  /\ pc \in {"idle", "lift", "resolve"} => winner = 0 /\ left = {}
  /\ pc # "done" => ran = {} /\ outcome = "none"
  /\ pc = "done" => outcome \in {"value", "callee", "refused", "unliftable"}
  /\ outcome = "unliftable" => ran = {}

Tried ==
  Attempting =>
    /\ args \in Lifted(call) \ {Unliftable}
    /\ winner = IF call.dyn THEN Ranked(call, args) ELSE 0
    /\ \A d \in Candidates(call) \ (left \cup ran) : ~Accepts(call, d, args)

Ordered ==
  \A c \in ran : \A d \in Candidates(call) :
    d # c /\ Position(d) < Position(c) => ~Accepts(call, d, args)

Holding ==
  object = "held" <=> /\ pc \in {"lift", "resolve", "try"}
                      /\ call.runtime = "rhai"
                      /\ call.receiver = "mut"

IInv == TypeOK /\ Staged /\ OneBodyRuns /\ Tried /\ Ordered /\ Holding

-----------------------------------------------------------------------------
(* Where the attempt order puts candidates. *)

LEMMA PositionOrder ==
  ASSUME NEW k \in Calls, call = k, winner \in {0} \cup Candidates(k),
         NEW c \in Candidates(k), NEW d \in Candidates(k)
  PROVE  /\ Position(c) \in Nat /\ Position(d) \in Nat
         /\ Position(c) = Position(d) => c = d
         /\ c = winner /\ d # c => Position(c) < Position(d)
         /\ call.runtime # "rhai" /\ d # winner /\ c < d => Position(c) < Position(d)
<1>1. c \in Nat \ {0} /\ d \in Nat \ {0} /\ winner \in Nat
  BY CallsAssumption DEF CallType
<1> QED  BY <1>1 DEF Position

LEMMA InvInit == Init => IInv
BY DEF Init, IInv, TypeOK, Staged, OneBodyRuns, Tried, Ordered, Holding, Attempting

-----------------------------------------------------------------------------
(* Each action keeps the invariant. *)

LEMMA InvCall ==
  ASSUME IInv, NEW k \in Calls, Call(k)
  PROVE  IInv'
<1> USE DEF Call
<1>1. TypeOK'
  BY DEF IInv, TypeOK, Staged
<1>2. Staged' /\ OneBodyRuns' /\ Tried' /\ Ordered'
  BY DEF IInv, TypeOK, Staged, OneBodyRuns, Tried, Ordered, Attempting
<1>3. Holding'
  BY DEF IInv, TypeOK, Holding
<1> QED  BY <1>1, <1>2, <1>3 DEF IInv

LEMMA InvLift ==
  ASSUME IInv, LiftArgs \/ LiftFails
  PROVE  IInv'
<1> USE DEF LiftArgs, LiftFails, Return, StoredBack
<1>1. TypeOK'
  BY DEF IInv, TypeOK, Staged
<1>2. Staged' /\ OneBodyRuns' /\ Tried' /\ Ordered'
  BY DEF IInv, TypeOK, Staged, OneBodyRuns, Tried, Ordered, Attempting
<1>3. Holding'
  BY DEF IInv, TypeOK, Holding
<1> QED  BY <1>1, <1>2, <1>3 DEF IInv

LEMMA InvResolve ==
  ASSUME IInv, Resolve
  PROVE  IInv'
<1> USE DEF Resolve
<1>1. call \in Calls /\ args \in Lifted(call) \ {Unliftable} /\ ran = {}
  BY DEF IInv, TypeOK, Staged
<1>2. winner' \in {0} \cup Candidates(call)
  BY <1>1, RankedPick
<1>3. TypeOK'
  BY <1>1, <1>2 DEF IInv, TypeOK
<1>4. Staged' /\ OneBodyRuns' /\ Tried' /\ Ordered'
  BY <1>1 DEF IInv, TypeOK, Staged, OneBodyRuns, Tried, Ordered, Attempting
<1>5. Holding'
  BY DEF IInv, TypeOK, Holding
<1> QED  BY <1>3, <1>4, <1>5 DEF IInv

LEMMA InvReject ==
  ASSUME IInv, NEW c \in left, Reject(c)
  PROVE  IInv'
<1> USE DEF Reject
<1>1. TypeOK'
  BY DEF IInv, TypeOK
<1>2. Staged' /\ OneBodyRuns' /\ Ordered'
  BY DEF IInv, TypeOK, Staged, OneBodyRuns, Ordered
<1>3. Tried'
  BY DEF IInv, TypeOK, Tried, Attempting
<1>4. Holding'
  BY DEF IInv, TypeOK, Holding
<1> QED  BY <1>1, <1>2, <1>3, <1>4 DEF IInv

LEMMA InvRun ==
  ASSUME IInv, NEW c \in left, NEW result \in {"value", "callee"}, Run(c, result)
  PROVE  IInv'
<1> USE DEF Run, Return, StoredBack
<1>1. /\ call \in Calls /\ ran = {} /\ left \subseteq Candidates(call)
      /\ c \in Candidates(call) /\ winner \in {0} \cup Candidates(call)
  BY DEF IInv, TypeOK, Staged
<1>2. TypeOK'
  BY <1>1 DEF IInv, TypeOK
<1>3. Staged'
  BY DEF Staged
<1>4. OneBodyRuns'
  BY <1>1 DEF OneBodyRuns, Acceptors
<1>5. Tried'
  BY <1>1 DEF IInv, Tried, Attempting
<1>6. Ordered'
  <2> SUFFICES ASSUME NEW d \in Candidates(call), d # c, Position(d) < Position(c)
               PROVE  ~Accepts(call, d, args)
    BY <1>1 DEF Ordered, Position
  <2>1. Position(c) \in Nat /\ Position(d) \in Nat
    BY <1>1, PositionOrder
  <2>2. d \notin left
    BY <2>1 DEF IsNext
  <2> QED  BY <1>1, <2>2 DEF IInv, Tried, Attempting
<1>7. Holding'
  BY <1>1 DEF IInv, TypeOK, Holding
<1> QED  BY <1>2, <1>3, <1>4, <1>5, <1>6, <1>7 DEF IInv

LEMMA InvRefuse ==
  ASSUME IInv, Refuse
  PROVE  IInv'
<1> USE DEF Refuse, Return, StoredBack
<1>1. TypeOK' /\ Staged' /\ Ordered' /\ Tried'
  BY DEF IInv, TypeOK, Staged, Ordered, Tried, Attempting, Position
<1>2. OneBodyRuns'
  BY DEF IInv, TypeOK, Staged, Tried, OneBodyRuns, Acceptors, Attempting
<1>3. Holding'
  BY DEF IInv, TypeOK, Holding
<1> QED  BY <1>1, <1>2, <1>3 DEF IInv

LEMMA InvGoOn ==
  ASSUME IInv, GoOn
  PROVE  IInv'
<1> USE DEF GoOn
<1>1. TypeOK' /\ Staged' /\ OneBodyRuns' /\ Ordered' /\ Tried'
  BY DEF IInv, TypeOK, Staged, OneBodyRuns, Ordered, Tried, Attempting
<1>2. Holding'
  BY DEF IInv, TypeOK, Holding
<1> QED  BY <1>1, <1>2 DEF IInv

LEMMA InvStutter ==
  ASSUME IInv, UNCHANGED vars
  PROVE  IInv'
BY DEF IInv, vars, TypeOK, Staged, OneBodyRuns, Tried, Ordered, Holding,
       Attempting, Acceptors, Position

(* The inductive invariant holds in every reachable state. *)
THEOREM Invariance == Spec => []IInv
<1>1. IInv /\ [Next]_vars => IInv'
  BY InvCall, InvLift, InvResolve, InvReject, InvRun, InvRefuse, InvGoOn,
     InvStutter DEF Next
<1> QED  BY InvInit, <1>1, PTL DEF Spec

-----------------------------------------------------------------------------
(* Type correctness of the dispatch loop. *)
THEOREM TypeCorrect == Spec => []TypeOK
<1>1. IInv => TypeOK
  BY DEF IInv
<1> QED  BY Invariance, <1>1, PTL

(* For any candidates, conversions and runtime: a call runs the body of    *)
(* exactly one candidate that accepts its arguments, is refused only when  *)
(* all of them reject, and has run nothing when it is.                     *)
THEOREM OneBodyPerCall == Spec => []OneBodyRuns
<1>1. IInv => OneBodyRuns
  BY DEF IInv
<1> QED  BY Invariance, <1>1, PTL

(* For any ranking with three qualities: a body runs in place of a better  *)
(* fitting one only when the resolver's pick rejects the arguments.        *)
THEOREM BetterFitIsTried == Spec => []BestFitRuns
<1>1. IInv => BestFitRuns
  <2> SUFFICES ASSUME IInv, NEW c \in ran, NEW d \in Candidates(call),
                      NEW quality \in 1 .. 2,
                      call.dyn, FitsAt(call, d, args, quality),
                      ~FitsAt(call, c, args, quality)
               PROVE  ~Accepts(call, winner, args)
    BY DEF BestFitRuns
  <2>1. /\ pc = "done" /\ call \in Calls /\ c \in Candidates(call)
        /\ winner \in {0} \cup Candidates(call) /\ Attempting
    BY DEF IInv, TypeOK, Staged, Attempting
  <2>2. /\ args \in Lifted(call) \ {Unliftable}
        /\ winner = Ranked(call, args)
    BY <2>1 DEF IInv, Tried
  <2>3. winner \in Candidates(call) /\ FitsAt(call, winner, args, quality)
    BY <2>1, <2>2, RankedPick
  <2>4. winner # c
    BY <2>3
  <2>5. Position(winner) < Position(c)
    BY <2>1, <2>3, <2>4, PositionOrder
  <2> QED  BY <2>3, <2>4, <2>5 DEF IInv, Ordered
<1> QED  BY Invariance, <1>1, PTL

(* In Lua and WIT the fall-through goes in declaration order, for any      *)
(* number of candidates.                                                   *)
THEOREM FallsThroughAsDeclared == Spec => []DeclarationOrder
<1>1. IInv => DeclarationOrder
  <2> SUFFICES ASSUME IInv, call.runtime # "rhai",
                      NEW c \in ran, c # winner, NEW d \in Acceptors
               PROVE  c <= d
    BY DEF DeclarationOrder, FallThroughOrder
  <2>1. /\ call \in Calls /\ c \in Candidates(call) /\ d \in Candidates(call)
        /\ winner \in {0} \cup Candidates(call) /\ Accepts(call, d, args)
    BY DEF IInv, TypeOK, Staged, Acceptors
  <2>2. c \in Nat /\ d \in Nat
    BY <2>1, CallsAssumption DEF CallType
  <2>3. SUFFICES ASSUME d < c PROVE FALSE
    BY <2>2
  <2>4. d # c /\ ~(Position(d) < Position(c))
    BY <2>1, <2>2, <2>3 DEF IInv, Ordered
  <2>5. CASE d = winner
    BY <2>1, <2>4, <2>5, PositionOrder
  <2>6. CASE d # winner
    BY <2>1, <2>3, <2>4, <2>6, PositionOrder
  <2> QED  BY <2>5, <2>6
<1> QED  BY Invariance, <1>1, PTL

(* Every call that ends has put its receiver back, but for a mutating one  *)
(* in Rhai whose arguments do not lift or that fails without a dispatcher; *)
(* those have lost it, every time.                                         *)
THEOREM ReceiverReturns == Spec => ReceiverComesBack
<1> DEFINE Kept == pc # "done" /\ pc' = "done" /\ object # "lost"
                   => object' = IF LosesReceiver' THEN "lost" ELSE "home"
<1>1. IInv /\ [Next]_vars => [Kept]_vars
  <2> SUFFICES ASSUME IInv, Next, pc # "done", pc' = "done", object # "lost"
               PROVE  object' = IF LosesReceiver' THEN "lost" ELSE "home"
    OBVIOUS
  <2>1. \/ LiftFails
        \/ \E c \in left, result \in {"value", "callee"} : Run(c, result)
        \/ Refuse
    BY DEF Next, Call, LiftArgs, Resolve, Reject, GoOn
  <2>2. object \in {"home", "held"} /\ call' = call
    BY <2>1 DEF IInv, TypeOK, LiftFails, Run, Refuse
  <2>3. ASSUME NEW result \in {"unliftable", "value", "callee", "refused"},
               Return(result), pc \in {"lift", "try"}
        PROVE  object' = IF LosesReceiver' THEN "lost" ELSE "home"
    BY <2>2, <2>3 DEF IInv, Holding, Return, StoredBack, LosesReceiver
  <2> QED  BY <2>1, <2>3 DEF LiftFails, Run, Refuse
<1> QED  BY Invariance, <1>1, PTL DEF Spec, ReceiverComesBack

-----------------------------------------------------------------------------
(* The folded number types come back as they left. *)

(* A u64 (or usize) survives the bridge: the two casts of bridge.rs undo   *)
(* each other, and what crosses is an i64 whatever the number was.         *)
THEOREM BitPatternRoundTrip ==
  \A n \in U64 : AsI64(n) \in I64 /\ AsU64(AsI64(n)) = n
BY NumbersAssumption DEF U64, I64, AsI64, AsU64

(* The cast to i64 is a bijection: two u64s never share a pattern, so what *)
(* a script hands over names one number, and there is no i64 that is not   *)
(* the pattern of a u64, so no I64 is out of range for a u64 parameter.    *)
THEOREM BitPatternIsBijective ==
  /\ \A m, n \in U64 : AsI64(m) = AsI64(n) => m = n
  /\ \A k \in I64 : \E n \in U64 : AsI64(n) = k
<1>1. \A m, n \in U64 : AsI64(m) = AsI64(n) => m = n
  BY BitPatternRoundTrip
<1>2. ASSUME NEW k \in I64 PROVE \E n \in U64 : AsI64(n) = k
  <2>1. AsU64(k) \in U64 /\ AsI64(AsU64(k)) = k
    BY NumbersAssumption DEF U64, I64, AsI64, AsU64
  <2> QED BY <2>1
<1> QED BY <1>1, <1>2

(* A SystemTime survives: time.rs splits the instant around the epoch one  *)
(* way and joins it another, and they agree for every instant on either    *)
(* side, the one whose seconds overflow included if arithmetic wraps.      *)
THEOREM InstantRoundTrip ==
  ASSUME NEW t \in Instants
  PROVE  LET p == PairOfInstant(t)
         IN  p[1] \in I64 /\ NanosInRange(p[2]) /\ InstantOfPair(p[1], p[2]) = t
<1>0. /\ t.sec \in I64 /\ t.nsec \in 0 .. Nanos - 1
      /\ t = [sec |-> t.sec, nsec |-> t.nsec]
  BY DEF Instants
<1>1. CASE t.sec >= 0
  <2>1. PairOfInstant(t) = <<t.sec, t.nsec>>
    BY <1>0, <1>1, NumbersAssumption
    DEF PairOfInstant, SinceEpoch, AsI64, I64
  <2> QED  BY <1>0, <1>1, <2>1, NumbersAssumption
           DEF InstantOfPair, NanosInRange
<1>2. CASE t.sec < 0 /\ t.nsec = 0
  <2>1. PairOfInstant(t) = <<t.sec, 0>>
    BY <1>0, <1>2, NumbersAssumption
    DEF PairOfInstant, SinceEpoch, AsI64, WrappingNeg, I64
  <2> QED  BY <1>0, <1>2, <2>1, NumbersAssumption
           DEF InstantOfPair, NanosInRange, BeforeEpoch, I64
<1>3. CASE t.sec < 0 /\ t.nsec # 0
  <2>1. /\ SinceEpoch(t).sec = -t.sec - 1
        /\ SinceEpoch(t).nsec = Nanos - t.nsec
    BY <1>0, <1>3, NumbersAssumption DEF SinceEpoch, I64
  <2>2. PairOfInstant(t) = <<t.sec, t.nsec>>
    BY <1>0, <1>3, <2>1, NumbersAssumption
    DEF PairOfInstant, AsI64, WrappingNeg, I64
  <2> QED  BY <1>0, <1>3, <2>2, NumbersAssumption
           DEF InstantOfPair, NanosInRange, BeforeEpoch, I64
<1> QED  BY <1>0, <1>1, <1>2, <1>3 DEF I64

(* The negation in From<SystemTime> overflows for exactly one instant, the *)
(* earliest one: a debug build panics there and nowhere else.              *)
THEOREM OnlyEarliestOverflows ==
  ASSUME NEW t \in Instants
  PROVE  PairOverflows(t) <=> t.sec = -Half /\ t.nsec = 0
BY NumbersAssumption
DEF Instants, I64, PairOverflows, NegOverflows, SinceEpoch, AsI64
=============================================================================
