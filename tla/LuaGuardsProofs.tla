--------------------------- MODULE LuaGuardsProofs ---------------------------
(***************************************************************************)
(* Proofs about LuaGuards, for any number of objects, calls and writes:    *)
(* nobody writes an object that a method is using, and no mutation is      *)
(* lost.  Liveness (GuardIsReleased) is checked by TLC only.               *)
(***************************************************************************)
EXTENDS LuaGuards, SequenceTheorems, TLAPS

\* The kind of a guard is the one its callback asked for.
GuardKinds ==
  \A c \in Calls : guard[c] # "none" =>
    /\ guard[c] = "mut" <=> call[c].op \in Mutating
    /\ call[c].phase \in {"converting", "running", "suspended", "abandoned"}

\* A mutable guard excludes every other guard of its object.
Exclusive ==
  \A c, d \in Calls :
    c # d /\ guard[c] = "mut" /\ guard[d] # "none" => call[c].obj # call[d].obj

IInv ==
  /\ TypeOK
  /\ GuardsEndWithCalls
  /\ GuardKinds
  /\ Exclusive
  /\ StableUnderGuard
  /\ NoLostUpdate

-----------------------------------------------------------------------------
\* A call record that is not Idle has every field.
LEMMA ActiveRecord ==
  ASSUME TypeOK, NEW c \in Calls, Active(c)
  PROVE  /\ call[c] \in Record(Phases \ {"idle"}, Ops)
         /\ call[c].obj \in Objects
         /\ call[c].op \in Ops
         /\ call[c].seen \in 0..MaxWrites
         /\ call[c].phase \in Phases \ {"idle"}
BY DEF TypeOK, Active, Idle, Record

\* What pushing a call that is not on the stack does.
LEMMA Pushed ==
  ASSUME NEW c \in Calls, stack \in Seq(Calls), stack' = Append(stack, c), ~OnStack(c),
         \A i, j \in 1..Len(stack) : stack[i] = stack[j] => i = j
  PROVE  /\ stack' \in Seq(Calls)
         /\ \A d \in Calls : OnStack(d)' <=> d = c \/ OnStack(d)
         /\ \A i, j \in 1..Len(stack') : stack'[i] = stack'[j] => i = j
<1>1. /\ stack' \in Seq(Calls)
      /\ Len(stack') = Len(stack) + 1
      /\ \A i \in 1..Len(stack) : stack'[i] = stack[i]
      /\ stack'[Len(stack) + 1] = c
      /\ Len(stack) \in Nat
  OBVIOUS
<1>2. \A d \in Calls : OnStack(d)' <=> d = c \/ OnStack(d)
  BY <1>1 DEF OnStack
<1>3. \A i, j \in 1..Len(stack') : stack'[i] = stack'[j] => i = j
  BY <1>1 DEF OnStack
<1> QED BY <1>1, <1>2, <1>3

\* What popping the innermost call does.
LEMMA Popped ==
  ASSUME NEW c \in Calls, stack \in Seq(Calls), Top(c), stack' = Front(stack),
         \A i, j \in 1..Len(stack) : stack[i] = stack[j] => i = j
  PROVE  /\ stack' \in Seq(Calls)
         /\ OnStack(c)
         /\ \A d \in Calls : OnStack(d)' <=> d # c /\ OnStack(d)
         /\ \A i, j \in 1..Len(stack') : stack'[i] = stack'[j] => i = j
<1>1. /\ Len(stack) \in Nat \ {0}
      /\ stack[Len(stack)] = c
  BY DEF Top, Last
<1>2. /\ stack' \in Seq(Calls)
      /\ Len(stack') = Len(stack) - 1
      /\ \A i \in 1..Len(stack') : stack'[i] = stack[i]
  <2> DEFINE n == Len(stack) - 1
  <2>1. n \in Nat /\ stack' = SubSeq(stack, 1, n)
    BY <1>1 DEF Front
  <2>2. \A i \in 1..n : stack[i] \in Calls
    BY <1>1
  <2> HIDE DEF n
  <2>3. /\ SubSeq(stack, 1, n) \in Seq(Calls)
        /\ Len(SubSeq(stack, 1, n)) = IF 1 <= n THEN n - 1 + 1 ELSE 0
        /\ \A i \in 1..(n - 1 + 1) : SubSeq(stack, 1, n)[i] = stack[1 + i - 1]
    BY <2>1, <2>2, SubSeqProperties
  <2>4. Len(stack') = n
    BY <2>1, <2>3
  <2>5. \A i \in 1..n : stack'[i] = stack[i]
    BY <2>1, <2>3
  <2> QED BY <2>1, <2>3, <2>4, <2>5 DEF n
<1>3. OnStack(c)
  BY <1>1 DEF OnStack
<1>4. \A d \in Calls : OnStack(d)' <=> d # c /\ OnStack(d)
  BY <1>1, <1>2 DEF OnStack
<1>5. \A i, j \in 1..Len(stack') : stack'[i] = stack'[j] => i = j
  BY <1>1, <1>2
<1> QED BY <1>2, <1>3, <1>4, <1>5

-----------------------------------------------------------------------------
\* No call is under way: every conjunct holds of the initial states.
LEMMA InitIInv == Init => IInv
BY WritesAssumption
   DEF Init, IInv, TypeOK, GuardsEndWithCalls, NeedsGuard, InBody, OnStack, GuardKinds,
       Exclusive, StableUnderGuard, NoLostUpdate, Idle

\* A shared borrow finds no mutable guard on the object.
LEMMA BeginSharedStep ==
  ASSUME IInv, NEW c \in Calls, NEW o \in Objects, NEW op \in Ops, BeginShared(c, op, o)
  PROVE  IInv'
<1> USE DEF IInv, BeginShared, Under, Idle, Active
<1>1. /\ stack' \in Seq(Calls)
      /\ \A d \in Calls : OnStack(d)' <=> d = c \/ OnStack(d)
      /\ \A i, j \in 1..Len(stack') : stack'[i] = stack'[j] => i = j
  BY Pushed DEF GuardsEndWithCalls, TypeOK
<1>2. TypeOK'
  BY <1>1, WritesAssumption, ActiveRecord DEF TypeOK, Record, Phases, Ops, Shared, Mutable, Mutating
<1>3. GuardsEndWithCalls'
  BY <1>1 DEF GuardsEndWithCalls, NeedsGuard, InBody, TypeOK, Shared
<1>4. GuardKinds'
  BY DEF GuardKinds, Mutating, Mutable, Shared, TypeOK
<1>5. Exclusive'
  <2>1. \A d \in Calls : guard[d] # "none" /\ call[d].obj = o => d \in Holders(o)
    BY DEF GuardKinds, Holders
  <2>2. \A d \in Calls : d # c /\ guard[d] # "none" /\ call[d].obj = o => guard[d] = "shared"
    BY <2>1 DEF CanBorrow
  <2> QED BY <2>2 DEF Exclusive, TypeOK
<1>6. StableUnderGuard'
  BY DEF StableUnderGuard, InBody, TypeOK
<1>7. NoLostUpdate'
  BY DEF NoLostUpdate, TypeOK
<1> QED BY <1>2, <1>3, <1>4, <1>5, <1>6, <1>7

\* A mutable borrow finds no guard on the object at all.
LEMMA BeginMutStep ==
  ASSUME IInv, NEW c \in Calls, NEW o \in Objects, NEW op \in Ops, BeginMut(c, op, o)
  PROVE  IInv'
<1> USE DEF IInv, BeginMut, Under, Idle, Active
<1>1. /\ stack' \in Seq(Calls)
      /\ \A d \in Calls : OnStack(d)' <=> d = c \/ OnStack(d)
      /\ \A i, j \in 1..Len(stack') : stack'[i] = stack'[j] => i = j
  BY Pushed DEF GuardsEndWithCalls, TypeOK
<1>2. TypeOK'
  BY <1>1, WritesAssumption, ActiveRecord DEF TypeOK, Record, Phases, Ops, Shared, Mutable, Mutating
<1>3. GuardsEndWithCalls'
  BY <1>1 DEF GuardsEndWithCalls, NeedsGuard, InBody, TypeOK, Mutable
<1>4. GuardKinds'
  BY DEF GuardKinds, Mutating, Mutable, Shared, TypeOK
<1>5. Exclusive'
  <2>1. \A d \in Calls : guard[d] # "none" /\ call[d].obj = o => d \in Holders(o)
    BY DEF GuardKinds, Holders
  <2>2. \A d \in Calls : d # c /\ guard[d] # "none" /\ call[d].obj = o => FALSE
    BY <2>1 DEF CanBorrowMut
  <2> QED BY <2>2 DEF Exclusive, TypeOK
<1>6. StableUnderGuard'
  BY DEF StableUnderGuard, InBody, TypeOK
<1>7. NoLostUpdate'
  BY DEF NoLostUpdate, TypeOK
<1> QED BY <1>2, <1>3, <1>4, <1>5, <1>6, <1>7

\* A property setter starts without a guard.
LEMMA BeginPropertySetStep ==
  ASSUME IInv, NEW c \in Calls, NEW o \in Objects, BeginPropertySet(c, o)
  PROVE  IInv'
<1> USE DEF IInv, BeginPropertySet, Under, Idle, Active
<1>1. /\ stack' \in Seq(Calls)
      /\ \A d \in Calls : OnStack(d)' <=> d = c \/ OnStack(d)
      /\ \A i, j \in 1..Len(stack') : stack'[i] = stack'[j] => i = j
  BY Pushed DEF GuardsEndWithCalls, TypeOK
<1>2. TypeOK'
  BY <1>1, WritesAssumption, ActiveRecord DEF TypeOK, Record, Phases, Ops, Shared, Mutable, Mutating
<1>3. GuardsEndWithCalls'
  BY <1>1 DEF GuardsEndWithCalls, NeedsGuard, InBody, TypeOK
<1>4. GuardKinds'
  BY DEF GuardKinds, Mutating, Mutable, Shared, TypeOK
<1>5. Exclusive'
  BY DEF Exclusive, GuardKinds, TypeOK, CanBorrow, CanBorrowMut, Holders
<1>6. StableUnderGuard'
  BY DEF StableUnderGuard, InBody, TypeOK
<1>7. NoLostUpdate'
  BY DEF NoLostUpdate, TypeOK
<1> QED BY <1>2, <1>3, <1>4, <1>5, <1>6, <1>7

\* An iteration leaves no guard behind.
LEMMA BeginIterationStep ==
  ASSUME IInv, NEW c \in Calls, NEW o \in Objects, BeginIteration(c, o)
  PROVE  IInv'
<1> USE DEF IInv, BeginIteration, Under, Idle, Active
<1>1. /\ stack' \in Seq(Calls)
      /\ \A d \in Calls : OnStack(d)' <=> OnStack(d)
      /\ \A i, j \in 1..Len(stack') : stack'[i] = stack'[j] => i = j
  BY DEF GuardsEndWithCalls, TypeOK, OnStack
<1>2. TypeOK'
  BY <1>1, WritesAssumption, ActiveRecord DEF TypeOK, Record, Phases, Ops, Shared, Mutable, Mutating
<1>3. GuardsEndWithCalls'
  BY <1>1 DEF GuardsEndWithCalls, NeedsGuard, InBody, TypeOK
<1>4. GuardKinds'
  BY DEF GuardKinds, Mutating, Mutable, Shared, TypeOK
<1>5. Exclusive'
  BY DEF Exclusive, GuardKinds, TypeOK, CanBorrow, CanBorrowMut, Holders
<1>6. StableUnderGuard'
  BY DEF StableUnderGuard, InBody, TypeOK
<1>7. NoLostUpdate'
  BY DEF NoLostUpdate, TypeOK
<1> QED BY <1>2, <1>3, <1>4, <1>5, <1>6, <1>7

\* An iteration held nothing.
LEMMA EndIterationStep ==
  ASSUME IInv, NEW c \in Calls, EndIteration(c)
  PROVE  IInv'
<1> USE DEF IInv, EndIteration, Under, Idle, Active
<1>1. /\ stack' \in Seq(Calls)
      /\ \A d \in Calls : OnStack(d)' <=> OnStack(d)
      /\ \A i, j \in 1..Len(stack') : stack'[i] = stack'[j] => i = j
  BY DEF GuardsEndWithCalls, TypeOK, OnStack
<1>2. TypeOK'
  BY <1>1, WritesAssumption, ActiveRecord DEF TypeOK, Record, Phases, Ops, Shared, Mutable, Mutating
<1>3. GuardsEndWithCalls'
  BY <1>1 DEF GuardsEndWithCalls, NeedsGuard, InBody, TypeOK
<1>4. GuardKinds'
  BY DEF GuardKinds, Mutating, Mutable, Shared, TypeOK
<1>5. Exclusive'
  BY DEF Exclusive, GuardKinds, TypeOK, CanBorrow, CanBorrowMut, Holders
<1>6. StableUnderGuard'
  BY DEF StableUnderGuard, InBody, TypeOK
<1>7. NoLostUpdate'
  BY DEF NoLostUpdate, TypeOK
<1> QED BY <1>2, <1>3, <1>4, <1>5, <1>6, <1>7

\* The body reads the object under its guard.
LEMMA ConvertedStep ==
  ASSUME IInv, NEW c \in Calls, Converted(c)
  PROVE  IInv'
<1> USE DEF IInv, Converted, Under, Idle, Active
<1>1. /\ stack' \in Seq(Calls)
      /\ \A d \in Calls : OnStack(d)' <=> OnStack(d)
      /\ \A i, j \in 1..Len(stack') : stack'[i] = stack'[j] => i = j
  BY DEF GuardsEndWithCalls, TypeOK, OnStack
<1>2. TypeOK'
  BY <1>1, WritesAssumption, ActiveRecord DEF TypeOK, Record, Phases, Ops, Shared, Mutable, Mutating
<1>3. GuardsEndWithCalls'
  BY <1>1 DEF GuardsEndWithCalls, NeedsGuard, InBody, TypeOK
<1>4. GuardKinds'
  BY DEF GuardKinds, Mutating, Mutable, Shared, TypeOK
<1>5. Exclusive'
  <2>1. CASE call[c].op = "property_set"
    <3>1. \A d \in Calls : d # c /\ guard[d] # "none" => call[d].obj # call[c].obj
      BY <2>1 DEF GuardKinds, CanBorrowMut, Holders
    <3> QED BY <2>1, <3>1 DEF Exclusive, TypeOK
  <2>2. CASE call[c].op # "property_set"
    BY <2>2 DEF Exclusive, TypeOK
  <2> QED BY <2>1, <2>2
<1>6. StableUnderGuard'
  BY DEF StableUnderGuard, InBody, TypeOK
<1>7. NoLostUpdate'
  BY DEF NoLostUpdate, TypeOK
<1> QED BY <1>2, <1>3, <1>4, <1>5, <1>6, <1>7

\* A failed conversion gives the guard back.
LEMMA ConversionFailsStep ==
  ASSUME IInv, NEW c \in Calls, ConversionFails(c)
  PROVE  IInv'
<1> USE DEF IInv, ConversionFails, Under, Idle, Active, Leave
<1>1. /\ stack' \in Seq(Calls)
      /\ OnStack(c)
      /\ \A d \in Calls : OnStack(d)' <=> d # c /\ OnStack(d)
      /\ \A i, j \in 1..Len(stack') : stack'[i] = stack'[j] => i = j
  BY Popped DEF GuardsEndWithCalls, TypeOK
<1>2. TypeOK'
  BY <1>1, WritesAssumption, ActiveRecord DEF TypeOK, Record, Phases, Ops, Shared, Mutable, Mutating
<1>3. GuardsEndWithCalls'
  BY <1>1 DEF GuardsEndWithCalls, NeedsGuard, InBody, TypeOK
<1>4. GuardKinds'
  BY DEF GuardKinds, Mutating, Mutable, Shared, TypeOK
<1>5. Exclusive'
  BY DEF Exclusive, GuardKinds, TypeOK, CanBorrow, CanBorrowMut, Holders
<1>6. StableUnderGuard'
  BY DEF StableUnderGuard, InBody, TypeOK
<1>7. NoLostUpdate'
  BY DEF NoLostUpdate, TypeOK
<1> QED BY <1>2, <1>3, <1>4, <1>5, <1>6, <1>7

\* A suspended call keeps its guard.
LEMMA AwaitStep ==
  ASSUME IInv, NEW c \in Calls, Await(c)
  PROVE  IInv'
<1> USE DEF IInv, Await, Under, Idle, Active, Goes
<1>1. /\ stack' \in Seq(Calls)
      /\ OnStack(c)
      /\ \A d \in Calls : OnStack(d)' <=> d # c /\ OnStack(d)
      /\ \A i, j \in 1..Len(stack') : stack'[i] = stack'[j] => i = j
  BY Popped DEF GuardsEndWithCalls, TypeOK
<1>2. TypeOK'
  BY <1>1, WritesAssumption, ActiveRecord DEF TypeOK, Record, Phases, Ops, Shared, Mutable, Mutating
<1>3. GuardsEndWithCalls'
  BY <1>1 DEF GuardsEndWithCalls, NeedsGuard, InBody, TypeOK
<1>4. GuardKinds'
  BY DEF GuardKinds, Mutating, Mutable, Shared, TypeOK
<1>5. Exclusive'
  BY DEF Exclusive, GuardKinds, TypeOK, CanBorrow, CanBorrowMut, Holders
<1>6. StableUnderGuard'
  BY DEF StableUnderGuard, InBody, TypeOK
<1>7. NoLostUpdate'
  BY DEF NoLostUpdate, TypeOK
<1> QED BY <1>2, <1>3, <1>4, <1>5, <1>6, <1>7

\* A resumed call finds its guard where it left it.
LEMMA ResumeStep ==
  ASSUME IInv, NEW c \in Calls, Resume(c)
  PROVE  IInv'
<1> USE DEF IInv, Resume, Under, Idle, Active, Goes
<1>1. /\ stack' \in Seq(Calls)
      /\ \A d \in Calls : OnStack(d)' <=> d = c \/ OnStack(d)
      /\ \A i, j \in 1..Len(stack') : stack'[i] = stack'[j] => i = j
  BY Pushed DEF GuardsEndWithCalls, TypeOK
<1>2. TypeOK'
  BY <1>1, WritesAssumption, ActiveRecord DEF TypeOK, Record, Phases, Ops, Shared, Mutable, Mutating
<1>3. GuardsEndWithCalls'
  BY <1>1 DEF GuardsEndWithCalls, NeedsGuard, InBody, TypeOK
<1>4. GuardKinds'
  BY DEF GuardKinds, Mutating, Mutable, Shared, TypeOK
<1>5. Exclusive'
  BY DEF Exclusive, GuardKinds, TypeOK, CanBorrow, CanBorrowMut, Holders
<1>6. StableUnderGuard'
  BY DEF StableUnderGuard, InBody, TypeOK
<1>7. NoLostUpdate'
  BY DEF NoLostUpdate, TypeOK
<1> QED BY <1>2, <1>3, <1>4, <1>5, <1>6, <1>7

\* A failing body gives the guard back and has written nothing.
LEMMA RaiseStep ==
  ASSUME IInv, NEW c \in Calls, Raise(c)
  PROVE  IInv'
<1> USE DEF IInv, Raise, Under, Idle, Active, Leave
<1>1. /\ stack' \in Seq(Calls)
      /\ OnStack(c)
      /\ \A d \in Calls : OnStack(d)' <=> d # c /\ OnStack(d)
      /\ \A i, j \in 1..Len(stack') : stack'[i] = stack'[j] => i = j
  BY Popped DEF GuardsEndWithCalls, TypeOK
<1>2. TypeOK'
  BY <1>1, WritesAssumption, ActiveRecord DEF TypeOK, Record, Phases, Ops, Shared, Mutable, Mutating
<1>3. GuardsEndWithCalls'
  BY <1>1 DEF GuardsEndWithCalls, NeedsGuard, InBody, TypeOK
<1>4. GuardKinds'
  BY DEF GuardKinds, Mutating, Mutable, Shared, TypeOK
<1>5. Exclusive'
  BY DEF Exclusive, GuardKinds, TypeOK, CanBorrow, CanBorrowMut, Holders
<1>6. StableUnderGuard'
  BY DEF StableUnderGuard, InBody, TypeOK
<1>7. NoLostUpdate'
  BY DEF NoLostUpdate, TypeOK
<1> QED BY <1>2, <1>3, <1>4, <1>5, <1>6, <1>7

\* An abandoned future still holds its guard.
LEMMA AbandonStep ==
  ASSUME IInv, NEW c \in Calls, Abandon(c)
  PROVE  IInv'
<1> USE DEF IInv, Abandon, Under, Idle, Active, Goes
<1>1. /\ stack' \in Seq(Calls)
      /\ \A d \in Calls : OnStack(d)' <=> OnStack(d)
      /\ \A i, j \in 1..Len(stack') : stack'[i] = stack'[j] => i = j
  BY DEF GuardsEndWithCalls, TypeOK, OnStack
<1>2. TypeOK'
  BY <1>1, WritesAssumption, ActiveRecord DEF TypeOK, Record, Phases, Ops, Shared, Mutable, Mutating
<1>3. GuardsEndWithCalls'
  BY <1>1 DEF GuardsEndWithCalls, NeedsGuard, InBody, TypeOK
<1>4. GuardKinds'
  BY DEF GuardKinds, Mutating, Mutable, Shared, TypeOK
<1>5. Exclusive'
  BY DEF Exclusive, GuardKinds, TypeOK, CanBorrow, CanBorrowMut, Holders
<1>6. StableUnderGuard'
  BY DEF StableUnderGuard, InBody, TypeOK
<1>7. NoLostUpdate'
  BY DEF NoLostUpdate, TypeOK
<1> QED BY <1>2, <1>3, <1>4, <1>5, <1>6, <1>7

\* Collecting the future drops the guard.
LEMMA CollectStep ==
  ASSUME IInv, NEW c \in Calls, Collect(c)
  PROVE  IInv'
<1> USE DEF IInv, Collect, Under, Idle, Active, Leave
<1>1. /\ stack' \in Seq(Calls)
      /\ \A d \in Calls : OnStack(d)' <=> OnStack(d)
      /\ \A i, j \in 1..Len(stack') : stack'[i] = stack'[j] => i = j
  BY DEF GuardsEndWithCalls, TypeOK, OnStack
<1>2. TypeOK'
  BY <1>1, WritesAssumption, ActiveRecord DEF TypeOK, Record, Phases, Ops, Shared, Mutable, Mutating
<1>3. GuardsEndWithCalls'
  BY <1>1 DEF GuardsEndWithCalls, NeedsGuard, InBody, TypeOK
<1>4. GuardKinds'
  BY DEF GuardKinds, Mutating, Mutable, Shared, TypeOK
<1>5. Exclusive'
  BY DEF Exclusive, GuardKinds, TypeOK, CanBorrow, CanBorrowMut, Holders
<1>6. StableUnderGuard'
  BY DEF StableUnderGuard, InBody, TypeOK
<1>7. NoLostUpdate'
  BY DEF NoLostUpdate, TypeOK
<1> QED BY <1>2, <1>3, <1>4, <1>5, <1>6, <1>7

\* The writer is the only holder, so nobody's view of the object goes stale,
\* and it adds its one to what the object holds now.
LEMMA ReturnStep ==
  ASSUME IInv, NEW c \in Calls, Return(c)
  PROVE  IInv'
<1> USE DEF IInv, Idle, Active
<1> DEFINE o == call[c].obj
<1>1. /\ stack' \in Seq(Calls)
      /\ OnStack(c)
      /\ \A d \in Calls : OnStack(d)' <=> d # c /\ OnStack(d)
      /\ \A i, j \in 1..Len(stack') : stack'[i] = stack'[j] => i = j
  BY Popped DEF GuardsEndWithCalls, TypeOK, Return
<1>2. /\ call' = [call EXCEPT ![c] = Idle]
      /\ guard' = [guard EXCEPT ![c] = "none"]
  BY DEF Return, Leave
<1>3. /\ call[c].phase = "running"
      /\ o \in Objects
      /\ call[c].seen = value[o]
      /\ guard[c] # "none"
  BY ActiveRecord DEF Return, StableUnderGuard, InBody, GuardsEndWithCalls, NeedsGuard
<1>4. GuardsEndWithCalls'
  BY <1>1, <1>2 DEF GuardsEndWithCalls, NeedsGuard, InBody, TypeOK
<1>5. GuardKinds'
  BY <1>2 DEF GuardKinds, TypeOK
<1>6. Exclusive'
  BY <1>2 DEF Exclusive, TypeOK
<1>7. CASE call[c].op \in Mutating
  <2>1. /\ writes[o] < MaxWrites
        /\ value' = [value EXCEPT ![o] = value[o] + 1]
        /\ writes' = [writes EXCEPT ![o] = writes[o] + 1]
    BY <1>3, <1>7 DEF Return
  <2>2. value[o] = writes[o] /\ writes[o] + 1 \in 0..MaxWrites
    BY <1>3, <2>1, WritesAssumption DEF NoLostUpdate, TypeOK
  <2>3. TypeOK'
    BY <1>1, <1>2, <2>1, <2>2 DEF TypeOK
  <2>4. NoLostUpdate'
    BY <2>1, <2>2 DEF NoLostUpdate, TypeOK
  <2>5. \A d \in Calls : d # c /\ InBody(d) => call[d].obj # o
    BY <1>3, <1>7 DEF GuardKinds, Exclusive, GuardsEndWithCalls, NeedsGuard
  <2>6. StableUnderGuard'
    BY <1>2, <2>1, <2>5, ActiveRecord DEF StableUnderGuard, InBody, TypeOK
  <2> QED BY <1>4, <1>5, <1>6, <2>3, <2>4, <2>6
<1>8. CASE call[c].op \notin Mutating
  <2>1. value' = value /\ writes' = writes
    BY <1>8 DEF Return
  <2>2. TypeOK'
    BY <1>1, <1>2, <2>1 DEF TypeOK
  <2>3. NoLostUpdate'
    BY <2>1 DEF NoLostUpdate
  <2>4. StableUnderGuard'
    BY <1>2, <2>1 DEF StableUnderGuard, InBody, TypeOK
  <2> QED BY <1>4, <1>5, <1>6, <2>2, <2>3, <2>4
<1> QED BY <1>7, <1>8

-----------------------------------------------------------------------------
\* A step that changes nothing.
LEMMA StutterStep == IInv /\ UNCHANGED vars => IInv'
BY DEF IInv, vars, TypeOK, GuardsEndWithCalls, NeedsGuard, InBody, OnStack, GuardKinds,
       Exclusive, StableUnderGuard, NoLostUpdate, Record

\* IInv is an invariant: one step per action.
THEOREM IInvHolds == Spec => []IInv
<1>1. IInv /\ [Next]_vars => IInv'
  <2> SUFFICES ASSUME IInv, [Next]_vars PROVE IInv'
    OBVIOUS
  <2>1. CASE UNCHANGED vars
    BY <2>1, StutterStep
  <2>2. CASE Next
    <3>1. PICK c \in Calls : Step(c)
      BY <2>2 DEF Next
    <3>2. CASE \E o \in Objects : \E op \in Ops : BeginShared(c, op, o) \/ BeginMut(c, op, o)
      BY <3>2, BeginSharedStep, BeginMutStep
    <3>3. CASE \E o \in Objects : BeginPropertySet(c, o) \/ BeginIteration(c, o)
      BY <3>3, BeginPropertySetStep, BeginIterationStep
    <3>4. CASE EndIteration(c)
      BY <3>4, EndIterationStep
    <3>5. CASE Converted(c)
      BY <3>5, ConvertedStep
    <3>6. CASE ConversionFails(c)
      BY <3>6, ConversionFailsStep
    <3>7. CASE Await(c)
      BY <3>7, AwaitStep
    <3>8. CASE Resume(c)
      BY <3>8, ResumeStep
    <3>9. CASE Return(c)
      BY <3>9, ReturnStep
    <3>10. CASE Raise(c)
      BY <3>10, RaiseStep
    <3>11. CASE Abandon(c)
      BY <3>11, AbandonStep
    <3>12. CASE Collect(c)
      BY <3>12, CollectStep
    <3> QED
      BY <3>1, <3>2, <3>3, <3>4, <3>5, <3>6, <3>7, <3>8, <3>9, <3>10, <3>11, <3>12 DEF Step
  <2> QED BY <2>1, <2>2
<1> QED BY <1>1, InitIInv, PTL DEF Spec

\* The variables keep their shape.
THEOREM Types == Spec => []TypeOK
BY IInvHolds, PTL DEF IInv

\* No method's view of its object goes stale while it awaits or calls back.
THEOREM Stable == Spec => []StableUnderGuard
BY IInvHolds, PTL DEF IInv

\* No completed mutation is lost.
THEOREM Updates == Spec => []NoLostUpdate
BY IInvHolds, PTL DEF IInv

\* Guards belong to calls under way, and the stack to the synchronous ones.
THEOREM Guards == Spec => []GuardsEndWithCalls
BY IInvHolds, PTL DEF IInv
=============================================================================
