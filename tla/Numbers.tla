------------------------------- MODULE Numbers -------------------------------
(***************************************************************************)
(* The number conversions of the bridge.  Runtimes carry every integer as  *)
(* an i64, so wider or unsigned Rust types have to be folded into it:      *)
(* `u64` and `usize` as their bit pattern, `SystemTime` as seconds and     *)
(* nanoseconds.  Half stands for 2^63 and Nanos for 10^9; nothing here     *)
(* depends on the values they really have.                                 *)
(***************************************************************************)
EXTENDS Integers

CONSTANTS
  Half,     \* 2^63: an i64 is in -Half .. Half-1, a u64 in 0 .. 2*Half-1
  Nanos     \* nanoseconds in a second

ASSUME NumbersAssumption == /\ Half \in Nat \ {0}
                            /\ Nanos \in Nat \ {0}

I64 == -Half .. Half - 1
U64 == 0 .. 2 * Half - 1

\* `n as i64` and `n as u64`: the same bits read with and without a sign.
AsI64(n) == IF n < Half THEN n ELSE n - 2 * Half
AsU64(n) == IF n >= 0 THEN n ELSE n + 2 * Half

\* `-n` on i64 when arithmetic wraps; debug builds panic where it differs.
WrappingNeg(n) == IF n = -Half THEN n ELSE -n
NegOverflows(n) == n = -Half

-----------------------------------------------------------------------------
(***************************************************************************)
(* std's SystemTime, on the platforms where it is a timespec: whole        *)
(* seconds since the epoch, rounded down, and the rest.  SinceEpoch is     *)
(* `duration_since`: the distance from the epoch, on either side of it.    *)
(***************************************************************************)
Instants == [sec : I64, nsec : 0 .. Nanos - 1]

SinceEpoch(t) ==
  IF t.sec >= 0 THEN t
  ELSE IF t.nsec = 0 THEN [sec |-> -t.sec, nsec |-> 0]
       ELSE [sec |-> -t.sec - 1, nsec |-> Nanos - t.nsec]

\* The instant that far before the epoch (`UNIX_EPOCH.checked_sub`).
BeforeEpoch(secs, nanos) ==
  IF nanos = 0 THEN [sec |-> -secs, nsec |-> 0]
  ELSE [sec |-> -secs - 1, nsec |-> Nanos - nanos]

-----------------------------------------------------------------------------
\* From<SystemTime>: the pair (seconds, nanoseconds) that crosses.
PairOfInstant(t) ==
  LET d == SinceEpoch(t) IN
  IF t.sec >= 0 THEN <<AsI64(d.sec), d.nsec>>
  ELSE IF d.nsec = 0 THEN <<WrappingNeg(AsI64(d.sec)), 0>>
       ELSE <<WrappingNeg(AsI64(d.sec)) - 1, Nanos - d.nsec>>

\* Where that conversion negates a number that has no negative.
PairOverflows(t) ==
  t.sec < 0 /\ NegOverflows(AsI64(SinceEpoch(t).sec))

\* The nanoseconds both time types accept.
NanosInRange(nanos) == nanos < Nanos

\* Mutant: before the epoch the second is not rounded down.
InstantOfPairTruncating(secs, nanos) ==
  IF secs >= 0 THEN [sec |-> secs, nsec |-> nanos]
  ELSE BeforeEpoch(-secs, nanos)

\* FromScript for SystemTime, once the pair has converted.
InstantOfPair(secs, nanos) ==
  IF secs >= 0 THEN [sec |-> secs, nsec |-> nanos]
  ELSE IF nanos = 0 THEN BeforeEpoch(-secs, 0)
       ELSE BeforeEpoch(-(secs + 1), Nanos - nanos)
=============================================================================
