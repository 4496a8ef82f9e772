----------------------------- MODULE BaudSearch -----------------------------
(***************************************************************************)
(* The search for the target's baud rate on a serial port: scaleby,        *)
(* GetSyncByte, TryBaudRate and FindBaudRate of src/dwire/Serial.c.        *)
(*                                                                         *)
(* After a break the target answers 0x55 at a rate that only it knows. The *)
(* port samples that byte at the rate it is set to, and what it reads      *)
(* tells scaleby by how much to slow down.  The arithmetic is the code's.  *)
(* A byte is the set of the numbers of its 1 bits.                         *)
(***************************************************************************)
EXTENDS Integers, Sequences, FiniteSets

LOCAL INSTANCE FiniteSetsExt

CONSTANTS
  Speeds,   \* the rates, in baud, at which the target may answer
  Ports     \* the ports, by the lowest and highest rate that each can be set to

\* What the constants are assumed to be.
SearchAssumption ==
  /\ Speeds \subseteq Nat \ {0}
  /\ Ports \subseteq Nat \X Nat

VARIABLES
  speed,      \* the target's rate
  limits,     \* the port's lowest and highest rate
  pc,         \* the phase of FindBaudRate
  baudrate,   \* the rate to try next, and then the first that works
  lowerbound,
  upperbound

wire == <<speed, limits>>
vars == <<wire, pc, baudrate, lowerbound, upperbound>>

Zero == {}
Ones == 0..7
Sync == {0, 2, 4, 6}    \* 0x55
None == {-1}            \* MaybeReadByte: nothing read
-----------------------------------------------------------------------------
(* The line.  The target's byte is ten bits on the line: 0 in the even     *)
(* ones, 1 in the odd ones, and 1 from the last one on.  The port takes a  *)
(* byte from each falling edge it is ready for: the middle of its n-th bit *)
(* lies that many of the target's bits behind the edge.                    *)

Behind(n, rate) == ((2 * n + 1) * speed) \div (2 * rate)

High(bit) == bit >= 9 \/ bit % 2 = 1

Sampled(edge, rate) == {i \in 0..7 : High(edge + Behind(i + 1, rate))}

NextEdges(edge, rate) == {e \in {2, 4, 6, 8} : e > edge + Behind(9, rate)}

Received(rate) ==
  LET from[edge \in {0, 2, 4, 6, 8}] ==
        LET edges == NextEdges(edge, rate)
        IN  <<Sampled(edge, rate)>> \o
            (IF edges = {} THEN <<>> ELSE from[Min(edges)])
  IN  from[0]

(* The break itself reads as a zero byte, and the line going high behind   *)
(* it may read as 0xFF.                                                    *)
BreakBytes == {<<Zero>>, <<Zero, Ones>>}
-----------------------------------------------------------------------------
(* The first byte is the break's zero: GetSyncByte fails otherwise, which  *)
(* cannot happen here.  Three zeros in a row count as the answer.          *)
GetSyncByte(bytes) ==
  LET read == [i \in 1..Len(bytes) + 2 |-> IF i <= Len(bytes) THEN bytes[i] ELSE None]
      first == IF read[2] = Zero THEN 3 ELSE 2
  IN  read[Min({i \in first..Len(bytes) + 2 : read[i] # Ones})]

(* Behind the leading ones there are only zeros: the target's first bit is *)
(* at least as long as they are.                                           *)
OnlyZeros(remaining) == <<20, 20, 20, 30, 40, 60, 95, 95>>[remaining]

(* By how much, in percent, to change the rate.  Leading ones come from    *)
(* the stop bits; `run' finds the runs of a length behind them.            *)
scaleby(byte) ==
  LET top     == Max({1} \union {i \in 2..7 : i \notin byte})
      bits    == 0..top
      alike(b, lo, n) == lo..lo + n - 1 \subseteq b /\ {lo - 1, lo + n} \intersect b = {}
      run(n)  == {lo \in bits : alike(byte \intersect bits, lo, n) \/ alike(bits \ byte, lo, n)}
      runs(n) == Cardinality(run(n))
  IN  IF byte = Sync THEN 100
      ELSE IF byte = Zero THEN 20
      ELSE IF byte \intersect bits = {} THEN OnlyZeros(top + 1)
      ELSE IF runs(3) > 1 THEN 60
      ELSE IF runs(2) > 1 THEN 85
      ELSE IF runs(1) > 1 THEN 95
      ELSE IF runs(4) > 0 THEN 40
      ELSE IF runs(5) > 0 THEN 30
      ELSE IF runs(6) > 0 \/ runs(7) > 0 THEN 25
      ELSE 95

(* TryBaudRate opens the port anew and closes it again.  The result is 0   *)
(* if the port cannot be set to the rate, -1 for a failure.                *)
Scale(byte) == IF byte = None THEN -1 ELSE scaleby(byte)

Results(rate) ==
  IF rate \notin limits[1]..limits[2] THEN {0}
  ELSE LET bytes == {brk \o read : brk \in BreakBytes, read \in {Received(rate)}}
       IN  {Scale(byte) : byte \in {GetSyncByte(b) : b \in bytes}}
-----------------------------------------------------------------------------
Init ==
  /\ speed \in Speeds
  /\ limits \in Ports
  /\ pc = "first"
  /\ baudrate = 150000
  /\ lowerbound = 0
  /\ upperbound = 0

\* A mutant: every trial starts again from the top.
SlowDown_FromStart(scale) ==
  /\ pc' = "down"
  /\ baudrate' = (150000 * scale) \div 100
  /\ UNCHANGED <<lowerbound, upperbound>>

\* A mutant: the scale is applied twice.
SlowDown_Twice(scale) ==
  /\ pc' = "down"
  /\ baudrate' = (baudrate * scale * scale) \div 10000
  /\ UNCHANGED <<lowerbound, upperbound>>

SlowDown(scale) ==
  /\ pc' = "down"
  /\ baudrate' = (baudrate * scale) \div 100
  /\ UNCHANGED <<lowerbound, upperbound>>

Hit ==
  /\ pc' = "upper"
  /\ upperbound' = baudrate
  /\ lowerbound' = baudrate
  /\ UNCHANGED baudrate

Quit(how) == pc' = how /\ UNCHANGED <<baudrate, lowerbound, upperbound>>

(* A rate that the port does not take ends the search only if it is the    *)
(* first: the loop's test is for 100.                                      *)
Search ==
  /\ pc \in {"first", "down"}
  /\ \E scale \in Results(baudrate) :
       \/ scale = -1 /\ Quit("failed")
       \/ scale = 0 /\ pc = "first" /\ Quit("unsupported")
       \/ scale = 100 /\ Hit
       \/ scale \notin {-1, 100} /\ (scale = 0 => pc = "down") /\ SlowDown(scale)
  /\ UNCHANGED wire

Bounded(scale, phase, next) ==
  pc' = IF scale = -1 THEN "failed" ELSE IF scale = 100 THEN phase ELSE next

UpperBound ==
  /\ pc = "upper"
  /\ LET trial == (upperbound * 102) \div 100
     IN  \E scale \in Results(trial) :
           /\ upperbound' = IF scale = 100 THEN trial ELSE upperbound
           /\ Bounded(scale, "upper", "lower")
  /\ UNCHANGED <<wire, baudrate, lowerbound>>

\* A mutant: the lower bound is searched for upwards.
LowerBound_Up ==
  /\ pc = "lower"
  /\ LET trial == (lowerbound * 102) \div 100
     IN  \E scale \in Results(trial) :
           /\ lowerbound' = IF scale = 100 THEN trial ELSE lowerbound
           /\ Bounded(scale, "lower", "found")
  /\ UNCHANGED <<wire, baudrate, upperbound>>

LowerBound ==
  /\ pc = "lower"
  /\ LET trial == (lowerbound * 98) \div 100
     IN  \E scale \in Results(trial) :
           /\ lowerbound' = IF scale = 100 THEN trial ELSE lowerbound
           /\ Bounded(scale, "lower", "found")
  /\ UNCHANGED <<wire, baudrate, upperbound>>

Next == Search \/ UpperBound \/ LowerBound

Spec == Init /\ [][Next]_vars /\ WF_vars(Next)

result == (lowerbound + upperbound) \div 2
-----------------------------------------------------------------------------
TypeOK ==
  /\ speed \in Speeds
  /\ limits \in Ports
  /\ pc \in {"first", "down", "upper", "lower", "found", "failed", "unsupported"}
  /\ baudrate \in 0..150000
  /\ lowerbound \in 0..baudrate
  /\ upperbound \in Nat

(* FindBaudRate: the rate found is the target's to within 3 percent, well  *)
(* inside what a byte of ten bits tolerates, on a port that takes the      *)
(* rates up to 10 percent below the target's, where the bounds are tried.  *)
RateFound ==
  pc = "found" /\ 10 * limits[1] <= 9 * speed => 100 * result \in 97 * speed .. 103 * speed

(* No overshoot: FindBaudRate never slows down to where all of the answer  *)
(* reads as one 0xFF, and so finds every target ("First try lower and      *)
(* lower clock rates until we get a good result").                         *)
NeverLost == pc # "failed"

(* FindBaudRate ends, with a rate or with a failure, unless it has slowed  *)
(* down to a rate that the port does not take.                             *)
SearchEnds == <>(pc \in {"found", "failed", "unsupported"} \/ (pc = "down" /\ baudrate < limits[1]))
=============================================================================
