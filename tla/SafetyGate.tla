----------------------------- MODULE SafetyGate -----------------------------
(***************************************************************************)
(* What the circuit breaker promises (spec 4.8), stated over the history   *)
(* of admissions instead of the breaker's counters: a transaction is       *)
(* admitted only while the gate is not latched, and only if, together with *)
(* the transactions admitted earlier in the same day, it keeps the         *)
(* position, the gas spend and the submission rate within their caps.  A  *)
(* day ends when the reset interval has passed; it forgets the day's       *)
(* admissions but not the latch.  Only the operator's reset clears the     *)
(* latch.  CircuitBreaker is checked against it: `day` is the breaker's    *)
(* history of accepted transactions, `latched` its triggered flag.         *)
(***************************************************************************)
EXTENDS Integers, Sequences, SequencesExt

CONSTANTS
  MaxPosition,          \* cap on the value admitted in one day
  MaxGasPrice,          \* cap on one transaction's gas price
  MaxDailyGasSpend,     \* cap on the gas admitted in one day
  TxWindow,             \* length of the sliding rate window (seconds)
  MaxTxPerWindow,       \* admissions allowed in one window
  MetricsResetInterval  \* length of a day (seconds)

VARIABLES
  clock,     \* wall clock (seconds)
  latched,   \* the gate refuses every admission
  dayStart,  \* when the current day began
  day        \* admissions of the current day: [t, cost, value] records

vars == <<clock, latched, dayStart, day>>

\* The day a request sees: a fresh one once the interval has passed.
Today ==
  IF clock - dayStart >= MetricsResetInterval
  THEN [start |-> clock, adm |-> <<>>]
  ELSE [start |-> dayStart, adm |-> day]

\* Sum of one field over a day's admissions.
Total(adm, f) == FoldLeft(LAMBDA acc, e : acc + e[f], 0, adm)

\* Admissions no older than the rate window.
Recent(adm) == Quantify(DOMAIN adm, LAMBDA i : clock - adm[i].t <= TxWindow)

Init ==
  /\ clock = 0
  /\ latched = FALSE
  /\ dayStart = 0
  /\ day = <<>>

\* A request is refused; the day may roll over and the gate may latch.
Refuse ==
  /\ dayStart' = Today.start
  /\ day' = Today.adm
  /\ latched' \in {latched, TRUE}
  /\ UNCHANGED clock

\* A request of the given value and gas price is admitted.
Admit(value, price) ==
  LET d == Today.adm
  IN /\ ~latched
     /\ Total(d, "value") + value <= MaxPosition
     /\ price <= MaxGasPrice
     /\ Total(d, "cost") + price <= MaxDailyGasSpend
     /\ Recent(d) < MaxTxPerWindow
     /\ dayStart' = Today.start
     /\ day' = Append(d, [t |-> clock, cost |-> price, value |-> value])
     /\ UNCHANGED <<clock, latched>>

\* A loss or an emergency latches the gate.
Latch ==
  /\ latched' = TRUE
  /\ UNCHANGED <<clock, dayStart, day>>

\* The operator clears the latch and starts a new day.
Reset ==
  /\ latched' = FALSE
  /\ dayStart' = clock
  /\ day' = <<>>
  /\ UNCHANGED clock

Tick ==
  /\ clock' = clock + 1
  /\ UNCHANGED <<latched, dayStart, day>>

Next ==
  \/ Refuse \/ Latch \/ Reset \/ Tick
  \/ \E v \in 0 .. MaxPosition, p \in 0 .. MaxGasPrice : Admit(v, p)

Spec == Init /\ [][Next]_vars

=============================================================================
