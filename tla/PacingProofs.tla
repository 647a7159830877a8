---------------------------- MODULE PacingProofs ----------------------------
(***************************************************************************)
(* Proofs about the poller's pauses, for every maximum and for whatever    *)
(* Telegram asks for, what no duration holds included.                     *)
(***************************************************************************)
EXTENDS Pacing, TLAPS

Twice(d, n) == 2 * d

Doubling == INSTANCE Folding WITH op <- Twice, base <- 1

(* The inductive invariant: the pause being made accounts for the failure  *)
(* it follows, or is one of the hasty ones, and an answer in hand asked    *)
(* for none.                                                               *)
Paced ==
    /\ TypeOK /\ RequestsAreSpaced /\ PauseIsBounded /\ HonorsTelegram
    /\ at = "ingest" => asked = 0

(* The maximum is a positive number of seconds, and the first delay fits.  *)
LEMMA MaximumIs == Maximum \in Nat /\ Second \in Nat /\ Second >= 1 /\ Second <= Maximum
<1>1. \A m, s \in Nat : m # 0 => s <= m * s /\ m * s \in Nat
  OBVIOUS
<1> QED BY <1>1, PacingAssumption DEF Maximum

LEMMA NothingFits == Fits(0) /\ 0 * Second = 0
<1>1. 0 * Second = 0 /\ 0 < Limit
  BY MaximumIs, PacingAssumption
<1> QED BY <1>1 DEF Fits

(* A positive retry_after makes a pause of at most the maximum, and if it  *)
(* fits, the pause asked for.                                              *)
LEMMA AskedPauseIs ==
    ASSUME NEW a \in RetryAfter, a > 0
    PROVE  /\ AskedPause(a) \in Int /\ AskedPause(a) <= Maximum
           /\ Fits(a) => /\ AskedPause(a) = Min2(a * Second, Maximum)
                         /\ AskedPause(a) >= Second
<1>1. a \in Nat /\ Limit \in Nat /\ Limit > 0
  BY PacingAssumption, MaximumIs
<1>2. \A n, s \in Nat : n > 0 => s <= n * s /\ n * s \in Nat
  OBVIOUS
<1>3. a * Second \in Nat /\ Second <= a * Second
  BY <1>1, <1>2, MaximumIs
<1>4. \A x, l \in Nat : l > 0 => ((x + l) % (2 * l)) - l \in Int
  OBVIOUS
<1>5. Wrap(a * Second) \in Int /\ (Fits(a) => Wrap(a * Second) = a * Second)
  BY <1>1, <1>3, <1>4 DEF Wrap, Fits
<1> QED BY <1>3, <1>5, MaximumIs DEF AskedPause, Min2

LEMMA RetryDelayIs ==
    ASSUME TypeOK, NEW a \in RetryAfter \cup {0}
    PROVE  /\ RetryDelay(a) \in Int /\ RetryDelay(a) <= Maximum
           /\ Fits(a) => RetryDelay(a) >= Second /\ RetryDelay(a) >= Min2(a * Second, Maximum)
<1>1. a \in Nat
  BY PacingAssumption
<1>2. CASE a > 0
  <2>1. a \in RetryAfter
    BY <1>2
  <2>2. RetryDelay(a) = AskedPause(a)
    BY <1>2 DEF RetryDelay
  <2> QED BY <1>2, <2>1, <2>2, AskedPauseIs, MaximumIs DEF Min2
<1>3. CASE a = 0
  <2>1. RetryDelay(a) = delay /\ a * Second = 0
    BY <1>3, NothingFits, MaximumIs DEF RetryDelay, Min2, TypeOK
  <2> QED BY <2>1, MaximumIs DEF Min2, TypeOK
<1> QED BY <1>1, <1>2, <1>3

LEMMA InitPaced == Init => Paced
<1>1. (0 - 0) * Second = 0
  BY MaximumIs
<1> QED BY <1>1, MaximumIs, PacingAssumption
        DEF Init, Paced, TypeOK, RequestsAreSpaced, PauseIsBounded, HonorsTelegram

(* A pause begins, with the delay or with what Telegram asked for. *)
LEMMA RestPaced ==
    ASSUME Paced, PollFails \/ PollRefused \/ IngestPaused PROVE Paced'
<1>1. /\ delay' = delay /\ failures' = failures /\ hasty' = hasty /\ elapsed' = elapsed
      /\ at' = "sleep"
  BY DEF PollFails, PollRefused, IngestPaused, Rest
<1>2. /\ asked' \in RetryAfter \cup {0} /\ pause' \in Int /\ pause' <= Maximum
      /\ Fits(asked') => pause' >= Second /\ pause' >= Min2(asked' * Second, Maximum)
  <2>1. CASE PollFails
    BY <2>1, RetryDelayIs DEF PollFails, Rest, Paced
  <2>2. CASE PollRefused
    BY <2>2, RetryDelayIs DEF PollRefused, Rest, Envelope, Paced
  <2>3. CASE IngestPaused
    <3>1. pause' = delay /\ asked' = 0 /\ delay \in Second..Maximum
      BY <2>3 DEF IngestPaused, Rest, Paced, TypeOK
    <3> QED BY <3>1, NothingFits, MaximumIs DEF Min2
  <2> QED BY <2>1, <2>2, <2>3
<1> QED BY <1>1, <1>2
        DEF Paced, TypeOK, RequestsAreSpaced, PauseIsBounded, HonorsTelegram, Fits

(* The failure the pause follows is counted as hasty, or took a second.    *)
LEMMA WakePaced ==
    ASSUME Paced, Wake PROVE Paced'
<1>1. /\ at = "sleep" /\ at' = "poll" /\ failures < MaxFailures /\ failures' = failures + 1
      /\ hasty' = hasty + (IF Fits(asked) THEN 0 ELSE 1)
      /\ delay' = NextDelay(delay) /\ pause' = pause /\ asked' = asked
      /\ elapsed' = elapsed + (IF pause > 0 THEN pause ELSE 0)
  BY DEF Wake
<1>2. /\ pause \in Int /\ (Fits(asked) => pause >= Second)
      /\ delay \in Second..Maximum /\ elapsed \in Nat
      /\ failures \in 0..MaxFailures /\ hasty \in 0..failures /\ MaxFailures \in Nat
      /\ elapsed >= (failures - hasty) * Second
  BY <1>1, PacingAssumption DEF Paced, TypeOK, PauseIsBounded, RequestsAreSpaced
<1>3. delay' \in Second..Maximum
  BY <1>1, <1>2, MaximumIs DEF NextDelay, Min2
<1>4. failures' \in 0..MaxFailures /\ hasty' \in 0..failures'
  BY <1>1, <1>2
<1>5. elapsed' \in Nat /\ elapsed' >= elapsed
  BY <1>1, <1>2, MaximumIs
<1>6. elapsed' >= (failures' - hasty') * Second
  <2>1. CASE Fits(asked)
    <3>1. elapsed' >= elapsed + Second /\ failures' - hasty' = (failures - hasty) + 1
      BY <1>1, <1>2, <2>1, MaximumIs
    <3>2. \A n, s \in Nat : (n + 1) * s = n * s + s /\ n * s \in Nat
      OBVIOUS
    <3>3. failures - hasty \in Nat
      BY <1>2
    <3> QED BY <1>2, <1>5, <3>1, <3>2, <3>3, MaximumIs
  <2>2. CASE ~Fits(asked)
    <3>1. failures' - hasty' = failures - hasty
      BY <1>1, <1>2, <2>2
    <3>2. (failures - hasty) * Second \in Int
      BY <1>2, MaximumIs
    <3> QED BY <1>2, <1>5, <3>1, <3>2
  <2> QED BY <2>1, <2>2
<1> QED BY <1>1, <1>3, <1>4, <1>5, <1>6
        DEF Paced, TypeOK, RequestsAreSpaced, PauseIsBounded, HonorsTelegram

LEMMA OtherPaced ==
    ASSUME Paced, PollFatal \/ PollAnswered \/ IngestFatal \/ Interrupt \/ UNCHANGED vars
    PROVE  Paced'
<1>1. /\ delay' = delay /\ pause' = pause /\ failures' = failures /\ hasty' = hasty
      /\ elapsed' = elapsed
  BY DEF PollFatal, PollAnswered, IngestFatal, Interrupt, vars
<1>2. \/ at' = at /\ asked' = asked
      \/ at' = "ended" /\ asked' = asked
      \/ at' = "ingest" /\ asked' = 0
  BY DEF PollFatal, PollAnswered, IngestFatal, Interrupt, vars
<1> QED BY <1>1, <1>2 DEF Paced, TypeOK, RequestsAreSpaced, PauseIsBounded, HonorsTelegram

LEMMA StartPaced ==
    ASSUME Paced, IngestDone \/ Restart PROVE Paced'
<1>1. at' = "poll" /\ delay' = Second /\ failures' = 0 /\ hasty' = 0 /\ elapsed' = 0
  BY DEF IngestDone, Restart, Begin
<1>2. pause' \in Int /\ asked' \in RetryAfter \cup {0}
  BY DEF IngestDone, Restart, Begin, Paced, TypeOK
<1>3. (0 - 0) * Second = 0 /\ Second \in Second..Maximum /\ 0 \in 0..MaxFailures /\ 0 \in 0..0
  BY MaximumIs, PacingAssumption
<1> QED BY <1>1, <1>2, <1>3 DEF Paced, TypeOK, RequestsAreSpaced, PauseIsBounded, HonorsTelegram

(* Doubled is the function its recursion says. *)
LEMMA DoubledIs ==
    /\ Doubled[0] = 1
    /\ \A n \in Nat : Doubled[n + 1] = 2 * Doubled[n]
<1>1. Doubled = CHOOSE f : f = [n \in Nat |-> IF n = 0 THEN 1 ELSE 2 * f[n - 1]]
  BY Zenon DEF Doubled
<1>2. \E f : f = [n \in Nat |-> IF n = 0 THEN 1 ELSE 2 * f[n - 1]]
  BY Doubling!RecursesOnNat, Zenon DEF Doubling!Recurses, Twice
<1>3. Doubled = [n \in Nat |-> IF n = 0 THEN 1 ELSE 2 * Doubled[n - 1]]
  BY <1>1, <1>2, Zenon
<1>4. ASSUME NEW n \in Nat PROVE Doubled[n] = IF n = 0 THEN 1 ELSE 2 * Doubled[n - 1]
  BY <1>3
<1>5. ASSUME NEW n \in Nat PROVE Doubled[n + 1] = 2 * Doubled[n]
  <2>1. n + 1 \in Nat /\ n + 1 # 0 /\ n + 1 - 1 = n
    OBVIOUS
  <2> QED BY <1>4, <2>1
<1> QED BY <1>4, <1>5

LEMMA DoubledIsPositive == \A n \in Nat : Doubled[n] \in Nat \ {0}
<1> DEFINE S == {n \in Nat : Doubled[n] \in Nat \ {0}}
<1>1. 0 \in S
  BY DoubledIs
<1>2. \A n \in Nat : n \in S => n + 1 \in S
  BY DoubledIs
<1>3. Nat \subseteq S
  <2> HIDE DEF S
  <2> QED BY <1>1, <1>2, Doubling!SetInduction
<1> QED BY <1>3

(* Doubling a delay that is at its maximum, or on its way to it. *)
LEMMA NextDelayDoubles ==
    ASSUME NEW n \in Nat, delay = Min2(Doubled[n] * Second, Maximum)
    PROVE  NextDelay(delay) = Min2(Doubled[n + 1] * Second, Maximum)
<1> DEFINE d == Doubled[n]
<1>1. d \in Nat /\ Doubled[n + 1] = 2 * d
  BY DoubledIs, DoubledIsPositive
<1>2. d * Second \in Nat /\ (2 * d) * Second = 2 * (d * Second)
  BY <1>1, MaximumIs
<1> HIDE DEF d
<1>3. delay = Min2(d * Second, Maximum)
  BY DEF d
<1> QED BY <1>1, <1>2, <1>3, MaximumIs DEF NextDelay, Min2

LEMMA AlwaysPaced == Spec => []Paced
<1>1. Init => Paced
  BY InitPaced
<1>2. Paced /\ [Next]_vars => Paced'
  BY RestPaced, WakePaced, OtherPaced, StartPaced DEF Next
<1> QED BY <1>1, <1>2, PTL DEF Spec

(* However long the polls and the ingests go on failing, n failures take n *)
(* seconds: a stalled client or an unreachable Telegram is never answered  *)
(* with a busy loop.  Only an absurd retry_after is not accounted for.     *)
THEOREM FailuresAreSpaced == Spec => []RequestsAreSpaced
<1>1. Paced => RequestsAreSpaced
  BY DEF Paced
<1> QED BY <1>1, AlwaysPaced, PTL

(* Whatever Telegram asks for, no pause exceeds the configured maximum,    *)
(* and a pause is shorter than a second only if what it asked for does not *)
(* fit a duration (retryDelay).                                            *)
THEOREM PausesAreBounded == Spec => []PauseIsBounded
<1>1. Paced => PauseIsBounded
  BY DEF Paced
<1> QED BY <1>1, AlwaysPaced, PTL

(* A retry_after that fits a duration is honoured, up to the maximum.      *)
THEOREM RetryAfterIsHonored == Spec => []HonorsTelegram
<1>1. Paced => HonorsTelegram
  BY DEF Paced
<1> QED BY <1>1, AlwaysPaced, PTL

(* The delay is a second doubled with every failure up to the maximum, and *)
(* nothing but an ingest that succeeds sets it back.                       *)
THEOREM TheDelayDoubles == Spec => []DelayDoubles
<1>1. Init => DelayDoubles
  <2>1. 1 * Second = Second
    BY MaximumIs
  <2> QED BY <2>1, DoubledIs, MaximumIs DEF Init, DelayDoubles, Min2
<1>2. TypeOK /\ DelayDoubles /\ [Next]_vars => DelayDoubles'
  <2> SUFFICES ASSUME TypeOK, DelayDoubles, [Next]_vars PROVE DelayDoubles'
    OBVIOUS
  <2>1. CASE Wake
    BY <2>1, NextDelayDoubles DEF Wake, DelayDoubles, TypeOK
  <2>2. CASE IngestDone \/ Restart
    <3>1. delay' = Second /\ failures' = 0 /\ 1 * Second = Second
      BY <2>2, MaximumIs DEF IngestDone, Restart, Begin
    <3> QED BY <3>1, DoubledIs, MaximumIs DEF DelayDoubles, Min2
  <2>3. CASE UNCHANGED <<delay, failures>>
    BY <2>3 DEF DelayDoubles
  <2>4. \/ Wake \/ IngestDone \/ Restart \/ UNCHANGED <<delay, failures>>
    BY DEF Next, vars, PollFails, PollRefused, PollFatal, PollAnswered, IngestPaused,
           IngestFatal, Interrupt
  <2> QED BY <2>1, <2>2, <2>3, <2>4
<1>3. Paced => TypeOK
  BY DEF Paced
<1> QED BY <1>1, <1>2, <1>3, AlwaysPaced, PTL DEF Spec
=============================================================================
