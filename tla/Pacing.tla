------------------------------- MODULE Pacing -------------------------------
(***************************************************************************)
(* How often the poller asks Telegram (internal/telegram/poller.go, and    *)
(* client.go for what an answer means to it).                              *)
(*                                                                         *)
(* pollState.delay is the pause after the next failure.  It doubles with   *)
(* every failure, up to the configured maximum, and only an ingest that    *)
(* succeeds sets it back: a poll that succeeds while the backlog is full   *)
(* does not.  Telegram may ask for a pause of its own (retry_after).       *)
(*                                                                         *)
(* A duration is an int64 of nanoseconds; Second and Limit are 10^9 and    *)
(* 2^63 on a smaller scale.                                                *)
(* A retry_after so large that its nanoseconds do not fit wraps around, to *)
(* a pause that may be shorter than asked for or none at all; the poller   *)
(* is not protected against it, and the properties say where that matters. *)
(***************************************************************************)
EXTENDS Integers

CONSTANTS
    Second,     \* time.Second
    Limit,      \* the first number a duration cannot hold
    MaxRetry,   \* telegram.max_retry_seconds
    RetryAfter, \* what retry_after may be; 0: absent, or not positive
    MaxFailures \* bound: failures in a row

Maximum == MaxRetry * Second

ASSUME PacingAssumption ==
    /\ Second \in Nat \ {0}
    /\ MaxRetry \in Nat \ {0}
    /\ Limit \in Nat /\ 2 * Maximum < Limit
    /\ RetryAfter \subseteq Nat
    /\ MaxFailures \in Nat

VARIABLES
    at,       \* where the poller is
    delay,    \* pollState.delay
    pause,    \* the pause it is in
    asked,    \* history: the pause in seconds Telegram asked for with its last answer
    failures, \* history: failures since the last ingest that succeeded
    hasty,    \* history: those whose retry_after no duration holds
    elapsed   \* history: the pauses made since then

vars == <<at, delay, pause, asked, failures, hasty, elapsed>>

----------------------------------------------------------------------------
(* Arithmetic *)

Min2(a, b) == IF a <= b THEN a ELSE b

(* 2^n *)
Doubled[n \in Nat] == IF n = 0 THEN 1 ELSE 2 * Doubled[n - 1]

(* A product of two numbers that are not negative, as an int64. *)
Wrap(x) == IF x < Limit THEN x ELSE ((x + Limit) % (2 * Limit)) - Limit

(* A duration holds so many seconds. *)
Fits(seconds) == seconds * Second < Limit

----------------------------------------------------------------------------
(* Answers *)

(* What arrives: nothing or too much of it, something that is not JSON, or *)
(* an envelope with its status, ok and retry_after, and the result in it.  *)
Envelope == [status : {200, 401, 403, 409, 429}, ok : BOOLEAN, after : RetryAfter,
             result : {"updates", "missing", "malformed"}]

Refused(e) == e.status # 200 \/ ~e.ok

(* fatalTelegramError: by the status of HTTP, and only under an envelope. *)
Fatal(e) == Refused(e) /\ e.status \in {401, 403}

(* Faulty: seconds are taken for nanoseconds. *)
FaultyAskedPause(after) == Min2(after, Maximum)

(* retryDelay for a positive retry_after. *)
AskedPause(after) == Min2(Wrap(after * Second), Maximum)

(* Faulty: retry_after is ignored. *)
FaultyRetryDelay(after) == Min2(delay, Maximum)

RetryDelay(after) == IF after > 0 THEN AskedPause(after) ELSE Min2(delay, Maximum)

----------------------------------------------------------------------------

Rest(p) == at' = "sleep" /\ pause' = p

(* No answer, an answer above the size limit, one that is not JSON, a      *)
(* result without its shape, or an update that does not parse.             *)
PollFails ==
    /\ at = "poll"
    /\ Rest(RetryDelay(0))
    /\ asked' = 0
    /\ UNCHANGED <<delay, failures, hasty, elapsed>>

PollRefused ==
    /\ at = "poll"
    /\ \E e \in Envelope :
          /\ Refused(e) /\ ~Fatal(e)
          /\ Rest(RetryDelay(e.after))
          /\ asked' = e.after
    /\ UNCHANGED <<delay, failures, hasty, elapsed>>

PollFatal ==
    /\ at = "poll"
    /\ \E e \in Envelope : Fatal(e)
    /\ at' = "ended"
    /\ UNCHANGED <<delay, pause, asked, failures, hasty, elapsed>>

(* Faulty: the delay starts over with every answer. *)
FaultyPollAnswered ==
    /\ at = "poll"
    /\ at' = "ingest"
    /\ asked' = 0
    /\ delay' = Second
    /\ UNCHANGED <<pause, failures, hasty, elapsed>>

PollAnswered ==
    /\ at = "poll"
    /\ at' = "ingest"
    /\ asked' = 0
    /\ UNCHANGED <<delay, pause, failures, hasty, elapsed>>

(* Ingest succeeds, with updates or with none. *)
IngestDone ==
    /\ at = "ingest"
    /\ at' = "poll"
    /\ delay' = Second
    /\ failures' = 0 /\ hasty' = 0 /\ elapsed' = 0
    /\ UNCHANGED <<pause, asked>>

IngestPaused ==
    /\ at = "ingest"
    /\ Rest(delay)
    /\ UNCHANGED <<delay, asked, failures, hasty, elapsed>>

IngestFatal ==
    /\ at = "ingest"
    /\ at' = "ended"
    /\ UNCHANGED <<delay, pause, asked, failures, hasty, elapsed>>

(* Faulty: nothing bounds the delay. *)
FaultyNextDelay(d) == d * 2

NextDelay(d) == Min2(d * 2, Maximum)

(* The timer fires, at once when the pause is not positive. *)
Wake ==
    /\ at = "sleep"
    /\ failures < MaxFailures
    /\ at' = "poll"
    /\ delay' = NextDelay(delay)
    /\ failures' = failures + 1
    /\ hasty' = hasty + (IF Fits(asked) THEN 0 ELSE 1)
    /\ elapsed' = elapsed + (IF pause > 0 THEN pause ELSE 0)
    /\ UNCHANGED <<pause, asked>>

(* The context is cancelled. *)
Interrupt ==
    /\ at = "sleep"
    /\ at' = "ended"
    /\ UNCHANGED <<delay, pause, asked, failures, hasty, elapsed>>

Begin ==
    /\ at' = "poll" /\ delay' = Second /\ pause' = 0 /\ asked' = 0
    /\ failures' = 0 /\ hasty' = 0 /\ elapsed' = 0

(* A new process: initialize.  The delay is not stored. *)
Restart == at = "ended" /\ Begin

Init ==
    /\ at = "poll" /\ delay = Second /\ pause = 0 /\ asked = 0
    /\ failures = 0 /\ hasty = 0 /\ elapsed = 0

Next ==
    \/ PollFails \/ PollRefused \/ PollFatal \/ PollAnswered
    \/ IngestDone \/ IngestPaused \/ IngestFatal
    \/ Wake \/ Interrupt \/ Restart

Spec == Init /\ [][Next]_vars

----------------------------------------------------------------------------
(* Properties *)

(* The delay stays between a second and the maximum. *)
TypeOK ==
    /\ at \in {"poll", "ingest", "sleep", "ended"}
    /\ delay \in Second..Maximum
    /\ pause \in Int
    /\ asked \in RetryAfter \cup {0}
    /\ failures \in 0..MaxFailures /\ hasty \in 0..failures
    /\ elapsed \in Nat

(* The delay is the second doubled once for every failure since the last   *)
(* ingest that succeeded, whatever polls succeeded in between: the backlog *)
(* that stays full is examined more and more rarely (step,                 *)
(* handlePollFailure, handleIngestFailure).                                *)
DelayDoubles == delay = Min2(Doubled[failures] * Second, Maximum)

(* A failing poller asks Telegram at most once a second: n failures in a   *)
(* row have taken n seconds or more, those apart to which Telegram said a  *)
(* retry_after that no duration holds (step, sleepContext).                *)
RequestsAreSpaced == elapsed >= (failures - hasty) * Second

(* No pause is longer than the configured maximum, even when its           *)
(* computation overflowed; nor, when it did not, so short that the poller  *)
(* spins.                                                                  *)
PauseIsBounded ==
    at = "sleep" => pause <= Maximum /\ (Fits(asked) => pause >= Second)

(* The poller waits as long as Telegram asked for, or for the maximum, if  *)
(* a duration holds what it asked for: retryDelay multiplies before it     *)
(* compares (poller_test.go, TestRetryDelayHonorsTelegramAndMaximum, tries *)
(* an ordinary value and one above the maximum).                           *)
HonorsTelegram ==
    at = "sleep" /\ Fits(asked) => pause >= Min2(asked * Second, Maximum)
=============================================================================
