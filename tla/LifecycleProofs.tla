-------------------------- MODULE LifecycleProofs --------------------------
(***************************************************************************)
(* Proofs about the process: which goroutine ends in which order, and what *)
(* the exit status says, for any number of requests.                       *)
(***************************************************************************)
EXTENDS Lifecycle, TLAPS

Good == TypeOK /\ ProcessInv /\ ClosedLast /\ StatusTells /\ OnlyClientsDelay

(* What the errors channel holds after a send, and after a receive. *)
LEMMA AppendIs ==
    ASSUME NEW s \in Seq(ErrorKind), NEW e \in ErrorKind
    PROVE  /\ Append(s, e) \in Seq(ErrorKind)
           /\ Len(Append(s, e)) = Len(s) + 1
           /\ \A i \in 1..Len(Append(s, e)) :
                 IF i \in 1..Len(s) THEN Append(s, e)[i] = s[i] ELSE Append(s, e)[i] = e
OBVIOUS

LEMMA TailIs ==
    ASSUME NEW s \in Seq(ErrorKind), s # <<>>
    PROVE  /\ Tail(s) \in Seq(ErrorKind)
           /\ Len(Tail(s)) = Len(s) - 1 /\ Len(s) \in Nat /\ Len(s) >= 1
           /\ Head(s) = s[1] /\ s[1] \in ErrorKind
           /\ \A i \in 1..Len(Tail(s)) : Tail(s)[i] = s[i + 1] /\ i + 1 \in 1..Len(s)
OBVIOUS

LEMMA InitGood == Init => Good
<1> SUFFICES ASSUME Init PROVE Good
  OBVIOUS
<1>1. errs = <<>> /\ errs \in Seq(ErrorKind) /\ Len(errs) = 0 /\ 1..Len(errs) = {}
  BY DEF Init
<1>2. TypeOK
  <2>1. request \in [Request -> RequestState]
    BY DEF Init, RequestState
  <2>2. main \in MainState /\ poller \in PollerPoint
    BY DEF Init, MainState, PollerPoint
  <2>3. Len(errs) <= 2 /\ errs \in Seq(ErrorKind)
    BY <1>1
  <2> QED BY <2>1, <2>2, <2>3, Zenon DEF Init, TypeOK
<1>3. ErrorsInStep
  <2>1. Len(errs) <= (IF poller = "ended" THEN 1 ELSE 0) + (IF serving THEN 0 ELSE 1)
    BY <1>1
  <2>2. firstErr = "none" /\ "none" \notin ErrorKind
    BY DEF Init, ErrorKind
  <2> QED BY <1>1, <2>1, <2>2 DEF ErrorsInStep, SentByPoller, ErrorKind
<1>4. MainInStep
  BY DEF Init, MainInStep
<1> QED BY <1>2, <1>3, <1>4 DEF Init, Good, ProcessInv, ClosedLast, StatusTells, OnlyClientsDelay

(* A step of the poller: it moves, or it ends and sends its error. *)
LEMMA PollerMoves ==
    ASSUME Good, PollerStep
    PROVE  /\ main # "exited" /\ UNCHANGED <<mainVars, serving, request>>
           /\ poller \notin {"off", "ended"}
           /\ \/ poller' \in PollerPoint \ {"off", "ended"} /\ errs' = errs
              \/ /\ poller' = "ended"
                 /\ \E e \in SentByPoller : /\ errs' = Append(errs, e)
                                            /\ e = "canceled" => cancelled
BY DEF PollerStep, Initialize, Loop, Poll, Ingest, Sleep, Goto, Return, PollerPoint,
       SentByPoller, ErrorKind

LEMMA PollerStepGood ==
    ASSUME Good, PollerStep PROVE Good'
<1>1. /\ main # "exited" /\ UNCHANGED <<mainVars, serving, request>>
      /\ poller \notin {"off", "ended"}
  BY PollerMoves
<1>2. UNCHANGED <<main, signalled, cancelled, firstErr, late, database, status, serving, request>>
  BY <1>1 DEF mainVars
<1>3. main \notin {"load", "listen"}
  BY <1>1 DEF Good, ProcessInv, MainInStep
<1>4. ClosedLast' /\ StatusTells' /\ OnlyClientsDelay' /\ MainInStep'
  BY <1>1, <1>2, <1>3 DEF Good, ClosedLast, StatusTells, OnlyClientsDelay, ProcessInv, MainInStep
<1>5. CASE poller' \in PollerPoint \ {"off", "ended"} /\ errs' = errs
  <2>1. TypeOK'
    BY <1>2, <1>5 DEF Good, TypeOK
  <2>2. ErrorsInStep'
    BY <1>1, <1>2, <1>5 DEF Good, ProcessInv, ErrorsInStep
  <2> QED BY <1>4, <2>1, <2>2 DEF Good, ProcessInv
<1>6. CASE /\ poller' = "ended"
           /\ \E e \in SentByPoller : errs' = Append(errs, e) /\ (e = "canceled" => cancelled)
  <2>1. PICK e \in SentByPoller : errs' = Append(errs, e) /\ (e = "canceled" => cancelled)
    BY <1>6
  <2>2. e \in ErrorKind /\ errs \in Seq(ErrorKind)
    BY DEF SentByPoller, Good, TypeOK
  <2>3. /\ errs' \in Seq(ErrorKind) /\ Len(errs') = Len(errs) + 1
        /\ \A i \in 1..Len(errs') : IF i \in 1..Len(errs) THEN errs'[i] = errs[i] ELSE errs'[i] = e
    BY <2>1, <2>2, AppendIs
  <2>4. Len(errs) <= (IF serving THEN 0 ELSE 1) /\ Len(errs) \in Nat
    BY <1>1, <2>2 DEF Good, ProcessInv, ErrorsInStep
  <2>5. TypeOK'
    BY <1>2, <1>6, <2>3, <2>4 DEF Good, TypeOK, PollerPoint
  <2>6. main = "wait" /\ e = "canceled" => signalled
    BY <2>1 DEF Good, ProcessInv, MainInStep
  <2>7. Len(errs') <= 1 + (IF serving' THEN 0 ELSE 1)
    BY <1>2, <2>3, <2>4
  <2>8. ASSUME NEW i \in 1..Len(errs')
        PROVE  /\ errs'[i] = "closed" => main' \in {"shutdown", "exited"}
               /\ errs'[i] = "canceled" /\ main' = "wait" => signalled'
    <3>1. e # "closed"
      BY DEF SentByPoller
    <3>2. CASE i \in 1..Len(errs)
      BY <1>2, <2>3, <3>2 DEF Good, ProcessInv, ErrorsInStep
    <3>3. CASE i \notin 1..Len(errs)
      BY <1>2, <2>3, <2>6, <3>1, <3>3
    <3> QED BY <3>2, <3>3
  <2>9. ErrorsInStep'
    BY <1>2, <1>6, <2>7, <2>8 DEF Good, ProcessInv, ErrorsInStep
  <2> QED BY <1>4, <2>5, <2>9 DEF Good, ProcessInv
<1> QED BY <1>5, <1>6, PollerMoves

(* The requests touch nothing but their own state, and only while the      *)
(* process runs.                                                           *)
LEMMA RequestStepGood ==
    ASSUME Good, NEW r \in Request, RequestStep(r) PROVE Good'
<1>1. /\ UNCHANGED <<mainVars, poller, serving, errs>>
      /\ main # "exited" /\ main \notin {"load", "listen"}
      /\ request' \in [Request -> RequestState]
  <2>1. request \in [Request -> RequestState]
    BY DEF Good, TypeOK
  <2>2. CASE Begin(r)
    <3>1. "header" \in RequestState
      BY DEF RequestState, FromClient
    <3> QED BY <2>1, <2>2, <3>1 DEF Begin
  <2>3. CASE Proceed(r)
    <3>1. PICK s \in NextState[request[r]] :
             request' = [request EXCEPT ![r] = IF s = "none" THEN Released ELSE s]
      BY <2>3 DEF Proceed
    <3>2. request[r] # "none"
      BY <3>1 DEF NextState
    <3>3. \A x \in RequestState : NextState[x] \subseteq RequestState
      BY DEF NextState, RequestState, FromClient
    <3>4. s \in RequestState /\ Released \in RequestState
      BY <2>1, <3>1, <3>3 DEF Released, RequestState
    <3> QED BY <2>1, <2>3, <3>1, <3>2, <3>4 DEF Proceed, Good, ProcessInv, MainInStep
  <2>4. CASE ClientGone(r)
    <3>1. {"none", "closed"} \subseteq RequestState
      BY DEF RequestState
    <3> QED BY <2>1, <2>4, <3>1 DEF ClientGone, Good, ProcessInv, MainInStep
  <2>5. CASE CutOff(r)
    <3>1. {"drain", "write"} \subseteq RequestState
      BY DEF RequestState, FromClient
    <3> QED BY <2>1, <2>5, <3>1 DEF CutOff, Interrupted, Good, ProcessInv, MainInStep
  <2> QED BY <2>2, <2>3, <2>4, <2>5 DEF RequestStep
<1>2. UNCHANGED <<main, signalled, cancelled, firstErr, late, database, status, poller, serving, errs>>
  BY <1>1 DEF mainVars
<1>3. ~late
  BY <1>1 DEF Good, ProcessInv, MainInStep
<1> QED BY <1>1, <1>2, <1>3 DEF Good, TypeOK, ProcessInv, ErrorsInStep, MainInStep, ClosedLast,
                                StatusTells, OnlyClientsDelay

LEMMA AcceptFailsGood ==
    ASSUME Good, AcceptFails PROVE Good'
<1>1. /\ serving /\ serving' = FALSE /\ errs' = Append(errs, "listener")
      /\ UNCHANGED <<main, signalled, cancelled, firstErr, late, database, status, poller, request>>
  BY DEF AcceptFails, mainVars
<1>2. "listener" \in ErrorKind /\ errs \in Seq(ErrorKind)
  BY DEF ErrorKind, Good, TypeOK
<1>3. /\ errs' \in Seq(ErrorKind) /\ Len(errs') = Len(errs) + 1 /\ Len(errs) \in Nat
      /\ \A i \in 1..Len(errs') :
            IF i \in 1..Len(errs) THEN errs'[i] = errs[i] ELSE errs'[i] = "listener"
  BY <1>1, <1>2, AppendIs
<1>4. Len(errs) <= (IF poller = "ended" THEN 1 ELSE 0)
  BY <1>1, <1>3 DEF Good, ProcessInv, ErrorsInStep
<1>5. main \notin {"load", "listen", "shutdown", "exited"}
  BY <1>1 DEF Good, ProcessInv, MainInStep
<1>6. TypeOK'
  <2>1. Len(errs') <= 2
    BY <1>3, <1>4
  <2> QED BY <1>1, <1>3, <2>1 DEF Good, TypeOK
<1>7. ErrorsInStep'
  <2>1. ASSUME NEW i \in 1..Len(errs')
        PROVE  /\ errs'[i] \in SentByPoller => poller' = "ended"
               /\ errs'[i] = "closed" => main' \in {"shutdown", "exited"}
               /\ errs'[i] = "canceled" /\ main' = "wait" => signalled'
    <3>1. CASE i \in 1..Len(errs)
      BY <1>1, <1>3, <3>1 DEF Good, ProcessInv, ErrorsInStep
    <3>2. CASE i \notin 1..Len(errs)
      BY <1>3, <3>2 DEF SentByPoller
    <3> QED BY <3>1, <3>2
  <2>2. Len(errs') <= (IF poller' = "ended" THEN 1 ELSE 0) + (IF serving' THEN 0 ELSE 1)
    BY <1>1, <1>3, <1>4
  <2> QED BY <1>1, <2>1, <2>2 DEF Good, ProcessInv, ErrorsInStep
<1> QED BY <1>1, <1>5, <1>6, <1>7 DEF Good, ProcessInv, MainInStep, ClosedLast, StatusTells,
                                      OnlyClientsDelay

----------------------------------------------------------------------------
(* The main goroutine *)

(* Before the goroutines run there is nothing to hold. *)
LEMMA StartGood ==
    ASSUME Good, Load \/ Listen PROVE Good'
<1>1. /\ main \in {"load", "listen"} /\ errs = <<>> /\ firstErr = "none" /\ poller = "off"
      /\ ~serving /\ ~late /\ \A r \in Request : request[r] = "none"
  BY DEF Load, Listen, Good, ProcessInv, MainInStep
<1>2. UNCHANGED <<signalled, cancelled, errs, firstErr, request, late>>
  BY DEF Load, Listen
<1>3. Len(errs) = 0 /\ 1..Len(errs) = {}
  BY <1>1
<1>4. \/ main' = "listen" /\ UNCHANGED <<poller, serving, status>> /\ database' \in BOOLEAN
      \/ main' = "wait" /\ poller' = "initialize" /\ serving' = TRUE /\ UNCHANGED <<database, status>>
      \/ /\ main' = "exited" /\ status' = "error" /\ database' = FALSE
         /\ UNCHANGED <<poller, serving>>
  BY DEF Load, Listen, Exit
<1>5. cancelled = signalled /\ status \in {"none", "ok", "error", "killed"} /\ status # "ok"
  BY <1>1 DEF Good, TypeOK, ProcessInv, MainInStep
<1>6. TypeOK'
  BY <1>2, <1>4, <1>5 DEF Good, TypeOK, MainState, PollerPoint
<1>7. ErrorsInStep'
  <2>1. Len(errs') <= (IF poller' = "ended" THEN 1 ELSE 0) + (IF serving' THEN 0 ELSE 1)
    BY <1>2, <1>3
  <2> QED BY <1>1, <1>2, <1>3, <2>1 DEF ErrorsInStep, SentByPoller, ErrorKind
<1>8. MainInStep'
  BY <1>1, <1>2, <1>4, <1>5 DEF Good, ProcessInv, MainInStep
<1>9. ClosedLast' /\ StatusTells' /\ OnlyClientsDelay'
  BY <1>1, <1>2, <1>4, <1>5 DEF ClosedLast, StatusTells, OnlyClientsDelay
<1> QED BY <1>6, <1>7, <1>8, <1>9 DEF Good, ProcessInv

LEMMA TakeFirstGood ==
    ASSUME Good, TakeFirst PROVE Good'
<1>1. /\ main = "wait" /\ errs # <<>> /\ main' = "stop"
      /\ firstErr' = Head(errs) /\ errs' = Tail(errs)
      /\ UNCHANGED <<signalled, cancelled, poller, serving, request, late, database, status>>
  BY DEF TakeFirst
<1>2. /\ errs' \in Seq(ErrorKind)
      /\ Len(errs') = Len(errs) - 1 /\ Len(errs) \in Nat /\ Len(errs) >= 1
      /\ firstErr' = errs[1] /\ errs[1] \in ErrorKind
      /\ \A i \in 1..Len(errs') : errs'[i] = errs[i + 1] /\ i + 1 \in 1..Len(errs)
  BY <1>1, TailIs DEF Good, TypeOK
<1>3. 1 \in 1..Len(errs)
  BY <1>2
<1>4. TypeOK'
  <2>1. Len(errs') <= 2
    BY <1>2 DEF Good, TypeOK
  <2> QED BY <1>1, <1>2, <2>1 DEF Good, TypeOK, MainState
<1>5. ErrorsInStep'
  <2>1. Len(errs') <= (IF poller' = "ended" THEN 1 ELSE 0) + (IF serving' THEN 0 ELSE 1)
    BY <1>1, <1>2 DEF Good, ProcessInv, ErrorsInStep
  <2>2. firstErr' # "closed"
    BY <1>1, <1>2, <1>3 DEF Good, ProcessInv, ErrorsInStep
  <2>3. firstErr' \in SentByPoller => poller' = "ended"
    BY <1>1, <1>2, <1>3 DEF Good, ProcessInv, ErrorsInStep
  <2>4. firstErr' = "canceled" => signalled'
    BY <1>1, <1>2, <1>3 DEF Good, ProcessInv, ErrorsInStep
  <2>5. ASSUME NEW i \in 1..Len(errs')
        PROVE  /\ errs'[i] \in SentByPoller => poller' = "ended"
               /\ errs'[i] = "closed" => main' \in {"shutdown", "exited"}
               /\ errs'[i] = "canceled" /\ main' = "wait" => signalled'
    <3>1. errs'[i] = errs[i + 1] /\ i + 1 \in 1..Len(errs)
      BY <1>2
    <3> QED BY <1>1, <3>1 DEF Good, ProcessInv, ErrorsInStep
  <2> QED BY <1>1, <2>1, <2>2, <2>3, <2>4, <2>5 DEF ErrorsInStep, SentByPoller
<1>6. firstErr' # "none"
  BY <1>2 DEF ErrorKind
<1> QED BY <1>1, <1>4, <1>5, <1>6 DEF Good, ProcessInv, MainInStep, ClosedLast, StatusTells,
                                      OnlyClientsDelay

LEMMA ShutdownGood ==
    ASSUME Good, Shutdown PROVE Good'
<1>1. /\ main = "stop" /\ main' = "shutdown" /\ cancelled' = TRUE /\ serving' = FALSE
      /\ errs' = IF serving THEN Append(errs, "closed") ELSE errs
      /\ UNCHANGED <<signalled, poller, firstErr, request, late, database, status>>
  BY DEF Shutdown
<1>2. errs \in Seq(ErrorKind) /\ "closed" \in ErrorKind /\ Len(errs) \in Nat
  BY DEF Good, TypeOK, ErrorKind
<1>3. /\ errs' \in Seq(ErrorKind)
      /\ Len(errs') <= (IF poller' = "ended" THEN 1 ELSE 0) + 1
      /\ \A i \in 1..Len(errs') : (i \in 1..Len(errs) /\ errs'[i] = errs[i]) \/ errs'[i] = "closed"
  <2>1. Len(errs) <= (IF poller = "ended" THEN 1 ELSE 0) + (IF serving THEN 0 ELSE 1)
    BY DEF Good, ProcessInv, ErrorsInStep
  <2>2. CASE serving
    <3>1. /\ errs' \in Seq(ErrorKind) /\ Len(errs') = Len(errs) + 1
          /\ \A i \in 1..Len(errs') :
                IF i \in 1..Len(errs) THEN errs'[i] = errs[i] ELSE errs'[i] = "closed"
      BY <1>1, <1>2, <2>2, AppendIs
    <3> QED BY <1>1, <1>2, <2>1, <2>2, <3>1
  <2>3. CASE ~serving
    BY <1>1, <1>2, <2>1, <2>3
  <2> QED BY <2>2, <2>3
<1>4. TypeOK'
  <2>1. Len(errs') <= 2
    BY <1>2, <1>3 DEF Good, TypeOK
  <2> QED BY <1>1, <1>3, <2>1 DEF Good, TypeOK, MainState
<1>5. ErrorsInStep'
  <2>1. ASSUME NEW i \in 1..Len(errs')
        PROVE  /\ errs'[i] \in SentByPoller => poller' = "ended"
               /\ errs'[i] = "closed" => main' \in {"shutdown", "exited"}
               /\ errs'[i] = "canceled" /\ main' = "wait" => signalled'
    BY <1>1, <1>3 DEF Good, ProcessInv, ErrorsInStep, SentByPoller
  <2>2. Len(errs') <= (IF poller' = "ended" THEN 1 ELSE 0) + (IF serving' THEN 0 ELSE 1)
    BY <1>1, <1>3
  <2> QED BY <1>1, <2>1, <2>2 DEF Good, ProcessInv, ErrorsInStep
<1> QED BY <1>1, <1>4, <1>5 DEF Good, ProcessInv, MainInStep, ClosedLast, StatusTells,
                                OnlyClientsDelay

LEMMA CloseIdleGood ==
    ASSUME Good, CloseIdle PROVE Good'
<1>1. /\ main = "shutdown"
      /\ request' = [r \in Request |-> IF request[r] = "none" THEN "closed" ELSE request[r]]
      /\ UNCHANGED <<main, signalled, cancelled, firstErr, late, database, status, poller,
                     serving, errs>>
  BY DEF CloseIdle, mainVars
<1>2. request' \in [Request -> RequestState]
  BY <1>1 DEF Good, TypeOK, RequestState
<1>3. ~late
  BY <1>1 DEF Good, ProcessInv, MainInStep
<1> QED BY <1>1, <1>2, <1>3 DEF Good, TypeOK, ProcessInv, ErrorsInStep, MainInStep, ClosedLast,
                                StatusTells, OnlyClientsDelay

(* What serve returns after. *)
LEMMA ShutdownEndsGood ==
    ASSUME Good, ShutdownDone \/ ShutdownTimesOut PROVE Good'
<1>1. /\ main = "shutdown" /\ main' = "exited" /\ database' = FALSE
      /\ UNCHANGED <<signalled, cancelled, poller, serving, errs, firstErr, request>>
  BY DEF ShutdownDone, ShutdownTimesOut, Exit
<1>2. firstErr \in ErrorKind /\ firstErr # "closed" /\ cancelled /\ ~serving /\ ~late
  BY <1>1 DEF Good, TypeOK, ProcessInv, ErrorsInStep, MainInStep
<1>3. firstErr = "listener" \/ poller = "ended"
  BY <1>2 DEF Good, ProcessInv, ErrorsInStep, SentByPoller
<1>4. /\ status' \in {"ok", "error"} /\ late' \in BOOLEAN
      /\ \A r \in Request : request[r] # "store"
      /\ status' = "ok" => firstErr = "canceled" /\ ~late'
      /\ late' => /\ \A r \in Request : request[r] \in FromClient \cup {"closed"}
                  /\ \E r \in Request : request[r] \in FromClient
  <2>1. CASE ShutdownDone
    <3>1. status' = Verdict(firstErr) /\ late' = late /\ \A r \in Request : request[r] = "closed"
      BY <2>1 DEF ShutdownDone, Exit
    <3>2. Verdict(firstErr) \in {"ok", "error"} /\ (Verdict(firstErr) = "ok" => firstErr = "canceled")
      BY <1>2 DEF Verdict
    <3>3. late \in BOOLEAN
      BY DEF Good, TypeOK
    <3> QED BY <1>2, <3>1, <3>2, <3>3
  <2>2. CASE ShutdownTimesOut
    <3>1. status' = "error" /\ late' = TRUE
      BY <2>2 DEF ShutdownTimesOut, Exit
    <3>2. \A r \in Request : Slow(r) => request[r] \in FromClient
      BY <1>2 DEF Slow, Interrupted
    <3>3. \A r \in Request : request[r] = "closed" \/ Slow(r)
      BY <2>2 DEF ShutdownTimesOut
    <3>4. \E r \in Request : Slow(r)
      BY <2>2 DEF ShutdownTimesOut
    <3>5. "store" \notin FromClient
      BY DEF FromClient
    <3> QED BY <3>1, <3>2, <3>3, <3>4, <3>5
  <2> QED BY <2>1, <2>2
<1>5. firstErr = "canceled" => signalled
  BY DEF Good, ProcessInv, ErrorsInStep
<1>6. TypeOK'
  BY <1>1, <1>4 DEF Good, TypeOK, MainState
<1>7. ErrorsInStep' /\ MainInStep'
  BY <1>1, <1>2 DEF Good, ProcessInv, ErrorsInStep, MainInStep
<1>8. ClosedLast' /\ StatusTells' /\ OnlyClientsDelay'
  BY <1>1, <1>3, <1>4, <1>5 DEF ClosedLast, StatusTells, OnlyClientsDelay
<1> QED BY <1>6, <1>7, <1>8 DEF Good, ProcessInv

----------------------------------------------------------------------------
(* The environment *)

LEMMA SignalGood ==
    ASSUME Good, Signal PROVE Good'
<1>1. /\ main \in {"listen", "wait", "stop"} /\ signalled' = TRUE /\ cancelled' = TRUE
      /\ UNCHANGED <<main, firstErr, late, database, status, poller, serving, errs, request>>
  BY DEF Signal
<1> QED BY <1>1 DEF Good, TypeOK, ProcessInv, ErrorsInStep, MainInStep, ClosedLast, StatusTells,
                    OnlyClientsDelay

LEMMA FreshGood ==
    ASSUME Kill \/ Restart PROVE Good'
<1>1. /\ cancelled' = FALSE /\ poller' = "off" /\ serving' = FALSE
      /\ errs' = <<>> /\ firstErr' = "none"
      /\ request' = [r \in Request |-> "none"] /\ late' = FALSE /\ database' = FALSE
  BY DEF Kill, Restart, Fresh
<1>2. \/ main' = "exited" /\ status' = "killed" /\ signalled' = TRUE
      \/ main' = "load" /\ status' = "none" /\ signalled' = FALSE
  BY DEF Kill, Restart
<1>3. errs' \in Seq(ErrorKind) /\ Len(errs') = 0 /\ 1..Len(errs') = {}
  BY <1>1
<1>4. request' \in [Request -> RequestState]
  BY <1>1 DEF RequestState
<1>5. main' \in MainState /\ poller' \in PollerPoint
  BY <1>1, <1>2 DEF MainState, PollerPoint
<1>6. TypeOK'
  <2>1. Len(errs') <= 2
    BY <1>3
  <2>2. signalled' \in BOOLEAN /\ status' \in {"none", "ok", "error", "killed"}
    BY <1>2
  <2> QED BY <1>1, <1>3, <1>4, <1>5, <2>1, <2>2, Zenon DEF TypeOK
<1>7. ErrorsInStep'
  <2>1. Len(errs') <= (IF poller' = "ended" THEN 1 ELSE 0) + (IF serving' THEN 0 ELSE 1)
    BY <1>1, <1>3
  <2> QED BY <1>1, <1>3, <2>1 DEF ErrorsInStep, SentByPoller, ErrorKind
<1>8. MainInStep' /\ ClosedLast' /\ StatusTells' /\ OnlyClientsDelay'
  BY <1>1, <1>2 DEF MainInStep, ClosedLast, StatusTells, OnlyClientsDelay
<1> QED BY <1>6, <1>7, <1>8 DEF Good, ProcessInv

----------------------------------------------------------------------------

LEMMA NextGood ==
    ASSUME Good, [Next]_vars PROVE Good'
<1>1. CASE MainStep
  BY <1>1, StartGood, TakeFirstGood, ShutdownGood, CloseIdleGood, ShutdownEndsGood DEF MainStep
<1>2. CASE PollerStep
  BY <1>2, PollerStepGood
<1>3. CASE AcceptFails
  BY <1>3, AcceptFailsGood
<1>4. CASE \E r \in Request : RequestStep(r)
  BY <1>4, RequestStepGood
<1>5. CASE Signal
  BY <1>5, SignalGood
<1>6. CASE Kill \/ Restart
  BY <1>6, FreshGood
<1>7. CASE UNCHANGED vars
  BY <1>7 DEF vars, Good, TypeOK, ProcessInv, ErrorsInStep, MainInStep, ClosedLast, StatusTells,
              OnlyClientsDelay
<1> QED BY <1>1, <1>2, <1>3, <1>4, <1>5, <1>6, <1>7 DEF Next

LEMMA AlwaysGood == Spec => []Good
<1>1. Init => Good
  BY InitGood
<1>2. Good /\ [Next]_vars => Good'
  BY NextGood
<1> QED BY <1>1, <1>2, PTL DEF Spec

(* Each goroutine sends its error once, so neither ever blocks on the      *)
(* channel serve leaves behind (main.go, errorsChannel).                   *)
THEOREM ProcessWellTyped == Spec => []TypeOK
<1>1. Good => TypeOK
  BY DEF Good
<1> QED BY <1>1, AlwaysGood, PTL

(* What is where at each point of serve: the poller's error means that it  *)
(* has ended, and a cancellation comes first only after a signal.          *)
THEOREM ProcessKeepsStep == Spec => []ProcessInv
<1>1. Good => ProcessInv
  BY DEF Good
<1> QED BY <1>1, AlwaysGood, PTL

(* serve closes the store when no request and, but for a lost listener, no *)
(* poller uses it any more.                                                *)
THEOREM ClosesLast == Spec => []ClosedLast
<1>1. Good => ClosedLast
  BY DEF Good
<1> QED BY <1>1, AlwaysGood, PTL

(* Exit status 0 is only ever the answer to a signal: the poller ended     *)
(* first and because of it, and no request was abandoned.                  *)
THEOREM StatusIsHonest == Spec => []StatusTells
<1>1. Good => StatusTells
  BY DEF Good
<1> QED BY <1>1, AlwaysGood, PTL

(* Whenever the shutdown uses up its deadline, everything still open waits *)
(* for its client: long polls, transactions and calls to Telegram have     *)
(* ended, for any number of connections.                                   *)
THEOREM OnlyClientsHoldUp == Spec => []OnlyClientsDelay
<1>1. Good => OnlyClientsDelay
  BY DEF Good
<1> QED BY <1>1, AlwaysGood, PTL
=============================================================================
