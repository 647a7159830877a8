----------------------------- MODULE Lifecycle -----------------------------
(***************************************************************************)
(* The process telegram-bot-mux serve from its start to its exit           *)
(* (cmd/telegram-bot-mux/main.go): the main goroutine, the poller's and    *)
(* the HTTP server's, the requests, SIGTERM and the shutdown deadline.     *)
(*                                                                         *)
(* One context connects them.  A signal cancels it, and so does stop once  *)
(* the first goroutine has ended; the poller and, through BaseContext,     *)
(* every request run under it.  What cancellation interrupts ends at once, *)
(* far inside the ten seconds of the deadline.  It does not interrupt a    *)
(* read from a client or a write to one, and the server limits only how    *)
(* long the header of a request may take (newHTTPServer).                  *)
(*                                                                         *)
(* A request is followed by what its handler, or net/http for it, is       *)
(* waiting for; what it says and what it gets is the subject of Mux and    *)
(* Gateway.  A connection carries one request after another.               *)
(***************************************************************************)
EXTENDS Naturals, Sequences

CONSTANT Request \* the connections the server may have at once

VARIABLES
    main,      \* where the main goroutine is
    signalled, \* SIGINT or SIGTERM came
    cancelled, \* the context is cancelled
    poller,    \* where Poller.Run is
    serving,   \* http.Server.Serve accepts connections
    errs,      \* errorsChannel
    firstErr,  \* the first error received from it
    request,   \* what the request on each connection does
    late,      \* Shutdown gave up at its deadline
    database,  \* the database is open
    status     \* the exit status

vars == <<main, signalled, cancelled, poller, serving, errs, firstErr, request, late,
          database, status>>

MainState   == {"load", "listen", "wait", "stop", "shutdown", "exited"}
PollerPoint == {"off", "initialize", "loop", "poll", "ingest", "sleep", "ended"}

(* Waiting for the client: the rest of the "header", the "body" a handler  *)
(* reads, the "upload" it passes on to Telegram, a body nobody reads that  *)
(* net/http has to "drain" before it answers, and the "write" of an answer.*)
(* Waiting for the program or for Telegram: in the "store", in a long poll *)
(* ("wait"), for Telegram's answer ("proxy").  "none": no request, or no   *)
(* connection yet; "closed": the last connection there will be is gone.    *)
FromClient   == {"header", "body", "upload", "drain", "write"}
RequestState == {"none", "store", "wait", "proxy", "closed"} \cup FromClient

(* "canceled" is what errors.Is recognises as context.Canceled.  Redacting *)
(* an error (Client.redact) and rolling back behind the back of Commit     *)
(* (sql.ErrTxDone) hide that the cause was the cancellation.               *)
ErrorKind == {"canceled", "redacted", "txdone", "failed", "listener", "closed"}

mainVars    == <<main, signalled, cancelled, firstErr, late, database, status>>

----------------------------------------------------------------------------
(* The poller *)

(* Faulty: the error is sent and the loop goes on. *)
FaultyReturn(e) == poller' = "loop" /\ errs' = Append(errs, e)

(* Run returns, and its goroutine sends the error. *)
Return(e) == poller' = "ended" /\ errs' = Append(errs, e)

Goto(point) == poller' = point /\ UNCHANGED errs

(* deleteWebhook fails, its error redacted, or the offset cannot be read. *)
Initialize ==
    /\ poller = "initialize"
    /\ \/ Goto("loop")
       \/ Return("failed")
       \/ cancelled /\ (Return("redacted") \/ Return("canceled"))

Loop ==
    /\ poller = "loop"
    /\ IF cancelled THEN Return("canceled") ELSE Goto("poll")

(* An answer with updates, without any, a failure that is retried, or a    *)
(* fatal one (401, 403).                                                   *)
Poll ==
    /\ poller = "poll"
    /\ Goto("ingest") \/ Goto("loop") \/ Goto("sleep") \/ Return("failed")

(* Stored, backlog full, or an error that ends the poller. *)
Ingest ==
    /\ poller = "ingest"
    /\ \/ Goto("loop") \/ Goto("sleep")
       \/ Return("failed")
       \/ cancelled /\ (Return("canceled") \/ Return("txdone"))

Sleep ==
    /\ poller = "sleep"
    /\ Goto("loop") \/ (cancelled /\ Return("canceled"))

PollerStep ==
    /\ Initialize \/ Loop \/ Poll \/ Ingest \/ Sleep
    /\ main # "exited"
    /\ UNCHANGED <<mainVars, serving, request>>

----------------------------------------------------------------------------
(* The HTTP server *)

(* Serve cannot accept any more. *)
AcceptFails ==
    /\ serving
    /\ serving' = FALSE
    /\ errs' = Append(errs, "listener")
    /\ UNCHANGED <<mainVars, poller, request>>

(* The first byte of a request.  Connections that are open carry requests  *)
(* until Shutdown closes them, whether Serve still accepts or not.         *)
Begin(r) ==
    /\ main \in {"wait", "stop", "shutdown"}
    /\ request[r] = "none"
    /\ request' = [request EXCEPT ![r] = "header"]
    /\ UNCHANGED <<mainVars, poller, serving, errs>>

(* What a request does next, on its own or when the client goes on.  Some  *)
(* are answered without a look at the body, and Telegram may answer before *)
(* it has read all of an upload.                                           *)
NextState == [none   |-> {},
              header |-> {"body", "store", "upload", "proxy", "drain"},
              body   |-> {"store", "drain"},
              store  |-> {"wait", "drain", "write"},
              wait   |-> {"store", "write"},
              upload |-> {"proxy", "drain"},
              proxy  |-> {"upload", "drain", "write"},
              drain  |-> {"write"},
              write  |-> {"none"},
              closed |-> {}]

(* The connection is kept for another request, but not during Shutdown.    *)
Released == IF main = "shutdown" THEN "closed" ELSE "none"

Proceed(r) ==
    /\ main # "exited"
    /\ \E s \in NextState[request[r]] :
          /\ request[r] = "proxy" /\ s = "upload" => ~cancelled
          /\ request' = [request EXCEPT ![r] = IF s = "none" THEN Released ELSE s]
    /\ UNCHANGED <<mainVars, poller, serving, errs>>

(* The client closes its connection, or its header took too long.  Another *)
(* connection can take its place while Serve accepts.                      *)
ClientGone(r) ==
    /\ main # "exited"
    /\ request[r] \notin {"none", "closed"}
    /\ request' = [request EXCEPT ![r] = IF serving THEN "none" ELSE "closed"]
    /\ UNCHANGED <<mainVars, poller, serving, errs>>

(* Faulty: requests have contexts of their own. *)
FaultyInterrupted(r) == FALSE

(* BaseContext: the request's context is a child of the one cancelled. *)
Interrupted(r) == cancelled /\ request[r] \in {"store", "wait", "proxy"}

(* The handler returns: a cancelled getUpdates without an answer, so that  *)
(* net/http writes an empty one, a cancelled call to Telegram with a 502.  *)
CutOff(r) ==
    /\ main # "exited"
    /\ Interrupted(r)
    /\ \E s \in {"drain", "write"} : request' = [request EXCEPT ![r] = s]
    /\ UNCHANGED <<mainVars, poller, serving, errs>>

----------------------------------------------------------------------------
(* The main goroutine *)

(* serve returns: the deferred calls close the listener and the store, and *)
(* main exits with 0 or 1.                                                 *)
Exit(s) == main' = "exited" /\ status' = s /\ database' = FALSE

(* loadRuntime: configuration, credentials, store *)
Load ==
    /\ main = "load"
    /\ \/ main' = "listen" /\ database' = TRUE /\ UNCHANGED status
       \/ Exit("error")
    /\ UNCHANGED <<signalled, cancelled, poller, serving, errs, firstErr, request, late>>

(* Signals are captured from here on; the goroutines start. *)
Listen ==
    /\ main = "listen"
    /\ \/ /\ main' = "wait" /\ poller' = "initialize" /\ serving' = TRUE
          /\ UNCHANGED <<database, status>>
       \/ Exit("error") /\ UNCHANGED <<poller, serving>>
    /\ UNCHANGED <<signalled, cancelled, errs, firstErr, request, late>>

TakeFirst ==
    /\ main = "wait"
    /\ errs # <<>>
    /\ firstErr' = Head(errs)
    /\ errs' = Tail(errs)
    /\ main' = "stop"
    /\ UNCHANGED <<signalled, cancelled, poller, serving, request, late, database, status>>

(* stop, and the begin of Shutdown: Serve returns ErrServerClosed. *)
Shutdown ==
    /\ main = "stop"
    /\ main' = "shutdown"
    /\ cancelled' = TRUE
    /\ serving' = FALSE
    /\ errs' = IF serving THEN Append(errs, "closed") ELSE errs
    /\ UNCHANGED <<signalled, poller, firstErr, request, late, database, status>>

(* Faulty: every error of the poller counts as a clean end. *)
FaultyVerdict(e) == IF e = "listener" THEN "error" ELSE "ok"

Verdict(e) == IF e \in {"canceled", "closed"} THEN "ok" ELSE "error"

(* Shutdown closes the connections without a request. *)
CloseIdle ==
    /\ main = "shutdown"
    /\ \E r \in Request : request[r] = "none"
    /\ request' = [r \in Request |-> IF request[r] = "none" THEN "closed" ELSE request[r]]
    /\ UNCHANGED <<mainVars, poller, serving, errs>>

(* Faulty: requests are not waited for. *)
FaultyShutdownDone ==
    /\ main = "shutdown"
    /\ Exit(Verdict(firstErr))
    /\ UNCHANGED <<signalled, cancelled, poller, serving, errs, firstErr, request, late>>

ShutdownDone ==
    /\ main = "shutdown"
    /\ \A r \in Request : request[r] = "closed"
    /\ Exit(Verdict(firstErr))
    /\ UNCHANGED <<signalled, cancelled, poller, serving, errs, firstErr, request, late>>

(* A request that may take longer than the deadline. *)
Slow(r) == request[r] \in {"wait", "proxy"} \cup FromClient /\ ~Interrupted(r)

(* Faulty: there is no deadline. *)
FaultyShutdownTimesOut == FALSE /\ UNCHANGED vars

(* The deadline passes; requests that are fast have ended long before. *)
ShutdownTimesOut ==
    /\ main = "shutdown"
    /\ \E r \in Request : Slow(r)
    /\ \A r \in Request : request[r] = "closed" \/ Slow(r)
    /\ late' = TRUE
    /\ Exit("error")
    /\ UNCHANGED <<signalled, cancelled, poller, serving, errs, firstErr, request>>

MainStep ==
    Load \/ Listen \/ TakeFirst \/ Shutdown \/ CloseIdle \/ ShutdownDone \/ ShutdownTimesOut

----------------------------------------------------------------------------
(* The environment *)

(* A signal while NotifyContext captures it. *)
Signal ==
    /\ main \in {"listen", "wait", "stop"}
    /\ signalled' = TRUE
    /\ cancelled' = TRUE
    /\ UNCHANGED <<main, firstErr, late, database, status, poller, serving, errs, request>>

(* Nothing of the process is left. *)
Fresh ==
    /\ cancelled' = FALSE
    /\ poller' = "off" /\ serving' = FALSE
    /\ errs' = <<>> /\ firstErr' = "none"
    /\ request' = [r \in Request |-> "none"]
    /\ late' = FALSE /\ database' = FALSE

(* Before and after that a signal kills the process, a second one that     *)
(* comes during the shutdown included.                                     *)
Kill ==
    /\ main \in {"load", "shutdown"}
    /\ main' = "exited" /\ status' = "killed" /\ signalled' = TRUE
    /\ Fresh

(* The supervisor starts the process again. *)
Restart ==
    /\ main = "exited"
    /\ main' = "load" /\ status' = "none" /\ signalled' = FALSE
    /\ Fresh

----------------------------------------------------------------------------

Init ==
    /\ main = "load" /\ signalled = FALSE /\ cancelled = FALSE
    /\ poller = "off" /\ serving = FALSE
    /\ errs = <<>> /\ firstErr = "none"
    /\ request = [r \in Request |-> "none"]
    /\ late = FALSE /\ database = FALSE /\ status = "none"

RequestStep(r) == Begin(r) \/ Proceed(r) \/ ClientGone(r) \/ CutOff(r)

Next ==
    \/ MainStep \/ PollerStep \/ AcceptFails
    \/ \E r \in Request : RequestStep(r)
    \/ Signal \/ Kill \/ Restart

Spec == Init /\ [][Next]_vars

(* Every goroutine goes on, timers and deadlines expire, and what the      *)
(* context cancels returns.  Nothing is assumed of the clients, of         *)
(* Telegram's answers to the proxy, or of signals and restarts.            *)
Fairness ==
    /\ WF_vars(MainStep)
    /\ WF_vars(PollerStep)
    /\ \A r \in Request : WF_vars(CutOff(r))

FairSpec == Spec /\ Fairness

----------------------------------------------------------------------------
(* Properties *)

(* Every variable has its type.  Both goroutines send once, so neither     *)
(* blocks on errorsChannel, whose buffer holds two.                        *)
TypeOK ==
    /\ main \in MainState
    /\ signalled \in BOOLEAN /\ cancelled \in BOOLEAN
    /\ poller \in PollerPoint
    /\ serving \in BOOLEAN
    /\ errs \in Seq(ErrorKind) /\ Len(errs) <= 2
    /\ firstErr \in ErrorKind \cup {"none"}
    /\ request \in [Request -> RequestState]
    /\ late \in BOOLEAN /\ database \in BOOLEAN
    /\ status \in {"none", "ok", "error", "killed"}

(* The database is closed behind everyone who uses it: when serve has      *)
(* returned, no request is in the store, and the poller has ended, unless  *)
(* it was the listener that ended the process.                             *)
ClosedLast ==
    main = "exited" =>
        /\ ~database
        /\ \A r \in Request : request[r] # "store"
        /\ poller \in {"off", "ended"} \/ firstErr = "listener"

(* Exit status 0 means that the process was told to stop, that the first   *)
(* thing to end was the poller because of it, and that no request was      *)
(* abandoned: a fatal answer of Telegram, a failed ingest or a lost        *)
(* listener that ended the process reaches the supervisor as a failure.    *)
(* What is sent second nobody receives (serve).                            *)
StatusTells ==
    status = "ok" => signalled /\ firstErr = "canceled" /\ ~late

(* Only clients delay the exit until the deadline, by withholding a header *)
(* or a body or by not reading an answer: no long poll, no transaction and *)
(* no call to Telegram does, however long it had to go.                    *)
OnlyClientsDelay ==
    late => /\ \A r \in Request : request[r] \in FromClient \cup {"closed"}
            /\ \E r \in Request : request[r] \in FromClient

(* The inductive invariant: which errors can be where, and what is still   *)
(* running, at each point of the main goroutine.                           *)
SentByPoller == ErrorKind \ {"listener", "closed"}

ErrorsInStep ==
    /\ Len(errs) <= (IF poller = "ended" THEN 1 ELSE 0) + (IF serving THEN 0 ELSE 1)
    /\ \A i \in 1..Len(errs) :
          /\ errs[i] \in SentByPoller => poller = "ended"
          /\ errs[i] = "closed" => main \in {"shutdown", "exited"}
          /\ errs[i] = "canceled" /\ main = "wait" => signalled
    /\ firstErr # "closed"
    /\ firstErr \in SentByPoller => poller = "ended"
    /\ firstErr = "canceled" => signalled

MainInStep ==
    /\ main \in {"load", "listen"} =>
          /\ errs = <<>> /\ firstErr = "none" /\ poller = "off" /\ ~serving
          /\ \A r \in Request : request[r] = "none"
    /\ main \in {"load", "listen", "wait", "stop"} => cancelled = signalled
    /\ main \in {"stop", "shutdown"} => firstErr # "none"
    /\ main = "shutdown" => cancelled
    /\ main \in {"shutdown", "exited"} => ~serving
    /\ main # "exited" => ~late /\ status = "none"

ProcessInv == ErrorsInStep /\ MainInStep

(* A process that was told to stop, or one of whose goroutines has ended,  *)
(* exits.                                                                  *)
Exits == (signalled \/ poller = "ended" \/ firstErr # "none") ~> main = "exited"
=============================================================================
