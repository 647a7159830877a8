------------------------------- MODULE Gateway ------------------------------
(***************************************************************************)
(* What the server does with a request, and how it passes one on to        *)
(* Telegram (internal/server/server.go, internal/httpx/headers.go, and     *)
(* ForwardBot and ForwardFile of internal/telegram/client.go).             *)
(*                                                                         *)
(* A request is answered by the multiplexer itself or streamed to Telegram *)
(* over a connection of the pool and the answer streamed back.  Telegram   *)
(* executes a request when it arrives, whatever becomes of the answer.     *)
(* getUpdates is answered here; how is the subject of Mux.                 *)
(*                                                                         *)
(* A path is a sequence of parts [is, text]: "bot" is the part of a token; *)
(* the name of a method is in lower case, in another spelling, or no name; *)
(* other parts are words without characters that a URL escapes, or the     *)
(* special segments of a path.                                             *)
(***************************************************************************)
EXTENDS Naturals, Sequences, SequencesExt

CONSTANTS
    Request, \* the requests under way at once
    Secret,  \* clientToken: from the ids of the clients to their tokens
    Path,    \* the paths that bots ask for
    Header,  \* the headers they may set
    MaxIdle  \* the idle connections the transport keeps

Part == [is : STRING, text : STRING]

ASSUME GatewayAssumption == MaxIdle \in Nat /\ Path # {} /\ Path \subseteq Seq(Part)

VARIABLES
    call,   \* what each request asks for
    state,  \* where it is
    reused, \* it was written to a connection that had served another
    runs,   \* history: how often Telegram executed it: 0, 1, or 2 for more than once
    answer, \* what its bot has got
    gone,   \* its bot has closed its connection
    idle    \* the idle connections of the transport

vars == <<call, state, reused, runs, answer, gone, idle>>

Call == [path : Path, verb : {"GET", "POST", "HEAD", "PUT"}, body : BOOLEAN,
         headers : SUBSET Header]

----------------------------------------------------------------------------
(* What is asked for *)

Word(text) == [is |-> "word", text |-> text]

(* parseClientPath *)
IsBotPath(p) == Len(p) = 4 /\ p[1] = Word("client") /\ p[3].is = "bot"
IsFilePath(p) == Len(p) >= 5 /\ p[1] = Word("client") /\ p[3] = Word("file") /\ p[4].is = "bot"

TokenOf(p) == IF IsBotPath(p) THEN p[3].text ELSE p[4].text
FileOf(p) == SubSeq(p, 5, Len(p))

(* Faulty: the token of any client will do. *)
FaultyAuthenticate(id, token) == \E c \in DOMAIN Secret : Secret[c] = token

Authenticate(id, token) == id \in DOMAIN Secret /\ Secret[id] = token

Management == {"getupdates", "setwebhook", "deletewebhook", "getwebhookinfo"}

(* Faulty: names are compared as they are spelled. *)
FaultyOwnMethod(m) == m.is = "lower" /\ m.text \in Management

(* strings.ToLower *)
OwnMethod(m) == m.text \in Management

(* ForwardFile: the segments it refuses. *)
FileAllowed(f) == \A i \in DOMAIN f : f[i].is \notin {"empty", "dot", "dotdot"}

(* path.Clean of a rooted path, segment by segment *)
Walk(kept, s) ==
    CASE s.is \in {"empty", "dot"}            -> kept
      [] s.is = "dotdot" /\ kept = <<>>       -> kept
      [] s.is = "dotdot" /\ kept # <<>>       -> Front(kept)
      [] s.is \notin {"empty", "dot", "dotdot"} -> Append(kept, s)

Clean(f) == FoldLeft(Walk, <<>>, f)

(* ServeHTTP, handleBot, proxyBot, handleFile, ForwardFile: what becomes   *)
(* of a request before a connection is used.                               *)
DispatchBot(c) ==
    LET m == c.path[4] IN
    IF m.is = "invalid" THEN "bad request"
    ELSE IF OwnMethod(m) THEN "own"
    ELSE IF c.verb \in {"GET", "POST"} THEN "forward" ELSE "not allowed"

DispatchFile(c) ==
    IF c.verb \notin {"GET", "HEAD"} THEN "not allowed"
    ELSE IF FileAllowed(FileOf(c.path)) THEN "forward" ELSE "bad gateway"

Dispatch(c) ==
    IF c.path \in {<<Word("healthz")>>, <<Word("readyz")>>} THEN "own"
    ELSE IF ~IsBotPath(c.path) /\ ~IsFilePath(c.path) THEN "not found"
    ELSE IF ~Authenticate(c.path[2].text, TokenOf(c.path)) THEN "unauthorized"
    ELSE IF IsBotPath(c.path) THEN DispatchBot(c) ELSE DispatchFile(c)

(* CopyEndToEndHeaders *)
HopByHop == {"connection", "proxy-connection", "keep-alive", "proxy-authenticate",
             "proxy-authorization", "te", "trailer", "transfer-encoding", "upgrade"}
EndToEnd(headers) == headers \ (HopByHop \cup {"host"})

----------------------------------------------------------------------------

Receive(r) ==
    /\ state[r] = "idle"
    /\ \E c \in Call :
          /\ call' = [call EXCEPT ![r] = c]
          /\ IF Dispatch(c) = "forward"
             THEN state' = [state EXCEPT ![r] = "forward"] /\ UNCHANGED answer
             ELSE /\ state' = [state EXCEPT ![r] = "done"]
                  /\ answer' = [answer EXCEPT ![r] = Dispatch(c)]
    /\ UNCHANGED <<reused, runs, gone, idle>>

(* The transport takes an idle connection when it has one. *)
Send(r) ==
    /\ state[r] = "forward"
    /\ state' = [state EXCEPT ![r] = "sent"]
    /\ reused' = [reused EXCEPT ![r] = idle > 0]
    /\ idle' = IF idle > 0 THEN idle - 1 ELSE idle
    /\ UNCHANGED <<call, runs, answer, gone>>

(* Telegram receives and executes it. *)
Execute(r) ==
    /\ state[r] = "sent"
    /\ state' = [state EXCEPT ![r] = "executed"]
    /\ runs' = [runs EXCEPT ![r] = IF @ = 0 THEN 1 ELSE 2]
    /\ UNCHANGED <<call, reused, answer, gone, idle>>

(* ForwardFile passes no body on, whatever the bot sent. *)
WithoutBody(c) == ~c.body \/ IsFilePath(c.path)

IdempotencyKeys == {"idempotency-key", "x-idempotency-key"}

(* What http.Transport may repeat: a request without a body whose method   *)
(* or header says so.                                                      *)
Replayable(c) ==
    /\ WithoutBody(c)
    /\ c.verb \in {"GET", "HEAD"} \/ EndToEnd(c.headers) \cap IdempotencyKeys # {}

(* When the connection it was reusing breaks before the first byte of an   *)
(* answer, http.Transport may send a request again on its own: one that is *)
(* replayable, whether it arrived or not, and any without a body of which  *)
(* nothing had been written.                                               *)
Resent(r) ==
    /\ reused[r]
    /\ Replayable(call[r]) \/ (state[r] = "sent" /\ WithoutBody(call[r]))

Fail(r) ==
    /\ state' = [state EXCEPT ![r] = "done"]
    /\ answer' = [answer EXCEPT ![r] = "bad gateway"]

(* Faulty: a request that failed is sent again, as the poller does. *)
FaultyUnanswered(r) == state' = [state EXCEPT ![r] = "forward"] /\ UNCHANGED answer

(* Faulty: the failure is logged and the handler returns. *)
FaultySilent(r) == state' = [state EXCEPT ![r] = "done"] /\ UNCHANGED answer

(* proxyBot, handleFile: Do returned an error. *)
Unanswered(r) == Fail(r)

Break(r) ==
    /\ state[r] \in {"sent", "executed"}
    /\ \/ Resent(r) /\ state' = [state EXCEPT ![r] = "forward"] /\ UNCHANGED answer
       \/ Unanswered(r)
    /\ UNCHANGED <<call, reused, runs, gone, idle>>

(* Telegram redirects, which the client refuses to follow. *)
Redirect(r) ==
    /\ state[r] = "sent"
    /\ Fail(r)
    /\ UNCHANGED <<call, reused, runs, gone, idle>>

(* The answer begins, of a length it declares or in chunks. *)
Answer(r) ==
    /\ state[r] = "executed"
    /\ \E framing \in {"declared", "chunked"} : state' = [state EXCEPT ![r] = framing]
    /\ UNCHANGED <<call, reused, runs, answer, gone, idle>>

Streaming(r) == state[r] \in {"declared", "chunked"}

StreamEnds(r) ==
    /\ Streaming(r)
    /\ state' = [state EXCEPT ![r] = "done"]
    /\ answer' = [answer EXCEPT ![r] = "whole"]
    /\ idle' = IF idle < MaxIdle THEN idle + 1 ELSE idle
    /\ UNCHANGED <<call, reused, runs, gone>>

(* io.Copy fails and the handler returns: net/http closes the bot's        *)
(* connection if less than the declared length was written, and ends an    *)
(* answer in chunks as if it were complete.                                *)
StreamBreaks(r) ==
    /\ Streaming(r)
    /\ call[r].verb # "HEAD"
    /\ state' = [state EXCEPT ![r] = "done"]
    /\ answer' = [answer EXCEPT ![r] = IF state[r] = "declared" THEN "broken" ELSE "cut"]
    /\ UNCHANGED <<call, reused, runs, gone, idle>>

BotGoes(r) ==
    /\ state[r] # "idle"
    /\ gone' = [gone EXCEPT ![r] = TRUE]
    /\ UNCHANGED <<call, state, reused, runs, answer, idle>>

(* Faulty: the call to Telegram has a context of its own. *)
FaultyCancel(r) == FALSE /\ UNCHANGED vars

(* The request's context ends the call to Telegram. *)
Cancel(r) ==
    /\ gone[r]
    /\ state[r] \in {"forward", "sent", "executed", "declared", "chunked"}
    /\ state' = [state EXCEPT ![r] = "done"]
    /\ UNCHANGED <<call, reused, runs, answer, gone, idle>>

(* The request is over. *)
Finish(r) ==
    /\ state[r] = "done"
    /\ state' = [state EXCEPT ![r] = "idle"]
    /\ reused' = [reused EXCEPT ![r] = FALSE]
    /\ runs' = [runs EXCEPT ![r] = 0]
    /\ answer' = [answer EXCEPT ![r] = "none"]
    /\ gone' = [gone EXCEPT ![r] = FALSE]
    /\ UNCHANGED <<call, idle>>

Init ==
    /\ call \in [Request -> {CHOOSE c \in Call : TRUE}]
    /\ state = [r \in Request |-> "idle"]
    /\ reused = [r \in Request |-> FALSE]
    /\ runs = [r \in Request |-> 0]
    /\ answer = [r \in Request |-> "none"]
    /\ gone = [r \in Request |-> FALSE]
    /\ idle = 0

Step(r) ==
    \/ Receive(r) \/ Send(r) \/ Execute(r) \/ Break(r) \/ Redirect(r) \/ Answer(r)
    \/ StreamEnds(r) \/ StreamBreaks(r) \/ BotGoes(r) \/ Cancel(r) \/ Finish(r)

Next == \E r \in Request : Step(r)

Spec == Init /\ [][Next]_vars

(* A cancelled call returns and a handler that is done returns.  Nothing   *)
(* is assumed of Telegram, of the connections to it or of the bots.        *)
FairSpec == Spec /\ \A r \in Request : WF_vars(Cancel(r)) /\ WF_vars(Finish(r))

----------------------------------------------------------------------------
(* Properties *)

(* Every variable has its type; a bot has its answer when, and only when,  *)
(* its request is over, unless it went away.                               *)
TypeOK ==
    /\ call \in [Request -> Call]
    /\ state \in [Request -> {"idle", "forward", "sent", "executed", "declared", "chunked", "done"}]
    /\ reused \in [Request -> BOOLEAN]
    /\ runs \in [Request -> 0..2]
    /\ answer \in [Request -> {"none", "own", "bad request", "not allowed", "bad gateway",
                               "not found", "unauthorized", "whole", "broken", "cut"}]
    /\ gone \in [Request -> BOOLEAN]
    /\ idle \in 0..MaxIdle
    /\ \A r \in Request : /\ answer[r] # "none" => state[r] = "done"
                          /\ state[r] = "done" => answer[r] # "none" \/ gone[r]

Executed(r) == runs[r] > 0

(* Nobody but the poller manages the bot's updates: getUpdates and the     *)
(* webhook methods, in any spelling and with any verb, never reach         *)
(* Telegram from a bot (ARCHITECTURE.md, Bot API proxy).                   *)
UpdatesStayOwned ==
    \A r \in Request :
        Executed(r) /\ IsBotPath(call[r].path) => call[r].path[4].text \notin Management

(* What Telegram executes was asked for with the token of the client that  *)
(* its path names, and a file is asked for under the very path the bot     *)
(* gave.                                                                   *)
OnlyAsked ==
    \A r \in Request : Executed(r) =>
        /\ call[r].path[2].text \in DOMAIN Secret
        /\ TokenOf(call[r].path) = Secret[call[r].path[2].text]
        /\ IsFilePath(call[r].path) => Clean(FileOf(call[r].path)) = FileOf(call[r].path)

(* A method that a bot sent with a body, or posted without either of the   *)
(* idempotency keys, is executed at most once, wherever the connections to *)
(* Telegram break: forward repeats nothing, and the transport under it     *)
(* only what Replayable says.  A method called with GET and without a body *)
(* is not protected, whatever side effects it has: it may be executed      *)
(* twice, although ARCHITECTURE.md says that methods are not retried.      *)
UnmarkedOnce ==
    \A r \in Request :
        /\ IsBotPath(call[r].path)
        /\ call[r].body \/ (call[r].verb = "POST" /\ call[r].headers \cap IdempotencyKeys = {})
        => runs[r] <= 1

(* A bot that went away frees its request and Telegram's connection, even  *)
(* if Telegram never answers.                                              *)
AbandonedEnds == \A r \in Request : gone[r] ~> state[r] = "idle"
=============================================================================
