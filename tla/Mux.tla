-------------------------------- MODULE Mux --------------------------------
(***************************************************************************)
(* The whole multiplexer: the store and the poller together with the       *)
(* getUpdates requests of the downstream bots (internal/server/server.go)  *)
(* and the bots themselves.                                                *)
(*                                                                         *)
(* Each request runs in a goroutine of its own.  waitForUpdates takes the  *)
(* notification channel, then calls GetUpdates, which resolves a negative  *)
(* offset, acknowledges and queries in separate transactions; requests,    *)
(* the poller and restarts interleave between any two of these steps.  A   *)
(* woken long poll calls GetUpdates again with its original parameters.    *)
(*                                                                         *)
(* A bot has one request outstanding.  It may give up on it while the      *)
(* server still works on it.  It asks for an offset it has reached or for  *)
(* an earlier one, or for a negative one, by which it forgets what the     *)
(* resolved offset leaves behind.                                          *)
(***************************************************************************)
EXTENDS Poller

CONSTANTS
    Request,   \* the requests that may be in the server at once
    NoRequest, \* what a bot waits for when it waits for nothing
    Limits,    \* the limits bots ask for, out of range ones included
    Negatives  \* the negative offsets bots ask for

ASSUME MuxAssumption ==
    /\ NoRequest \notin Request
    /\ Limits \subseteq Int
    /\ Negatives \subseteq MinOffset..-1

VARIABLES
    handler,   \* the goroutine of each request
    awaiting,  \* bot: the request whose answer it waits for
    next,      \* bot: highest update id seen, plus one
    seen,      \* bot: updates it received
    forgotten, \* bot: updates it dropped by a negative offset
    owed       \* history: deliveries ever routed to a client still configured

botVars == <<awaiting, next, seen, forgotten>>
muxVars == <<allPollerVars, handler, botVars, owed>>

(* The program points of handleGetUpdates and waitForUpdates: *)
HandlerState == {"idle",    \* no request
                 "changes", \* about to call store.Changes
                 "resolve", \* GetUpdates entered
                 "ack",     \* a positive offset is to be acknowledged
                 "query",   \* the page is to be read
                 "decide",  \* the page was read
                 "select"}  \* waiting for the deadline or the channel

Handler == [pc     : HandlerState,
            client : Client,
            offset : Int,       \* params.Offset, Limit, and Timeout > 0
            limit  : Int,
            wait   : BOOLEAN,
            woken  : BOOLEAN,   \* the channel Changes returned is closed
            at     : UpdateId,  \* the offset once resolved
            page   : SUBSET UpdateId]

Idle == [pc |-> "idle", client |-> CHOOSE c \in Client : TRUE, offset |-> 0, limit |-> 0,
         wait |-> FALSE, woken |-> FALSE, at |-> 0, page |-> {}]

----------------------------------------------------------------------------
(* The bots *)

(* handleGetUpdates begins: the bot of client c asks for off. *)
Call(r, c, off, limit, wait) ==
    /\ poller # "down"
    /\ c \in cfg.clients
    /\ awaiting[c] = NoRequest
    /\ handler[r].pc = "idle"
    /\ handler' = [handler EXCEPT ![r] =
                      [Idle EXCEPT !.pc = "changes", !.client = c, !.offset = off,
                                   !.limit = limit, !.wait = wait]]
    /\ awaiting' = [awaiting EXCEPT ![c] = r]
    /\ UNCHANGED <<allPollerVars, next, seen, forgotten, owed>>

BotCalls(c) ==
    \E r \in Request, off \in 0..next[c] \cup Negatives, limit \in Limits, wait \in BOOLEAN :
        Call(r, c, off, limit, wait)

(* The bot times out; the server need not notice. *)
GiveUp(c) ==
    /\ awaiting[c] # NoRequest
    /\ awaiting' = [awaiting EXCEPT ![c] = NoRequest]
    /\ UNCHANGED <<allPollerVars, handler, next, seen, forgotten, owed>>

----------------------------------------------------------------------------
(* A request *)

Goto(r, pc) == handler' = [handler EXCEPT ![r].pc = pc]

TakeChanges(r) ==
    /\ handler[r].pc = "changes"
    /\ handler' = [handler EXCEPT ![r].pc = "resolve", ![r].woken = FALSE,
                                  ![r].at = 0, ![r].page = {}]
    /\ UNCHANGED <<allPollerVars, botVars, owed>>

(* Faulty: a negative offset is used as it is. *)
FaultyResolved(h) == h.offset

(* prepareOffset: a negative offset is looked up, a positive one goes on   *)
(* to be acknowledged.                                                     *)
Resolved(h) == IF h.offset < 0 THEN NegativeOffset(h.client, Negate(h.offset)) ELSE h.offset

(* Faulty: a resolved negative offset is not acknowledged. *)
FaultyResolve(r) ==
    /\ handler[r].pc = "resolve"
    /\ LET h == handler[r]
       IN  handler' = [handler EXCEPT ![r].at = Resolved(h),
                                      ![r].pc = IF h.offset > 0 THEN "ack" ELSE "query"]
    /\ UNCHANGED <<allPollerVars, botVars, owed>>

Resolve(r) ==
    /\ handler[r].pc = "resolve"
    /\ LET at == Resolved(handler[r])
       IN  handler' = [handler EXCEPT ![r].at = at, ![r].pc = IF at > 0 THEN "ack" ELSE "query"]
    /\ UNCHANGED <<allPollerVars, botVars, owed>>

Ack(r) ==
    LET h == handler[r]
    IN  /\ h.pc = "ack"
        /\ Acknowledge(h.client, h.at)
        /\ Goto(r, "query")
        /\ forgotten' = IF h.offset >= 0 THEN forgotten
                        ELSE [forgotten EXCEPT ![h.client] = @ \cup {u \in Pending(h.client) : u < h.at}]
        /\ UNCHANGED <<pollerVars, telegramVars, awaiting, next, seen, owed>>

(* queryUpdates, and recordClientActivity, which no one reads. *)
Query(r) ==
    LET h == handler[r]
    IN  /\ h.pc = "query"
        /\ handler' = [handler EXCEPT ![r].pc = "decide",
                                      ![r].page = QueryUpdates(h.client, h.at, h.limit)]
        /\ UNCHANGED <<allPollerVars, botVars, owed>>

UpdatesReady(h) == h.page # {} \/ ~h.wait

(* Faulty: the channel is taken after the store was read. *)
FaultyWait(r) ==
    /\ handler[r].pc = "decide"
    /\ ~UpdatesReady(handler[r])
    /\ handler' = [handler EXCEPT ![r].pc = "select", ![r].woken = FALSE]
    /\ UNCHANGED <<allPollerVars, botVars, owed>>

Wait(r) ==
    /\ handler[r].pc = "decide"
    /\ ~UpdatesReady(handler[r])
    /\ Goto(r, "select")
    /\ UNCHANGED <<allPollerVars, botVars, owed>>

Woken(r) ==
    /\ handler[r].pc = "select"
    /\ handler[r].woken
    /\ Goto(r, "changes")
    /\ UNCHANGED <<allPollerVars, botVars, owed>>

(* writeUpdates: the page is ready, or the deadline has passed.  The bot   *)
(* receives it unless it has given up on this request.                     *)
Reply(r) ==
    LET h == handler[r]
        c == h.client
    IN  /\ \/ h.pc = "decide" /\ UpdatesReady(h)
           \/ h.pc = "select"
        /\ handler' = [handler EXCEPT ![r] = Idle]
        /\ IF awaiting[c] = r
           THEN /\ awaiting' = [awaiting EXCEPT ![c] = NoRequest]
                /\ seen' = [seen EXCEPT ![c] = @ \cup h.page]
                /\ next' = [next EXCEPT ![c] = Max({@} \cup {u + 1 : u \in h.page})]
           ELSE UNCHANGED <<awaiting, seen, next>>
        /\ UNCHANGED <<allPollerVars, forgotten, owed>>

(* The request ends without its updates: the connection is gone and with   *)
(* it the request's context, or a statement failed.                        *)
Abort(r) ==
    /\ handler[r].pc # "idle"
    /\ handler' = [handler EXCEPT ![r] = Idle]
    /\ awaiting' = [c \in Client |-> IF awaiting[c] = r THEN NoRequest ELSE awaiting[c]]
    /\ UNCHANGED <<allPollerVars, next, seen, forgotten, owed>>

HandlerStep(r) ==
    \/ TakeChanges(r) \/ Resolve(r) \/ Ack(r) \/ Query(r)
    \/ Wait(r) \/ Woken(r) \/ Reply(r)

----------------------------------------------------------------------------
(* The poller and the process, with what they do to requests *)

Holding == {"resolve", "ack", "query", "decide", "select"}

(* signal closes the channel every request holds; one that takes it later  *)
(* takes the new one.                                                      *)
WakeAll ==
    handler' = [r \in Request |-> IF handler[r].pc \in Holding
                                  THEN [handler[r] EXCEPT !.woken = TRUE] ELSE handler[r]]

MuxIngest  == /\ IngestDone
              /\ owed' = owed \cup RoutedBy(batch)
              /\ UNCHANGED <<handler, botVars>>

MuxAdvance == Advance /\ WakeAll /\ UNCHANGED <<botVars, owed>>

(* Removing a client removes what it was owed. *)
MuxStart   == \E k \in Configs :
                 /\ Start(k)
                 /\ owed' = {d \in owed : d[1] \in k.clients}
                 /\ UNCHANGED <<handler, botVars>>

(* Every request ends with the process, also when an ingest fails for good *)
(* (IngestFatal is a Stop).                                                *)
EndAll     == /\ handler' = [r \in Request |-> Idle]
              /\ awaiting' = [c \in Client |-> NoRequest]
              /\ UNCHANGED <<next, seen, forgotten, owed>>
MuxStop    == Stop /\ EndAll

(* Steps the requests do not notice. *)
Unnoticed == UNCHANGED <<handler, botVars, owed>>

MuxTelegram == (Produce \/ ArriveLate) /\ Unnoticed

MuxPoll ==
    /\ \/ Initialize
       \/ PollAnswered \/ PollEmpty \/ AnswerRejected \/ PollAbandoned
       \/ IngestPaused \/ Wake
    /\ Unnoticed

MuxInit ==
    /\ PollerInit
    /\ handler = [r \in Request |-> Idle]
    /\ awaiting = [c \in Client |-> NoRequest]
    /\ next = [c \in Client |-> 0]
    /\ seen = [c \in Client |-> {}]
    /\ forgotten = [c \in Client |-> {}]
    /\ owed = {}

MuxNext ==
    \/ MuxTelegram \/ MuxPoll \/ MuxIngest \/ MuxAdvance \/ MuxStart \/ MuxStop
    \/ \E c \in Client : BotCalls(c) \/ GiveUp(c)
    \/ \E r \in Request : HandlerStep(r) \/ Abort(r)

MuxSpec == MuxInit /\ [][MuxNext]_muxVars

----------------------------------------------------------------------------
(* Fairness, in addition to what module Poller assumes of the supervisor,  *)
(* the poller and Telegram: every goroutine goes on, a bot asks again and  *)
(* again for the updates it has not seen, and of these requests not all    *)
(* are cut off, whatever the point they are cut off at.  Nothing is        *)
(* assumed of GiveUp and Abort.                                            *)
AsksForNext(c) == \E r \in Request, limit \in Limits, wait \in BOOLEAN :
                      Call(r, c, next[c], limit, wait)

Serves(r, c) == /\ awaiting[c] = r
                /\ handler[r].client = c
                /\ handler[r].offset = next[c]

MuxFairness ==
    /\ WF_muxVars(MuxStart)
    /\ WF_muxVars(MuxPoll \/ MuxIngest \/ MuxAdvance \/ (IngestFatal /\ EndAll))
    /\ SF_muxVars(Initialize /\ Unnoticed)
    /\ SF_muxVars(PollAnswered /\ Unnoticed)
    /\ SF_muxVars(MuxIngest)
    /\ \A r \in Request : WF_muxVars(HandlerStep(r))
    /\ \A c \in Client :
          /\ SF_muxVars(AsksForNext(c))
          /\ SF_muxVars(\E r \in Request : Serves(r, c) /\ TakeChanges(r))
          /\ SF_muxVars(\E r \in Request : Serves(r, c) /\ Resolve(r))
          /\ SF_muxVars(\E r \in Request : Serves(r, c) /\ Ack(r))
          /\ SF_muxVars(\E r \in Request : Serves(r, c) /\ Query(r))
          /\ SF_muxVars(\E r \in Request : Serves(r, c) /\ handler[r].page # {} /\ Reply(r))

FairMuxSpec == MuxSpec /\ MuxFairness

----------------------------------------------------------------------------
(* Properties *)

(* The bots and the requests hold values of their types. *)
MuxTypeOK ==
    /\ PollerTypeOK
    /\ handler \in [Request -> Handler]
    /\ awaiting \in [Client -> Request \cup {NoRequest}]
    /\ next \in [Client -> UpdateId]
    /\ seen \in [Client -> SUBSET UpdateId]
    /\ forgotten \in [Client -> SUBSET UpdateId]
    /\ owed \subseteq Client \X UpdateId

(* No update routed to a bot is lost: it is still pending, the bot has it, *)
(* or the bot itself dropped it by a negative offset.  Requests of one bot *)
(* that overlap, answers that are lost and restarts do not change that.    *)
NoLoss ==
    \A d \in owed : d \in deliveries \/ d[2] \in seen[d[1]] \cup forgotten[d[1]]

(* A request that waits, or is about to. *)
Asleep(h) == h.pc = "select" \/ (h.pc = "decide" /\ ~UpdatesReady(h))

(* No long poll sleeps through an update: when a request waits, or is      *)
(* about to, with an update it would return pending, then its channel is   *)
(* closed or the poller is about to close it.  (waitForUpdates takes the   *)
(* channel before it reads the store.)                                     *)
NoLostWakeup ==
    \A r \in Request :
        LET h == handler[r]
        IN  Asleep(h) /\ QueryUpdates(h.client, h.at, h.limit) # {}
            => h.woken \/ poller = "signal"

(* What a bot is owed below the last update of a page is in the page or    *)
(* was the bot's before.                                                   *)
NoGap(h) ==
    \A u \in h.page : \A d \in owed :
        d[1] = h.client /\ d[2] < u => d[2] \in h.page \cup seen[d[1]] \cup forgotten[d[1]]

(* A page a bot may yet receive leaves no gap: what is missing in it the   *)
(* bot has had, so that the bot may go on after its last update.           *)
PageHasNoGap == \A r \in Request : NoGap(handler[r])

(* No bot has got past an update it is owed without having it. *)
NextIsSeen ==
    /\ \A c \in Client : next[c] <= upstreamOffset
    /\ \A d \in owed :
          d[2] < next[d[1]] => d[2] \in seen[d[1]] \cup forgotten[d[1]]

(* What is owed, or was received, was ingested, and what is queued is owed. *)
OwedIsStored ==
    /\ deliveries \subseteq owed
    /\ \A d \in owed : d[2] \in ingested
    /\ \A c \in Client : seen[c] \cup forgotten[c] \subseteq ingested

(* A request asks for nothing its bot has not reached, acknowledges no     *)
(* more than it asked for, queries with everything below acknowledged, and *)
(* has read nothing but updates its own bot is owed.                       *)
InStep(h) ==
    /\ h.offset <= next[h.client]
    /\ h.at <= upstreamOffset
    /\ h.pc = "ack" => h.at > 0 /\ (h.offset >= 0 => h.at = h.offset)
    /\ h.pc = "query" /\ h.at > 0 => \A u \in Pending(h.client) : u >= h.at
    /\ \A u \in h.page : u < upstreamOffset /\ <<h.client, u>> \in owed

(* So do all requests, and without a process there are none. *)
RequestsInStep ==
    /\ poller = "down" => \A r \in Request : handler[r] = Idle
    /\ \A r \in Request : InStep(handler[r])

(* The inductive invariant: why overlapping requests lose nothing. *)
MuxInv ==
    /\ PollerInv
    /\ OwedIsStored
    /\ NextIsSeen
    /\ RequestsInStep
    /\ PageHasNoGap
    /\ NoLoss

(* A request with offset -n forgets none of its bot's last n updates, even *)
(* when updates arrive or are acknowledged between the transaction that    *)
(* resolves the offset and the one that acknowledges it, and when a long   *)
(* poll that was woken resolves it anew.                                   *)
NegativeKeepsLast ==
    [][\A r \in Request :
          LET h == handler[r]
              n == Negate(h.offset)
          IN  h.pc = "ack" /\ handler'[r].pc = "query" /\ n > 0 =>
                  LastN(Pending(h.client), Min({n, PageLimit})) \subseteq Pending(h.client)']_muxVars

(* Every update the bot receives reaches every client it is routed to,     *)
(* through crashes, failed polls, abandoned requests and lost answers,     *)
(* unless the client itself drops it.                                      *)
EventuallyDelivered ==
    \A u \in StreamId :
        u \in stream ~> \A c \in cfg.targets[u] : u \in seen[c] \cup forgotten[c]
=============================================================================
