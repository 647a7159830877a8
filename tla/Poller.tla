------------------------------- MODULE Poller -------------------------------
(***************************************************************************)
(* The upstream poller of telegram-bot-mux (internal/telegram/poller.go),  *)
(* its process and Telegram, over the store.                               *)
(*                                                                         *)
(* The poller runs DeleteWebhook, reads the stored offset and then repeats *)
(* getUpdates(offset), Ingest, offset advance.  Between any two of these   *)
(* steps the process may stop.  Telegram keeps the updates of the bot in   *)
(* order; a getUpdates with offset o confirms, and thereby forgets, every  *)
(* update below o, whether or not its answer reaches the poller, and even  *)
(* when the request arrives after the poller has given it up.              *)
(*                                                                         *)
(* pollState.delay, the length of the pauses, is not part of this module:  *)
(* a sleeping poller wakes at some time.                                   *)
(***************************************************************************)
EXTENDS Store

CONSTANTS
    StreamId,   \* the ids of the updates Telegram may produce
    Unparsable, \* those among them that ParseUpdate refuses
    MaxSent     \* bound: abandoned requests under way to Telegram at once

ASSUME StreamAssumption ==
    /\ StreamId \subseteq UpdateId
    /\ Unparsable \subseteq StreamId
    /\ MaxSent \in Nat

VARIABLES
    stream,    \* Telegram: every update the bot ever received
    confirmed, \* Telegram: updates below it are confirmed and forgotten
    sent,      \* offsets of abandoned requests that may still reach Telegram
    poller,    \* where the poller is
    offset,    \* pollState.offset
    batch      \* the updates of the answer in hand

pollerVars == <<poller, offset, batch>>
telegramVars == <<stream, confirmed, sent>>
allPollerVars == <<storeVars, pollerVars, telegramVars>>

PollerState == {"down",   \* the process does not run
                "start",  \* in initialize
                "poll",   \* a getUpdates request is under way
                "ingest", \* has an answer that is not empty
                "signal", \* the ingest is committed, nobody was told yet
                "sleep"}  \* in sleepContext

----------------------------------------------------------------------------
(* Telegram *)

(* A new update: ids rise. *)
Produce ==
    /\ \E u \in StreamId : /\ \A v \in stream : v < u
                           /\ stream' = stream \cup {u}
    /\ UNCHANGED <<storeVars, pollerVars, confirmed, sent>>

Confirm(o) == confirmed' = Max({confirmed, o})

(* What a request with offset o and limit 100 is answered. *)
Answer(o) == FirstN({u \in stream : u >= Max({confirmed, o})}, PageLimit)

(* A request is abandoned: it is on its way still, or it is lost.  *)
Abandon(o) == sent' = IF Cardinality(sent) < MaxSent THEN sent \cup {o} ELSE sent

(* An abandoned request reaches Telegram after all. *)
ArriveLate ==
    /\ \E o \in sent : Confirm(o) /\ sent' = sent \ {o}
    /\ UNCHANGED <<storeVars, pollerVars, stream>>

----------------------------------------------------------------------------
(* The process *)

(* serve: load the configuration, open the store, start the poller. *)
Start(k) ==
    /\ poller = "down"
    /\ Open(k)
    /\ poller' = "start"
    /\ UNCHANGED <<offset, batch, telegramVars>>

(* The process ends: a crash, a signal, or an error Run returns (a failed  *)
(* deleteWebhook, 401 or 403).  What is not in the tables is gone.         *)
Stop ==
    /\ poller # "down"
    /\ poller' = "down"
    /\ offset' = 0
    /\ batch' = {}
    /\ IF poller = "poll" THEN Abandon(offset) ELSE UNCHANGED sent
    /\ UNCHANGED <<storeVars, stream, confirmed>>

----------------------------------------------------------------------------
(* The poller *)

(* Faulty: the offset is that of the last update, not the one after. *)
FaultyNextOffset(current, us) == Max({current} \cup us)

(* nextOffset *)
NextOffset(current, us) == Max({current} \cup {u + 1 : u \in us})

(* Faulty: polling starts over, the stored offset is not read. *)
FaultyInitialize ==
    /\ poller = "start"
    /\ poller' = "poll"
    /\ offset' = 0
    /\ UNCHANGED <<storeVars, telegramVars, batch>>

(* initialize: deleteWebhook succeeded, read UpstreamOffset. *)
Initialize ==
    /\ poller = "start"
    /\ poller' = "poll"
    /\ offset' = upstreamOffset
    /\ UNCHANGED <<storeVars, telegramVars, batch>>

(* Faulty: the updates that do not parse are skipped. *)
FaultyAnswered ==
    /\ poller = "poll"
    /\ Answer(offset) \ Unparsable # {}
    /\ Confirm(offset)
    /\ batch' = Answer(offset) \ Unparsable
    /\ poller' = "ingest"
    /\ UNCHANGED <<storeVars, stream, sent, offset>>

(* getUpdates is answered with updates, and all of them parse. *)
PollAnswered ==
    /\ poller = "poll"
    /\ Answer(offset) # {}
    /\ Answer(offset) \cap Unparsable = {}
    /\ Confirm(offset)
    /\ batch' = Answer(offset)
    /\ poller' = "ingest"
    /\ UNCHANGED <<storeVars, stream, sent, offset>>

(* getUpdates is answered with nothing; Ingest of an empty batch returns.  *)
PollEmpty ==
    /\ poller = "poll"
    /\ Answer(offset) = {}
    /\ Confirm(offset)
    /\ UNCHANGED <<storeVars, stream, sent, pollerVars>>

(* getUpdates fails after Telegram processed it: the answer is lost, or    *)
(* one of its updates does not parse, which rejects the whole answer.      *)
AnswerRejected ==
    /\ poller = "poll"
    /\ Confirm(offset)
    /\ poller' = "sleep"
    /\ UNCHANGED <<storeVars, stream, sent, offset, batch>>

(* getUpdates fails or times out with the request still on its way. *)
PollAbandoned ==
    /\ poller = "poll"
    /\ Abandon(offset)
    /\ poller' = "sleep"
    /\ UNCHANGED <<storeVars, stream, confirmed, offset, batch>>

IngestDone ==
    /\ poller = "ingest"
    /\ IngestCommits(batch)
    /\ poller' = "signal"
    /\ UNCHANGED <<offset, batch, telegramVars>>

(* Faulty: the refused batch is skipped. *)
FaultyPaused ==
    /\ poller = "ingest"
    /\ BacklogFull(batch)
    /\ poller' = "sleep"
    /\ batch' = {}
    /\ offset' = NextOffset(offset, batch)
    /\ UNCHANGED <<storeVars, telegramVars>>

(* handleIngestFailure, ErrBacklogFull: put the batch away and sleep; the  *)
(* offset stays, the next request fetches it again.                        *)
IngestPaused ==
    /\ poller = "ingest"
    /\ BacklogFull(batch)
    /\ poller' = "sleep"
    /\ batch' = {}
    /\ UNCHANGED <<storeVars, offset, telegramVars>>

(* handleIngestFailure, any other error: Run returns and serve exits. *)
IngestFatal ==
    /\ poller = "ingest"
    /\ IngestFails(batch)
    /\ Stop

(* Ingest signals the waiting requests and returns; step advances the      *)
(* offset.  The requests are in module Mux.                                *)
Advance ==
    /\ poller = "signal"
    /\ poller' = "poll"
    /\ offset' = NextOffset(offset, batch)
    /\ batch' = {}
    /\ UNCHANGED <<storeVars, telegramVars>>

Wake ==
    /\ poller = "sleep"
    /\ poller' = "poll"
    /\ UNCHANGED <<storeVars, offset, batch, telegramVars>>

PollerStep ==
    \/ Initialize
    \/ PollAnswered \/ PollEmpty \/ AnswerRejected \/ PollAbandoned
    \/ IngestDone \/ IngestPaused \/ IngestFatal
    \/ Advance \/ Wake

(* Everything but the requests of the clients. *)
UpstreamStep ==
    \/ Produce \/ ArriveLate
    \/ \E k \in Configs : Start(k)
    \/ Stop
    \/ PollerStep

(* A client acknowledges updates it may have been sent. *)
ClientAcks(c) ==
    /\ poller # "down"
    /\ \E off \in 1..upstreamOffset : Acknowledge(c, off)
    /\ UNCHANGED <<pollerVars, telegramVars>>

PollerInit ==
    /\ StoreInit
    /\ stream = {} /\ confirmed = 0 /\ sent = {}
    /\ poller = "down" /\ offset = 0 /\ batch = {}

PollerNext ==
    \/ UpstreamStep
    \/ \E c \in cfg.clients : ClientAcks(c)

PollerSpec == PollerInit /\ [][PollerNext]_allPollerVars

----------------------------------------------------------------------------
(* Fairness: the supervisor restarts the process, a running poller takes   *)
(* its next step, and neither Telegram nor the process fails for ever:     *)
(* deleteWebhook, getUpdates and an ingest that are tried again and again  *)
(* succeed at last (in particular the updates parse).  A client with       *)
(* pending updates acknowledges them at last.  Nothing is assumed of       *)
(* Produce, ArriveLate and Stop.                                           *)
ClientDrains(c) ==
    /\ poller # "down"
    /\ Pending(c) # {}
    /\ Acknowledge(c, upstreamOffset)
    /\ UNCHANGED <<pollerVars, telegramVars>>

PollerFairness ==
    /\ WF_allPollerVars(\E k \in Configs : Start(k))
    /\ SF_allPollerVars(Initialize)
    /\ SF_allPollerVars(PollAnswered)
    /\ SF_allPollerVars(IngestDone)
    /\ WF_allPollerVars(PollerStep)
    /\ \A c \in Client : SF_allPollerVars(ClientDrains(c))

FairPollerSpec == PollerSpec /\ PollerFairness

----------------------------------------------------------------------------
(* Properties *)

(* The store and the poller hold values of their types. *)
PollerTypeOK ==
    /\ StoreTypeOK
    /\ stream \subseteq StreamId
    /\ confirmed \in UpdateId
    /\ sent \subseteq UpdateId
    /\ poller \in PollerState
    /\ offset \in UpdateId
    /\ batch \subseteq StreamId
    /\ poller \in {"ingest", "signal"} <=> batch # {}

(* What Telegram has forgotten is in the database: the poller never        *)
(* requests past an update it has not committed, through crashes, lost     *)
(* answers and requests that arrive late (README: the upstream offset      *)
(* advances only after the complete update batch is durable).              *)
ConfirmedDurable == \A u \in stream : u < confirmed => u \in ingested

(* The offset in memory, computed by nextOffset from the answer, is the    *)
(* one ingestTransaction computed from the rows, whenever it is used.      *)
OffsetInStep ==
    /\ poller \in {"poll", "ingest", "sleep"} => offset = upstreamOffset
    /\ poller = "signal" => NextOffset(offset, batch) = upstreamOffset

(* What a client acknowledged stays acknowledged: no update below its      *)
(* ack_offset is ever queued for it, by a redelivery or out of order.      *)
AcksHold ==
    /\ \A d \in deliveries : d[2] >= ackOffset[d[1]]
    /\ \A c \in Client : ackOffset[c] <= upstreamOffset

(* The database has everything of the stream below the stored offset, and  *)
(* the stored offset is where the stream goes on.                          *)
NothingSkipped ==
    /\ \A u \in stream : u < upstreamOffset => u \in ingested
    /\ upstreamOffset = 0 \/ upstreamOffset - 1 \in stream

(* No request, answered, under way or abandoned, asks past the stored      *)
(* offset.                                                                 *)
NotAhead ==
    /\ confirmed <= upstreamOffset
    /\ \A o \in sent : o <= upstreamOffset

(* The answer in hand is what comes next in the stream, without a gap.     *)
BatchIsNext ==
    poller = "ingest" =>
        /\ \A v \in batch : v \in stream /\ v >= upstreamOffset
        /\ \A v \in batch, u \in stream : upstreamOffset <= u /\ u < v => u \in batch

(* Nothing that does not parse gets past the client. *)
AllParsed == Unparsable \cap (ingested \cup batch) = {}

(* The inductive invariant: why the poller confirms only what is durable.  *)
PollerInv ==
    /\ StoreInv
    /\ NothingSkipped
    /\ NotAhead
    /\ BatchIsNext
    /\ OffsetInStep
    /\ AcksHold
    /\ AllParsed

(* An update that does not parse is not skipped: neither it nor anything   *)
(* after it is confirmed to Telegram, however the polls, the ingests and   *)
(* the restarts go on (GetUpdates rejects the whole answer).               *)
UnparsedIsHeld ==
    \A u \in stream \cap Unparsable : u \notin ingested /\ confirmed <= u /\ upstreamOffset <= u

(* Every update is routed at most once and in the order of the stream:     *)
(* a new delivery is above everything ingested before, so that one offset  *)
(* tells a client's seen updates from its unseen ones.                     *)
RoutedOnceInOrder ==
    [][\A d \in deliveries' \ deliveries : \A u \in ingested : u < d[2]]_allPollerVars

(* A batch the backlog limit rolled back is ingested once the clients      *)
(* advance their offsets (handleIngestFailure pauses, it does not drop).   *)
PauseEnds ==
    \A u \in StreamId :
        poller = "ingest" /\ u \in batch /\ BacklogFull(batch) ~> u \in ingested
=============================================================================
