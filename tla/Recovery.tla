------------------------------ MODULE Recovery ------------------------------
(***************************************************************************)
(* Backups (Store.Backup in store.go, backup in main.go) and what restores *)
(* them: the steps OPERATIONS.md gives an operator.                        *)
(*                                                                         *)
(* A backup opens the database of the running service like any tool and    *)
(* copies it later, in one transaction (VACUUM INTO).  A restored database *)
(* is older than what Telegram remembers: updates confirmed since the      *)
(* backup are not sent again.                                              *)
(***************************************************************************)
EXTENDS Tools

CONSTANT MaxRestores \* bound: restorations

ASSUME RecoveryAssumption == MaxRestores \in Nat

VARIABLES
    tool,    \* the backup command: "idle", or "opened" the database
    copy,    \* the last backup, an empty database before there is one
    lost,    \* history: the updates that restorations took out of the database
    restores \* history: how many there were

recoveryVars == <<tool, copy, lost, restores>>
allRecoveryVars == <<allPollerVars, recoveryVars>>

Contents == [clients |-> clients, ackOffset |-> ackOffset, updates |-> updates,
             deliveries |-> deliveries, offset |-> upstreamOffset, ingested |-> ingested]

(* loadRuntime *)
BackupOpens(k) ==
    /\ tool = "idle"
    /\ RunTool(k)
    /\ tool' = "opened"
    /\ UNCHANGED <<copy, lost, restores>>

(* The integrity check or the copy fails, the file exists, or the thirty   *)
(* seconds are over.                                                       *)
BackupFails ==
    /\ tool = "opened"
    /\ tool' = "idle"
    /\ UNCHANGED <<allPollerVars, copy, lost, restores>>

(* Faulty: not one transaction; the offset is copied when the batch in     *)
(* hand is in, the rows were copied before.                                *)
FaultyCopies ==
    /\ tool = "opened"
    /\ CanIncrement(batch)
    /\ tool' = "idle"
    /\ copy' = [Contents EXCEPT !.offset = NextOffset(@, batch)]
    /\ UNCHANGED <<allPollerVars, lost, restores>>

(* Store.Backup *)
BackupCopies ==
    /\ tool = "opened"
    /\ tool' = "idle"
    /\ copy' = Contents
    /\ UNCHANGED <<allPollerVars, lost, restores>>

(* The service is stopped and the copy put in the database's place.  What  *)
(* doctor and the start then do with it is RunTool and Start.              *)
Restore ==
    /\ poller = "down" /\ tool = "idle"
    /\ restores < MaxRestores
    /\ clients' = copy.clients
    /\ ackOffset' = copy.ackOffset
    /\ updates' = copy.updates
    /\ deliveries' = copy.deliveries
    /\ upstreamOffset' = copy.offset
    /\ ingested' = copy.ingested
    /\ lost' = lost \cup {u \in ingested : u >= copy.offset}
    /\ restores' = restores + 1
    /\ UNCHANGED <<cfg, pollerVars, telegramVars, tool, copy>>

(* A bot goes on from the offset it had reached in the replaced database,  *)
(* which may be ahead of all the restored one has seen.                    *)
BotGoesOn(c) ==
    /\ poller # "down"
    /\ \E u \in lost : Acknowledge(c, u + 1)
    /\ UNCHANGED <<pollerVars, telegramVars, recoveryVars>>

RecoveryInit ==
    /\ PollerInit
    /\ tool = "idle"
    /\ copy = [Contents EXCEPT !.clients = {}]
    /\ lost = {} /\ restores = 0

RecoveryNext ==
    \/ ToolsNext /\ UNCHANGED recoveryVars
    \/ \E k \in Configs : BackupOpens(k)
    \/ BackupFails \/ BackupCopies
    \/ Restore
    \/ \E c \in cfg.clients : BotGoesOn(c)

RecoverySpec == RecoveryInit /\ [][RecoveryNext]_allRecoveryVars

(* As for the poller, whatever backups and restorations there are. *)
RecoveryFairness ==
    /\ WF_allRecoveryVars(\E k \in Configs : Start(k) /\ UNCHANGED recoveryVars)
    /\ SF_allRecoveryVars(Initialize /\ UNCHANGED recoveryVars)
    /\ SF_allRecoveryVars(PollAnswered /\ UNCHANGED recoveryVars)
    /\ SF_allRecoveryVars(IngestDone /\ UNCHANGED recoveryVars)
    /\ WF_allRecoveryVars(PollerStep /\ UNCHANGED recoveryVars)
    /\ \A c \in Client : SF_allRecoveryVars(ClientDrains(c) /\ UNCHANGED recoveryVars)

FairRecoverySpec == RecoverySpec /\ RecoveryFairness

----------------------------------------------------------------------------
(* Properties *)

(* The backup and the history have their types. *)
RecoveryTypeOK ==
    /\ PollerTypeOK
    /\ tool \in {"idle", "opened"}
    /\ copy \in [clients : SUBSET Client, ackOffset : [Client -> UpdateId], updates : SUBSET UpdateId,
                 deliveries : SUBSET (Client \X UpdateId), offset : UpdateId,
                 ingested : SUBSET UpdateId]
    /\ lost \subseteq {u \in UpdateId : u < MaxId}
    /\ restores \in 0..MaxRestores

(* A restoration loses what was stored after the backup, and nothing else: *)
(* whatever Telegram has forgotten, or the stored offset will skip, is in  *)
(* the database or was taken out of it by a restoration, although the      *)
(* offset falls back and requests of the old database may still arrive.    *)
Accounted(database, off) == \A u \in stream : u < off => u \in database \cup lost

OnlyRestoresLose ==
    /\ Accounted(ingested, confirmed)
    /\ Accounted(ingested, upstreamOffset)
    /\ \A o \in sent : Accounted(ingested, o)

(* What a client acknowledged comes back only if a restoration took it     *)
(* away, whether the backup still had it queued or Telegram sends it again *)
(* to a database that has forgotten the update but learns of the offset.   *)
AcksKept(rows, ack, off) ==
    /\ \A d \in rows : d[2] >= ack[d[1]] \/ d[2] \in lost
    /\ \A c \in Client : ack[c] <= off \/ ack[c] - 1 \in lost

(* A restored database is as good as one that grew: its rows refer to rows *)
(* it has, the safety window is kept, acknowledgments are, and polling     *)
(* goes on from its stored offset (OPERATIONS.md, Restore).                *)
RestoredIsSound == StoreInv /\ AcksKept(deliveries, ackOffset, upstreamOffset) /\ OffsetInStep

(* After restorations, too, every update is stored at last or was lost by  *)
(* one.                                                                    *)
EventuallyAccounted == \A u \in StreamId : u \in stream ~> u \in ingested \cup lost

(* The inductive invariant: why only restorations lose. *)

(* Every offset Telegram has seen or may see, and the one of the backup,   *)
(* is behind an update of the stream: what Telegram receives next is above *)
(* all of them.                                                            *)
Anchored == \A o \in {confirmed, upstreamOffset, copy.offset} \cup sent :
                o = 0 \/ o - 1 \in stream

(* The updates of the databases are those of the stream, and what came     *)
(* before a lost update has been in the database, too.                     *)
LostIsPrefix ==
    /\ ingested \cup copy.ingested \cup lost \subseteq stream
    /\ \A v \in lost, u \in stream : u < v => u \in ingested \cup lost

(* The answer in hand follows the stored offset, and what it leaves out    *)
(* below its updates is stored or was lost.                                *)
BatchFollows ==
    poller = "ingest" =>
        /\ \A v \in batch : v \in stream /\ v >= upstreamOffset
        /\ \A v \in batch, u \in stream : u < v => u \in batch \cup ingested \cup lost

(* The backup is what a restored database must be. *)
CopyIsSound ==
    /\ Accounted(copy.ingested, copy.offset)
    /\ \A d \in copy.deliveries :
          d[1] \in copy.clients /\ d[2] \in copy.updates
    /\ AcksKept(copy.deliveries, copy.ackOffset, copy.offset)
    /\ copy.updates \subseteq copy.ingested
    /\ \A u \in copy.ingested :
          u < copy.offset /\ (u + SafetyWindow >= copy.offset => u \in copy.updates)

RecoveryInv ==
    OnlyRestoresLose /\ Anchored /\ LostIsPrefix /\ BatchFollows /\ RestoredIsSound /\ CopyIsSound
=============================================================================
