---------------------------- MODULE ToolsProofs ----------------------------
(***************************************************************************)
(* Proofs about the commands run beside the service, however often and     *)
(* with whatever configuration, and about backups and their restoration.   *)
(***************************************************************************)
EXTENDS Recovery, PollerProofs

(* A tool between any two steps of the service keeps what the poller's     *)
(* inductive invariant says.                                               *)
LEMMA ToolsNextKeeps ==
    PollerTypeOK /\ PollerInv /\ [ToolsNext]_allPollerVars => (PollerTypeOK /\ PollerInv)'
<1> SUFFICES ASSUME PollerTypeOK, PollerInv, [ToolsNext]_allPollerVars
             PROVE  (PollerTypeOK /\ PollerInv)'
  OBVIOUS
<1>1. CASE [PollerNext]_allPollerVars
  BY <1>1, PollerNextKeeps
<1>2. CASE \E k \in Configs : RunTool(k)
  <2>1. PICK k \in Configs : RunTool(k)
    BY <1>2
  <2>2. cfg' \in Configs
    BY <2>1 DEF RunTool, PollerTypeOK, StoreTypeOK
  <2>3. Reconcile(k) /\ UNCHANGED <<offset, batch, telegramVars, poller>>
    BY <2>1 DEF RunTool, pollerVars
  <2> QED BY <2>2, <2>3, ReconcileKeepsPoller
<1> QED BY <1>1, <1>2 DEF ToolsNext

(* Tools, run at any time under any configuration, leave the tables        *)
(* consistent, the offsets in step, and nothing Telegram forgot missing.   *)
THEOREM ToolsSafe == ToolsSpec => [](PollerTypeOK /\ PollerInv)
<1> QED BY PollerInitKeeps, ToolsNextKeeps, PTL DEF ToolsSpec

(* Beside doctor and backup, too, Telegram forgets only what is stored,    *)
(* keeps what does not parse, and every update is routed once and in       *)
(* order: a tool takes deliveries away, and adds none.                     *)
THEOREM ToolsKeepPromises ==
    ToolsSpec => []ConfirmedDurable /\ []UnparsedIsHeld /\ RoutedOnceInOrder
<1> DEFINE A == \A d \in deliveries' \ deliveries : \A u \in ingested : u < d[2]
<1>1. PollerTypeOK /\ PollerInv /\ [ToolsNext]_allPollerVars => [A]_allPollerVars
  <2>1. CASE \E k \in Configs : RunTool(k)
    BY <2>1 DEF RunTool, Reconcile
  <2> QED BY <2>1, NextRoutesLast DEF ToolsNext
<1>2. PollerTypeOK /\ PollerInv => ConfirmedDurable
  BY InvIsDurable
<1> QED BY <1>1, <1>2, InvHoldsUnparsed, ToolsSafe, PTL DEF ToolsSpec, RoutedOnceInOrder

----------------------------------------------------------------------------
(* Backups and restorations *)

Sound == RecoveryTypeOK /\ RecoveryInv

AcksStay == AcksKept(deliveries, ackOffset, upstreamOffset)

(* What an offset that is raised stays. *)
LEMMA HigherIsAnchored ==
    ASSUME NEW o \in UpdateId, NEW u \in UpdateId, NEW S \in SUBSET UpdateId,
           MaxId \in Nat, o = 0 \/ o - 1 \in S, \A v \in S : v < u
    PROVE  u >= o
BY DEF UpdateId

(* An update Telegram receives is above every offset. *)
LEMMA ProduceIsSound ==
    ASSUME Sound, Produce, UNCHANGED recoveryVars PROVE Sound'
<1> USE StoreAssumption, StreamAssumption
<1>1. PICK u \in StreamId : (\A v \in stream : v < u) /\ stream' = stream \cup {u}
  BY DEF Produce
<1>2. UNCHANGED <<storeVars, pollerVars, confirmed, sent, tool, copy, lost, restores>>
  BY DEF Produce, recoveryVars
<1>3. StoreTypeOK' /\ StoreInv'
  BY <1>2, StoreUnchanged
     DEF Sound, RecoveryTypeOK, PollerTypeOK, RecoveryInv, RestoredIsSound
<1>4. RecoveryTypeOK'
  BY <1>1, <1>2, <1>3 DEF Sound, RecoveryTypeOK, PollerTypeOK, pollerVars
<1>5. u \in UpdateId /\ stream \in SUBSET UpdateId
  BY DEF Sound, RecoveryTypeOK, PollerTypeOK
<1>6. \A o \in {confirmed, upstreamOffset, copy.offset} \cup sent : o \in UpdateId
  BY DEF Sound, RecoveryTypeOK, PollerTypeOK, StoreTypeOK
<1>7. \A o \in {confirmed, upstreamOffset, copy.offset} \cup sent : u >= o
  <2> TAKE o \in {confirmed, upstreamOffset, copy.offset} \cup sent
  <2>1. o = 0 \/ o - 1 \in stream
    BY DEF Sound, RecoveryInv, Anchored
  <2> QED BY <1>1, <1>5, <1>6, <2>1, HigherIsAnchored
<1>8. ASSUME NEW o \in {confirmed, upstreamOffset, copy.offset} \cup sent, NEW database,
             Accounted(database, o)
      PROVE  \A w \in stream' : w < o => w \in database \cup lost
  BY <1>1, <1>5, <1>6, <1>7, <1>8 DEF Accounted, UpdateId
<1>9. OnlyRestoresLose'
  BY <1>2, <1>8 DEF Sound, RecoveryInv, OnlyRestoresLose, Accounted, storeVars
<1>10. Anchored'
  BY <1>1, <1>2 DEF Sound, RecoveryInv, Anchored, storeVars
<1>11. BatchFollows'
  <2> SUFFICES ASSUME poller = "ingest", NEW v \in batch
               PROVE  /\ v \in stream' /\ v >= upstreamOffset
                      /\ \A w \in stream' : w < v => w \in batch \cup ingested \cup lost
    BY <1>2 DEF BatchFollows, pollerVars, storeVars
  <2>1. /\ v \in stream /\ v >= upstreamOffset
        /\ \A w \in stream : w < v => w \in batch \cup ingested \cup lost
    BY DEF Sound, RecoveryInv, BatchFollows
  <2>2. v < u /\ v \in UpdateId
    BY <1>1, <1>5, <2>1
  <2>3. ~(u < v)
    BY <1>5, <2>2 DEF UpdateId
  <2> QED BY <1>1, <2>1, <2>3
<1>12. RestoredIsSound'
  BY <1>2, <1>3 DEF Sound, RecoveryInv, RestoredIsSound, AcksKept, OffsetInStep, NextOffset,
                    storeVars, pollerVars
<1>13. CopyIsSound'
  BY <1>2, <1>8 DEF Sound, RecoveryInv, CopyIsSound, AcksKept, Accounted
<1>14. LostIsPrefix'
  <2>1. /\ ingested \cup copy.ingested \cup lost \subseteq stream
        /\ \A v \in lost, w \in stream : w < v => w \in ingested \cup lost
    BY DEF Sound, RecoveryInv, LostIsPrefix
  <2>2. ASSUME NEW v \in lost PROVE ~(u < v)
    <3>1. v < u /\ v \in UpdateId
      BY <1>1, <1>5, <2>1
    <3> QED BY <1>5, <3>1 DEF UpdateId
  <2> QED BY <1>1, <1>2, <2>1, <2>2 DEF LostIsPrefix, storeVars
<1> QED BY <1>4, <1>9, <1>10, <1>11, <1>12, <1>13, <1>14 DEF Sound, RecoveryInv

(* The steps that leave the database and the backup as they are keep what  *)
(* is said of them; what remains to be shown of such a step.               *)
LEMMA DatabaseUntouched ==
    ASSUME Sound, UNCHANGED <<storeVars, stream, tool, copy, lost, restores>>,
           PollerTypeOK', Accounted(ingested, confirmed)', (\A o \in sent : Accounted(ingested, o))',
           Anchored', BatchFollows', OffsetInStep'
    PROVE  Sound'
<1>1. StoreTypeOK' /\ StoreInv' /\ AcksStay'
  BY StoreUnchanged DEF Sound, RecoveryTypeOK, PollerTypeOK, RecoveryInv, RestoredIsSound,
                        AcksStay, AcksKept, storeVars
<1>2. RecoveryTypeOK'
  BY DEF Sound, RecoveryTypeOK
<1>3. OnlyRestoresLose' /\ LostIsPrefix'
  BY DEF Sound, RecoveryInv, OnlyRestoresLose, LostIsPrefix, Accounted, storeVars
<1>4. CopyIsSound'
  BY DEF Sound, RecoveryInv, CopyIsSound, AcksKept, Accounted
<1> QED BY <1>1, <1>2, <1>3, <1>4 DEF Sound, RecoveryInv, RestoredIsSound, AcksStay

(* A request for an offset that is accounted for may be answered, or       *)
(* arrive late.                                                            *)
LEMMA ConfirmIsSound ==
    ASSUME Sound, NEW o \in UpdateId, Confirm(o), Accounted(ingested, o),
           o = 0 \/ o - 1 \in stream, UNCHANGED <<ingested, lost, stream>>
    PROVE  /\ confirmed' \in UpdateId
           /\ Accounted(ingested, confirmed)'
           /\ confirmed' = 0 \/ confirmed' - 1 \in stream
<1>1. confirmed \in UpdateId
  BY DEF Sound, RecoveryTypeOK, PollerTypeOK
<1>2. confirmed' \in {confirmed, o}
  <2>1. confirmed \in Int /\ o \in Int
    BY <1>1 DEF UpdateId
  <2> QED BY <2>1, MaxOfTwo DEF Confirm
<1>3. Accounted(ingested, confirmed) /\ (confirmed = 0 \/ confirmed - 1 \in stream)
  BY DEF Sound, RecoveryInv, OnlyRestoresLose, Anchored
<1> QED BY <1>1, <1>2, <1>3 DEF Accounted

(* What a request of the poller asks for, and what else may arrive.        *)
LEMMA AsksWhatIsStored ==
    ASSUME Sound
    PROVE  /\ poller = "poll" => offset = upstreamOffset
           /\ Accounted(ingested, upstreamOffset)
           /\ upstreamOffset \in UpdateId
           /\ upstreamOffset = 0 \/ upstreamOffset - 1 \in stream
BY DEF Sound, RecoveryTypeOK, PollerTypeOK, StoreTypeOK, RecoveryInv, OnlyRestoresLose, Anchored,
       RestoredIsSound, OffsetInStep

(* Telegram's answer to a request for the stored offset: what it leaves    *)
(* out of the stream below its updates is stored or was lost.              *)
LEMMA AnswerFollows ==
    ASSUME Sound
    PROVE  /\ \A v \in Answer(upstreamOffset) : v \in stream /\ v >= upstreamOffset
           /\ \A v \in Answer(upstreamOffset), u \in stream :
                 u < v => u \in Answer(upstreamOffset) \cup ingested \cup lost
<1> USE StoreAssumption, StreamAssumption
<1> DEFINE from == Max({confirmed, upstreamOffset})
           S == {u \in stream : u >= from}
<1>1. /\ confirmed \in UpdateId /\ upstreamOffset \in UpdateId /\ stream \in SUBSET UpdateId
      /\ Accounted(ingested, confirmed) /\ Accounted(ingested, upstreamOffset)
  BY DEF Sound, RecoveryTypeOK, PollerTypeOK, StoreTypeOK, RecoveryInv, OnlyRestoresLose
<1>2. from \in {confirmed, upstreamOffset} /\ upstreamOffset <= from
  <2>1. confirmed \in Int /\ upstreamOffset \in Int
    BY <1>1 DEF UpdateId
  <2> QED BY <2>1, MaxOfTwo
<1>3. Answer(upstreamOffset) = FirstN(S, PageLimit)
  BY DEF Answer
<1> HIDE DEF from
<1>4. S \in SUBSET UpdateId /\ \A u \in stream \ S : u \in ingested \cup lost
  <2>1. \A u \in stream \ S : u < from
    BY <1>1, <1>2 DEF UpdateId
  <2> QED BY <1>1, <1>2, <2>1 DEF Accounted
<1>5. \A v \in S : v \in stream /\ v >= upstreamOffset
  BY <1>1, <1>2 DEF UpdateId
<1> HIDE DEF S
<1>6. FirstN(S, PageLimit) \subseteq S
  BY DEF FirstN
<1>7. \A v \in FirstN(S, PageLimit), u \in S : u < v => u \in FirstN(S, PageLimit)
  BY <1>4, FirstNIsPrefix
<1> QED BY <1>3, <1>4, <1>5, <1>6, <1>7

(* Steps of the poller that leave the database alone. *)
LEMMA QuietStepIsSound ==
    ASSUME Sound, UNCHANGED recoveryVars,
           \/ ArriveLate \/ Stop \/ Initialize
           \/ PollAnswered \/ PollEmpty \/ AnswerRejected \/ PollAbandoned
           \/ IngestPaused \/ Advance \/ Wake
    PROVE  Sound'
<1> USE StoreAssumption, StreamAssumption
<1>1. UNCHANGED <<storeVars, stream, tool, copy, lost, restores>>
  BY DEF ArriveLate, Stop, Initialize, PollAnswered, PollEmpty, AnswerRejected,
         PollAbandoned, IngestPaused, Advance, Wake, telegramVars, recoveryVars
<1>2. UNCHANGED <<upstreamOffset, ingested>> /\ upstreamOffset \in UpdateId
  BY <1>1, AsksWhatIsStored DEF storeVars
<1>3. StoreTypeOK'
  BY <1>1, StoreUnchanged DEF Sound, RecoveryTypeOK, PollerTypeOK, RecoveryInv, RestoredIsSound
<1>4. PollerTypeOK /\ Anchored /\ BatchFollows /\ OffsetInStep /\ OnlyRestoresLose
  BY DEF Sound, RecoveryTypeOK, RecoveryInv, RestoredIsSound
<1>5. ASSUME NEW o, Abandon(o), o = upstreamOffset
      PROVE  /\ sent' \subseteq UpdateId
             /\ (\A x \in sent' : Accounted(ingested, x) /\ (x = 0 \/ x - 1 \in stream))
  <2>1. sent' \subseteq sent \cup {upstreamOffset}
    BY <1>5 DEF Abandon
  <2>2. \A x \in sent : x \in UpdateId /\ Accounted(ingested, x) /\ (x = 0 \/ x - 1 \in stream)
    BY <1>4 DEF PollerTypeOK, OnlyRestoresLose, Anchored
  <2> QED BY <2>1, <2>2, AsksWhatIsStored
<1>6. CASE ArriveLate
  <2>1. PICK o \in sent : Confirm(o) /\ sent' = sent \ {o}
    BY <1>6 DEF ArriveLate
  <2>2. o \in UpdateId /\ Accounted(ingested, o) /\ (o = 0 \/ o - 1 \in stream)
    BY <1>4 DEF PollerTypeOK, OnlyRestoresLose, Anchored
  <2>3. /\ confirmed' \in UpdateId
        /\ Accounted(ingested, confirmed)'
        /\ confirmed' = 0 \/ confirmed' - 1 \in stream
    BY <1>1, <1>2, <2>1, <2>2, ConfirmIsSound
  <2>4. UNCHANGED <<poller, offset, batch>>
    BY <1>6 DEF ArriveLate, pollerVars
  <2>5. PollerTypeOK'
    BY <1>1, <1>3, <1>4, <2>1, <2>3, <2>4 DEF PollerTypeOK
  <2>6. (\A x \in sent : Accounted(ingested, x))'
    BY <1>1, <1>2, <1>4, <2>1 DEF OnlyRestoresLose, Accounted
  <2>7. Anchored'
    BY <1>1, <1>2, <1>4, <2>1, <2>3 DEF Anchored
  <2>8. BatchFollows' /\ OffsetInStep'
    BY <1>1, <1>2, <1>4, <2>4 DEF BatchFollows, OffsetInStep, NextOffset
  <2> QED BY <1>1, <2>3, <2>5, <2>6, <2>7, <2>8, DatabaseUntouched
<1>7. CASE Stop \/ PollAbandoned
  <2>1. UNCHANGED confirmed /\ offset' \in UpdateId /\ poller' \in {"down", "sleep"}
    BY <1>4, <1>7 DEF Stop, PollAbandoned, PollerTypeOK, UpdateId
  <2>2. /\ sent' \subseteq UpdateId
        /\ (\A x \in sent' : Accounted(ingested, x) /\ (x = 0 \/ x - 1 \in stream))
    <3>1. CASE poller = "poll"
      BY <1>5, <1>7, <3>1, AsksWhatIsStored DEF Stop, PollAbandoned
    <3>2. CASE poller # "poll"
      <4>1. sent' = sent
        BY <1>7, <3>2 DEF Stop, PollAbandoned
      <4> QED BY <1>4, <4>1 DEF PollerTypeOK, OnlyRestoresLose, Anchored
    <3> QED BY <3>1, <3>2
  <2>3. batch' = {}
    BY <1>4, <1>7 DEF Stop, PollAbandoned, PollerTypeOK
  <2>4. PollerTypeOK'
    BY <1>1, <1>3, <1>4, <2>1, <2>2, <2>3 DEF PollerTypeOK, PollerState
  <2>5. Accounted(ingested, confirmed)' /\ (\A x \in sent : Accounted(ingested, x))'
    BY <1>1, <1>2, <1>4, <2>1, <2>2 DEF OnlyRestoresLose, Accounted
  <2>6. Anchored'
    BY <1>1, <1>2, <1>4, <2>1, <2>2 DEF Anchored
  <2>7. OffsetInStep'
    BY <1>2, <1>7, AsksWhatIsStored DEF Stop, PollAbandoned, OffsetInStep
  <2>8. BatchFollows'
    BY <2>1 DEF BatchFollows
  <2> QED BY <1>1, <2>4, <2>5, <2>6, <2>7, <2>8, DatabaseUntouched
<1>8. CASE PollEmpty \/ AnswerRejected
  <2>1. /\ Confirm(upstreamOffset) /\ offset = upstreamOffset
        /\ poller' \in {"poll", "sleep"} /\ UNCHANGED <<sent, offset, batch>>
    BY <1>8, AsksWhatIsStored DEF PollEmpty, AnswerRejected, pollerVars
  <2>2. /\ confirmed' \in UpdateId
        /\ Accounted(ingested, confirmed)'
        /\ confirmed' = 0 \/ confirmed' - 1 \in stream
    BY <1>1, <1>2, <2>1, AsksWhatIsStored, ConfirmIsSound
  <2>3. batch = {}
    BY <1>4, <1>8 DEF PollEmpty, AnswerRejected, PollerTypeOK
  <2>4. PollerTypeOK'
    BY <1>1, <1>3, <1>4, <2>1, <2>2, <2>3 DEF PollerTypeOK, PollerState
  <2>5. (\A x \in sent : Accounted(ingested, x))'
    BY <1>1, <1>2, <1>4, <2>1 DEF OnlyRestoresLose, Accounted
  <2>6. Anchored'
    BY <1>1, <1>2, <1>4, <2>1, <2>2 DEF Anchored
  <2>7. BatchFollows' /\ OffsetInStep'
    BY <1>2, <2>1 DEF BatchFollows, OffsetInStep
  <2> QED BY <1>1, <2>2, <2>4, <2>5, <2>6, <2>7, DatabaseUntouched
<1>9. CASE PollAnswered
  <2>1. /\ Confirm(upstreamOffset) /\ offset = upstreamOffset
        /\ batch' = Answer(upstreamOffset) /\ batch' # {}
        /\ poller' = "ingest" /\ UNCHANGED <<sent, offset>>
    BY <1>9, AsksWhatIsStored DEF PollAnswered
  <2>2. /\ confirmed' \in UpdateId
        /\ Accounted(ingested, confirmed)'
        /\ confirmed' = 0 \/ confirmed' - 1 \in stream
    BY <1>1, <1>2, <2>1, AsksWhatIsStored, ConfirmIsSound
  <2>3. /\ \A v \in batch' : v \in stream /\ v >= upstreamOffset
        /\ \A v \in batch', u \in stream : u < v => u \in batch' \cup ingested \cup lost
    BY <2>1, AnswerFollows
  <2>4. PollerTypeOK'
    BY <1>1, <1>3, <1>4, <2>1, <2>2, <2>3 DEF PollerTypeOK, PollerState
  <2>5. (\A x \in sent : Accounted(ingested, x))'
    BY <1>1, <1>2, <1>4, <2>1 DEF OnlyRestoresLose, Accounted
  <2>6. Anchored'
    BY <1>1, <1>2, <1>4, <2>1, <2>2 DEF Anchored
  <2>7. BatchFollows' /\ OffsetInStep'
    BY <1>1, <1>2, <2>1, <2>3 DEF BatchFollows, OffsetInStep
  <2> QED BY <1>1, <2>2, <2>4, <2>5, <2>6, <2>7, DatabaseUntouched
<1>10. CASE Initialize \/ IngestPaused \/ Advance \/ Wake
  <2>1. /\ offset' = upstreamOffset /\ batch' = {}
        /\ poller' \in {"poll", "sleep"} /\ UNCHANGED <<confirmed, sent>>
    BY <1>4, <1>10 DEF Initialize, IngestPaused, Advance, Wake, OffsetInStep, PollerTypeOK,
                       telegramVars
  <2>2. PollerTypeOK'
    BY <1>1, <1>2, <1>3, <1>4, <2>1 DEF PollerTypeOK, PollerState
  <2>3. Accounted(ingested, confirmed)' /\ (\A x \in sent : Accounted(ingested, x))'
    BY <1>1, <1>2, <1>4, <2>1 DEF OnlyRestoresLose, Accounted
  <2>4. Anchored' /\ BatchFollows' /\ OffsetInStep'
    BY <1>1, <1>2, <1>4, <2>1 DEF Anchored, BatchFollows, OffsetInStep
  <2> QED BY <1>1, <2>2, <2>3, <2>4, DatabaseUntouched
<1> QED BY <1>6, <1>7, <1>8, <1>9, <1>10

(* A committed batch: what the raised offset skips is stored or was lost.  *)
LEMMA IngestIsSound ==
    ASSUME Sound, IngestDone, UNCHANGED recoveryVars PROVE Sound'
<1> USE StoreAssumption, StreamAssumption
<1>1. batch \in SUBSET UpdateId /\ batch # {} /\ IngestCommits(batch)
  BY DEF Sound, RecoveryTypeOK, PollerTypeOK, IngestDone
<1>2. /\ poller = "ingest" /\ poller' = "signal"
      /\ UNCHANGED <<offset, batch, stream, confirmed, sent, tool, copy, lost, restores>>
  BY DEF IngestDone, telegramVars, recoveryVars
<1>3. StoreTypeOK' /\ StoreInv'
  BY <1>1, IngestKeeps DEF Sound, RecoveryTypeOK, PollerTypeOK, RecoveryInv, RestoredIsSound
<1>4. /\ RaiseOffset(batch) \in UpdateId
      /\ RaiseOffset(batch) >= upstreamOffset
      /\ RaiseOffset(batch) = upstreamOffset \/ \E u \in batch : RaiseOffset(batch) = u + 1
  BY <1>1, RaiseOffsetMax DEF IngestCommits, Sound, RecoveryTypeOK, PollerTypeOK, StoreTypeOK
<1>5. /\ upstreamOffset' = RaiseOffset(batch)
      /\ ingested' = ingested \cup batch
      /\ deliveries' = deliveries \cup RoutedBy(batch)
      /\ ackOffset' = ackOffset
  BY <1>1 DEF IngestCommits
<1>6. /\ \A v \in batch : v \in stream /\ v >= upstreamOffset
      /\ \A v \in batch, u \in stream : u < v => u \in batch \cup ingested \cup lost
  BY <1>2 DEF Sound, RecoveryInv, BatchFollows
<1>7. upstreamOffset \in UpdateId /\ stream \subseteq UpdateId
  BY DEF Sound, RecoveryTypeOK, PollerTypeOK, StoreTypeOK
<1>8. RecoveryTypeOK'
  BY <1>2, <1>3 DEF Sound, RecoveryTypeOK, PollerTypeOK, PollerState
<1>9. Accounted(ingested, upstreamOffset)'
  <2>1. CASE RaiseOffset(batch) = upstreamOffset
    BY <1>2, <1>5, <2>1, AsksWhatIsStored DEF Accounted
  <2>2. CASE \E v \in batch : RaiseOffset(batch) = v + 1
    <3>1. PICK v \in batch : RaiseOffset(batch) = v + 1
      BY <2>2
    <3>2. ASSUME NEW u \in stream, u < v + 1 PROVE u \in ingested \cup batch \cup lost
      <4>1. u < v \/ u = v
        BY <1>1, <1>7, <3>2 DEF UpdateId
      <4> QED BY <1>6, <4>1
    <3> QED BY <1>2, <1>5, <3>1, <3>2 DEF Accounted
  <2> QED BY <1>4, <2>1, <2>2
<1>10. OnlyRestoresLose'
  BY <1>2, <1>5, <1>9 DEF Sound, RecoveryInv, OnlyRestoresLose, Accounted
<1>11. Anchored'
  <2>1. RaiseOffset(batch) = 0 \/ RaiseOffset(batch) - 1 \in stream
    <3>1. CASE RaiseOffset(batch) = upstreamOffset
      BY <3>1, AsksWhatIsStored
    <3>2. CASE \E v \in batch : RaiseOffset(batch) = v + 1
      <4>1. PICK v \in batch : RaiseOffset(batch) = v + 1
        BY <3>2
      <4>2. v \in stream /\ v \in UpdateId
        BY <1>1, <1>6
      <4>3. RaiseOffset(batch) - 1 = v
        BY <4>1, <4>2 DEF UpdateId
      <4> QED BY <4>2, <4>3
    <3> QED BY <1>4, <3>1, <3>2
  <2> QED BY <1>2, <1>5, <2>1 DEF Sound, RecoveryInv, Anchored
<1>12. BatchFollows'
  BY <1>2 DEF BatchFollows
<1>13. OffsetInStep'
  <2>1. NextOffset(offset, batch) = RaiseOffset(batch)
    BY <1>2, NextOffsetIsRaised DEF Sound, RecoveryInv, RestoredIsSound, OffsetInStep
  <2> QED BY <1>2, <1>5, <2>1 DEF OffsetInStep, NextOffset
<1>14. AcksStay'
  <2>1. \A d \in RoutedBy(batch) : d[1] \in Client /\ d[2] \in batch /\ d[2] \notin ingested
    <3>1. \A u \in ingested : u \in UpdateId /\ u < upstreamOffset
      BY DEF Sound, RecoveryTypeOK, PollerTypeOK, StoreTypeOK, RecoveryInv, RestoredIsSound,
             StoreInv, WindowRetained
    <3>2. \A v \in batch : v \notin ingested
      BY <1>1, <1>6, <1>7, <3>1 DEF UpdateId
    <3> QED BY <3>2 DEF RoutedBy
  <2>2. /\ \A c \in Client : /\ ackOffset[c] \in UpdateId
                             /\ ackOffset[c] <= upstreamOffset \/ ackOffset[c] - 1 \in lost
        /\ \A d \in deliveries : d[2] >= ackOffset[d[1]] \/ d[2] \in lost
    BY DEF Sound, RecoveryTypeOK, PollerTypeOK, StoreTypeOK, RecoveryInv, RestoredIsSound, AcksKept
  <2>3. ASSUME NEW d \in RoutedBy(batch) PROVE d[2] >= ackOffset[d[1]] \/ d[2] \in lost
    <3>1. d[1] \in Client /\ d[2] \in UpdateId /\ d[2] >= upstreamOffset /\ d[2] \in stream
      BY <1>1, <1>6, <2>1
    <3>2. CASE ackOffset[d[1]] <= upstreamOffset
      BY <1>7, <2>2, <3>1, <3>2 DEF UpdateId
    <3>3. CASE ackOffset[d[1]] - 1 \in lost
      <4>1. d[2] >= ackOffset[d[1]] \/ d[2] = ackOffset[d[1]] - 1 \/ d[2] < ackOffset[d[1]] - 1
        BY <2>2, <3>1 DEF UpdateId
      <4>2. \A v \in lost : d[2] < v => d[2] \in ingested \cup lost
        BY <3>1 DEF Sound, RecoveryInv, LostIsPrefix
      <4> QED BY <2>1, <3>3, <4>1, <4>2
    <3> QED BY <2>2, <3>1, <3>2, <3>3
  <2>4. \A c \in Client : ackOffset[c] <= RaiseOffset(batch) \/ ackOffset[c] - 1 \in lost
    BY <1>4, <1>7, <2>2 DEF UpdateId
  <2> QED BY <1>2, <1>5, <2>2, <2>3, <2>4 DEF AcksStay, AcksKept
<1>15. CopyIsSound'
  BY <1>2 DEF Sound, RecoveryInv, CopyIsSound, AcksKept, Accounted
<1>16. LostIsPrefix'
  BY <1>2, <1>5, <1>6 DEF Sound, RecoveryInv, LostIsPrefix
<1> QED BY <1>3, <1>8, <1>10, <1>11, <1>12, <1>13, <1>14, <1>15, <1>16
        DEF Sound, RecoveryInv, RestoredIsSound, AcksStay

(* Steps that change only clients and their deliveries: an acknowledgment, *)
(* a restart or a tool.                                                    *)
LEMMA RowsOnly ==
    ASSUME Sound, PollerTypeOK', StoreInv', AcksStay',
           UNCHANGED <<upstreamOffset, ingested, offset, batch, telegramVars, copy, lost, restores>>,
           UNCHANGED poller \/ poller' = "start",
           tool' \in {"idle", "opened"}
    PROVE  Sound'
<1>1. RecoveryTypeOK'
  BY DEF Sound, RecoveryTypeOK
<1>2. OnlyRestoresLose' /\ Anchored'
  BY DEF Sound, RecoveryInv, OnlyRestoresLose, Accounted, Anchored, telegramVars
<1>3. BatchFollows' /\ OffsetInStep'
  BY DEF Sound, RecoveryInv, RestoredIsSound, BatchFollows, OffsetInStep, NextOffset, telegramVars
<1>4. CopyIsSound' /\ LostIsPrefix'
  BY DEF Sound, RecoveryInv, CopyIsSound, AcksKept, Accounted, LostIsPrefix, telegramVars
<1> QED BY <1>1, <1>2, <1>3, <1>4 DEF Sound, RecoveryInv, RestoredIsSound, AcksStay

LEMMA AckIsSound ==
    ASSUME Sound, NEW c \in Client, NEW off \in UpdateId, Acknowledge(c, off),
           off <= upstreamOffset \/ off - 1 \in lost,
           UNCHANGED <<pollerVars, telegramVars, recoveryVars>>
    PROVE  Sound'
<1> USE StoreAssumption, StreamAssumption
<1>0. StoreTypeOK /\ StoreInv /\ PollerTypeOK /\ AcksStay
  BY DEF Sound, RecoveryTypeOK, PollerTypeOK, RecoveryInv, RestoredIsSound, AcksStay
<1>1. off \in UpdateId
  OBVIOUS
<1>2. /\ StoreTypeOK' /\ StoreInv'
      /\ \A e \in Client : \/ ackOffset'[e] = ackOffset[e]
                           \/ e = c /\ ackOffset'[c] \in {ackOffset[c], off}
  BY <1>0, <1>1, AcknowledgeKeeps
<1>3. deliveries' = {d \in deliveries : d[1] # c \/ d[2] >= off}
  BY <1>0, <1>1, AcknowledgeRemoves
<1>4. UNCHANGED <<upstreamOffset, ingested>>
  BY DEF Acknowledge
<1>5. PollerTypeOK'
  BY <1>0, <1>2 DEF PollerTypeOK, pollerVars, telegramVars
<1>6. AcksStay'
  <2>1. \A d \in deliveries : d[1] \in Client
    BY <1>0 DEF StoreTypeOK
  <2>2. lost' = lost
    BY DEF recoveryVars
  <2>3. \A e \in Client : ackOffset'[e] <= upstreamOffset \/ ackOffset'[e] - 1 \in lost
    BY <1>0, <1>2 DEF AcksStay, AcksKept
  <2>4. \A d \in deliveries' : d[2] >= ackOffset'[d[1]] \/ d[2] \in lost
    BY <1>0, <1>2, <1>3, <2>1 DEF AcksStay, AcksKept
  <2> QED BY <1>4, <2>2, <2>3, <2>4 DEF AcksStay, AcksKept
<1>7. tool' \in {"idle", "opened"}
  BY DEF Sound, RecoveryTypeOK, recoveryVars
<1> QED BY <1>2, <1>4, <1>5, <1>6, <1>7, RowsOnly DEF pollerVars, recoveryVars

LEMMA ReconcileIsSound ==
    ASSUME Sound, NEW k \in Configs, Reconcile(k), cfg' \in Configs,
           UNCHANGED <<offset, batch, telegramVars, copy, lost, restores>>,
           UNCHANGED poller \/ (poller = "down" /\ poller' = "start"),
           tool' \in {"idle", "opened"}
    PROVE  Sound'
<1>0. StoreTypeOK /\ StoreInv /\ PollerTypeOK /\ AcksStay
  BY DEF Sound, RecoveryTypeOK, PollerTypeOK, RecoveryInv, RestoredIsSound, AcksStay
<1>1. StoreTypeOK' /\ StoreInv'
  BY <1>0, ReconcileKeeps
<1>2. /\ ackOffset' = [c \in Client |-> IF c \in k.clients THEN ackOffset[c] ELSE 0]
      /\ deliveries' = {d \in deliveries : d[1] \in k.clients}
      /\ UNCHANGED <<updates, upstreamOffset, ingested>>
  BY DEF Reconcile
<1>3. PollerTypeOK'
  BY <1>0, <1>1 DEF PollerTypeOK, PollerState, telegramVars
<1>4. AcksStay'
  <2>1. 0 <= upstreamOffset
    BY <1>0, StoreAssumption DEF StoreTypeOK, UpdateId
  <2>2. \A d \in deliveries : d[1] \in Client
    BY <1>0 DEF StoreTypeOK
  <2> QED BY <1>0, <1>2, <2>1, <2>2 DEF AcksStay, AcksKept
<1> QED BY <1>1, <1>2, <1>3, <1>4, RowsOnly

(* The backup is what the database is when it is copied. *)
LEMMA BackupIsSound ==
    ASSUME Sound, BackupFails \/ BackupCopies PROVE Sound'
<1>1. UNCHANGED <<storeVars, pollerVars, telegramVars, lost, restores>> /\ tool' = "idle"
  BY DEF BackupFails, BackupCopies, allPollerVars
<1>2. StoreTypeOK' /\ StoreInv' /\ AcksStay' /\ PollerTypeOK'
  BY <1>1, StoreUnchanged DEF Sound, RecoveryTypeOK, PollerTypeOK, RecoveryInv, RestoredIsSound,
                              AcksStay, AcksKept, storeVars, pollerVars, telegramVars
<1>3. UNCHANGED <<upstreamOffset, ingested, poller, offset, batch, stream, confirmed, sent>>
  BY <1>1 DEF storeVars, pollerVars, telegramVars
<1>4. OnlyRestoresLose' /\ BatchFollows' /\ OffsetInStep'
  BY <1>1, <1>3 DEF Sound, RecoveryInv, RestoredIsSound, OnlyRestoresLose, Accounted, BatchFollows,
                    OffsetInStep, NextOffset
<1>5. CASE copy' = copy
  <2>1. RecoveryTypeOK'
    BY <1>1, <1>2, <1>5 DEF Sound, RecoveryTypeOK
  <2>2. Anchored' /\ CopyIsSound' /\ LostIsPrefix'
    BY <1>1, <1>3, <1>5 DEF Sound, RecoveryInv, Anchored, CopyIsSound, AcksKept, Accounted,
                            LostIsPrefix
  <2> QED BY <1>2, <1>4, <2>1, <2>2 DEF Sound, RecoveryInv, RestoredIsSound, AcksStay
<1>6. CASE copy' = Contents
  <2>1. /\ StoreTypeOK /\ Referential /\ WindowRetained /\ AcksStay
        /\ Accounted(ingested, upstreamOffset)
    BY DEF Sound, RecoveryTypeOK, PollerTypeOK, RecoveryInv, RestoredIsSound, StoreInv,
           AcksStay, OnlyRestoresLose
  <2>2. RecoveryTypeOK'
    BY <1>1, <1>2, <1>6, <2>1 DEF Sound, RecoveryTypeOK, Contents, StoreTypeOK
  <2>3. Anchored' /\ LostIsPrefix'
    BY <1>1, <1>3, <1>6 DEF Sound, RecoveryInv, Anchored, LostIsPrefix, Contents
  <2>4. CopyIsSound'
    BY <1>1, <1>3, <1>6, <2>1 DEF CopyIsSound, Contents, Accounted, Referential, WindowRetained,
                                  AcksStay, AcksKept
  <2> QED BY <1>2, <1>4, <2>2, <2>3, <2>4 DEF Sound, RecoveryInv, RestoredIsSound, AcksStay
<1> QED BY <1>5, <1>6 DEF BackupFails, BackupCopies

(* A restoration loses what the backup does not have. *)
LEMMA RestoreIsSound ==
    ASSUME Sound, Restore PROVE Sound'
<1> USE StoreAssumption
<1>1. /\ copy \in [clients : SUBSET Client, ackOffset : [Client -> UpdateId],
                   updates : SUBSET UpdateId, deliveries : SUBSET (Client \X UpdateId),
                   offset : UpdateId, ingested : SUBSET UpdateId]
      /\ PollerTypeOK /\ StoreTypeOK /\ restores \in 0..MaxRestores
      /\ tool \in {"idle", "opened"}
  BY DEF Sound, RecoveryTypeOK, PollerTypeOK
<1>0. \A u \in ingested : u \in UpdateId /\ u < upstreamOffset
  BY <1>1 DEF StoreTypeOK, Sound, RecoveryInv, RestoredIsSound, StoreInv, WindowRetained
<1>2. CopyIsSound /\ Anchored /\ OnlyRestoresLose /\ LostIsPrefix
  BY DEF Sound, RecoveryInv
<1>3. /\ clients' = copy.clients /\ ackOffset' = copy.ackOffset /\ updates' = copy.updates
      /\ deliveries' = copy.deliveries /\ upstreamOffset' = copy.offset
      /\ ingested' = copy.ingested
      /\ lost' = lost \cup {u \in ingested : u >= copy.offset}
      /\ restores < MaxRestores /\ restores' = restores + 1
      /\ UNCHANGED <<cfg, poller, offset, batch, stream, confirmed, sent, tool, copy>>
      /\ poller = "down"
  BY DEF Restore, pollerVars, telegramVars
<1>4. StoreTypeOK'
  BY <1>1, <1>3 DEF StoreTypeOK
<1>5. RecoveryTypeOK'
  <2>1. PollerTypeOK'
    BY <1>1, <1>3, <1>4 DEF PollerTypeOK
  <2>2. lost' \subseteq {u \in UpdateId : u < MaxId}
    <3>1. \A u \in ingested : u < MaxId
      BY <1>0, <1>1 DEF StoreTypeOK, UpdateId
    <3> QED BY <1>0, <1>3, <3>1 DEF Sound, RecoveryTypeOK
  <2>3. restores' \in 0..MaxRestores
    BY <1>1, <1>3, RecoveryAssumption
  <2> QED BY <1>1, <1>3, <2>1, <2>2, <2>3 DEF RecoveryTypeOK
<1>6. ASSUME NEW o, Accounted(ingested, o), NEW u \in stream, u < o
      PROVE  u \in copy.ingested \cup lost'
  <2>1. u \in ingested \cup lost
    BY <1>6 DEF Accounted
  <2>2. u < copy.offset \/ u >= copy.offset
    <3>1. u \in UpdateId /\ copy.offset \in UpdateId
      BY <1>1, StreamAssumption DEF PollerTypeOK
    <3> QED BY <3>1 DEF UpdateId
  <2>3. CASE u < copy.offset
    BY <1>2, <1>3, <2>3 DEF CopyIsSound, Accounted
  <2> QED BY <1>3, <2>1, <2>2, <2>3
<1>7. OnlyRestoresLose' /\ CopyIsSound'
  <2>1. \A u \in stream : u < copy.offset => u \in copy.ingested \cup lost'
    BY <1>2, <1>3 DEF CopyIsSound, Accounted
  <2>2. OnlyRestoresLose'
    BY <1>2, <1>3, <1>6, <2>1 DEF OnlyRestoresLose, Accounted
  <2>3. CopyIsSound'
    BY <1>2, <1>3, <2>1 DEF CopyIsSound, AcksKept, Accounted
  <2> QED BY <2>2, <2>3
<1>8. Anchored' /\ BatchFollows' /\ OffsetInStep'
  BY <1>2, <1>3 DEF Anchored, BatchFollows, OffsetInStep
<1>9. StoreInv' /\ AcksStay'
  BY <1>2, <1>3 DEF CopyIsSound, StoreInv, Referential, WindowRetained, AcksStay, AcksKept
<1>10. LostIsPrefix'
  <2>1. ASSUME NEW v \in lost', NEW u \in stream, u < v
        PROVE  u \in copy.ingested \cup lost'
    <3>1. u \in ingested \cup lost
      <4>1. CASE v \in lost
        BY <1>2, <2>1, <4>1 DEF LostIsPrefix
      <4>2. CASE v \in ingested
        <5>1. v < upstreamOffset /\ v \in UpdateId
          BY <1>0, <4>2
        <5>2. u \in UpdateId /\ upstreamOffset \in UpdateId
          BY <1>1, StreamAssumption DEF PollerTypeOK, StoreTypeOK
        <5>3. u < upstreamOffset
          BY <2>1, <5>1, <5>2 DEF UpdateId
        <5> QED BY <1>2, <5>3 DEF OnlyRestoresLose, Accounted
      <4> QED BY <1>3, <2>1, <4>1, <4>2
    <3>2. u < copy.offset \/ u >= copy.offset
      <4>1. u \in UpdateId /\ copy.offset \in UpdateId
        BY <1>1, StreamAssumption DEF PollerTypeOK
      <4> QED BY <4>1 DEF UpdateId
    <3>3. CASE u < copy.offset
      BY <1>2, <1>3, <3>3 DEF CopyIsSound, Accounted
    <3> QED BY <1>3, <3>1, <3>2, <3>3
  <2>2. copy.ingested \cup lost' \subseteq stream
    BY <1>2, <1>3 DEF LostIsPrefix
  <2> QED BY <1>3, <2>1, <2>2 DEF LostIsPrefix
<1> QED BY <1>5, <1>7, <1>8, <1>9, <1>10 DEF Sound, RecoveryInv, RestoredIsSound, AcksStay

LEMMA RecoveryInitIsSound == RecoveryInit => Sound
<1> SUFFICES ASSUME RecoveryInit PROVE Sound
  OBVIOUS
<1>1. PollerTypeOK /\ PollerInv
  BY PollerInitKeeps DEF RecoveryInit
<1>2. /\ tool = "idle" /\ lost = {} /\ restores = 0 /\ stream = {} /\ confirmed = 0 /\ sent = {}
      /\ poller = "down" /\ upstreamOffset = 0 /\ ingested = {}
      /\ copy = [clients |-> {}, ackOffset |-> [c \in Client |-> 0], updates |-> {},
                 deliveries |-> {}, offset |-> 0, ingested |-> {}]
  BY DEF RecoveryInit, PollerInit, StoreInit, Contents
<1>3. RecoveryTypeOK
  BY <1>1, <1>2, StoreAssumption, RecoveryAssumption DEF RecoveryTypeOK, UpdateId
<1>4. RestoredIsSound
  BY <1>1 DEF PollerInv, AcksHold, AcksKept, RestoredIsSound
<1>5. OnlyRestoresLose /\ Anchored /\ LostIsPrefix /\ BatchFollows
  BY <1>2 DEF OnlyRestoresLose, Accounted, Anchored, LostIsPrefix, BatchFollows
<1>6. CopyIsSound
  BY <1>2 DEF Accounted, AcksKept, CopyIsSound
<1> QED BY <1>3, <1>4, <1>5, <1>6 DEF Sound, RecoveryInv

(* Every step of the service, the clients, the tools and the operator.     *)
LEMMA RecoveryNextIsSound == Sound /\ [RecoveryNext]_allRecoveryVars => Sound'
<1> SUFFICES ASSUME Sound, [RecoveryNext]_allRecoveryVars PROVE Sound'
  OBVIOUS
<1>0. tool \in {"idle", "opened"} /\ cfg \in Configs
  BY DEF Sound, RecoveryTypeOK, PollerTypeOK, StoreTypeOK
<1>1. CASE UpstreamStep /\ UNCHANGED recoveryVars
  <2>1. CASE Produce
    BY <1>1, <2>1, ProduceIsSound
  <2>2. CASE \E k \in Configs : Start(k)
    <3>1. PICK k \in Configs : Start(k)
      BY <2>2
    <3>2. /\ Reconcile(k) /\ cfg' = k /\ poller = "down" /\ poller' = "start"
          /\ UNCHANGED <<offset, batch, telegramVars>>
      BY <3>1 DEF Start, Open
    <3> QED BY <1>0, <1>1, <3>2, ReconcileIsSound DEF recoveryVars
  <2>3. CASE IngestDone
    BY <1>1, <2>3, IngestIsSound
  <2>4. CASE IngestFatal
    BY <1>1, <2>4, QuietStepIsSound DEF IngestFatal
  <2>5. CASE ArriveLate \/ Stop \/ Initialize \/ PollAnswered \/ PollEmpty \/ AnswerRejected
             \/ PollAbandoned \/ IngestPaused \/ Advance \/ Wake
    BY <1>1, <2>5, QuietStepIsSound
  <2> QED BY <1>1, <2>1, <2>2, <2>3, <2>4, <2>5 DEF UpstreamStep, PollerStep
<1>2. CASE (\E c \in cfg.clients : ClientAcks(c)) /\ UNCHANGED recoveryVars
  <2>1. PICK c \in cfg.clients : ClientAcks(c)
    BY <1>2
  <2>2. c \in Client
    BY <1>0, <2>1, StoreAssumption DEF Config
  <2>3. PICK off \in 1..upstreamOffset : Acknowledge(c, off)
    BY <2>1 DEF ClientAcks
  <2>4. UNCHANGED <<pollerVars, telegramVars, recoveryVars>>
    BY <1>2, <2>1 DEF ClientAcks
  <2>5. off \in UpdateId /\ off <= upstreamOffset
    BY <2>3, StoreAssumption DEF Sound, RecoveryTypeOK, PollerTypeOK, StoreTypeOK, UpdateId
  <2> QED BY <2>2, <2>3, <2>4, <2>5, AckIsSound
<1>3. CASE \E k \in Configs : RunTool(k) /\ UNCHANGED <<copy, lost, restores>>
                                        /\ tool' \in {"idle", "opened"}
  <2>1. PICK k \in Configs : RunTool(k) /\ UNCHANGED <<copy, lost, restores>>
                                        /\ tool' \in {"idle", "opened"}
    BY <1>3
  <2>2. Reconcile(k) /\ UNCHANGED <<cfg, poller, offset, batch, telegramVars>>
    BY <2>1 DEF RunTool, pollerVars
  <2>3. cfg' \in Configs
    BY <1>0, <2>2
  <2> QED BY <2>1, <2>2, <2>3, ReconcileIsSound
<1>4. CASE BackupFails \/ BackupCopies
  BY <1>4, BackupIsSound
<1>5. CASE Restore
  BY <1>5, RestoreIsSound
<1>6. CASE UNCHANGED allRecoveryVars
  <2>1. UNCHANGED <<storeVars, pollerVars, telegramVars, recoveryVars>>
    BY <1>6 DEF allRecoveryVars, allPollerVars
  <2>2. StoreTypeOK' /\ StoreInv' /\ PollerTypeOK'
    BY <2>1, StoreUnchanged DEF Sound, RecoveryTypeOK, PollerTypeOK, RecoveryInv,
                                RestoredIsSound, pollerVars, telegramVars
  <2>3. AcksStay'
    BY <2>1 DEF Sound, RecoveryInv, RestoredIsSound, AcksStay, AcksKept, storeVars, recoveryVars
  <2> QED BY <1>0, <2>1, <2>2, <2>3, RowsOnly DEF storeVars, pollerVars, recoveryVars
<1>7. CASE \E k \in Configs : BackupOpens(k)
  BY <1>3, <1>7 DEF BackupOpens
<1>8. CASE ToolsNext /\ UNCHANGED recoveryVars
  BY <1>0, <1>1, <1>2, <1>3, <1>8 DEF ToolsNext, PollerNext, recoveryVars
<1>9. CASE \E c \in cfg.clients : BotGoesOn(c)
  <2>1. PICK c \in cfg.clients : BotGoesOn(c)
    BY <1>9
  <2>2. c \in Client
    BY <1>0, <2>1, StoreAssumption DEF Config
  <2>3. ASSUME NEW off, NEW u \in lost, off = u + 1
        PROVE  off \in UpdateId /\ off - 1 \in lost
    <3>1. u \in UpdateId /\ u < MaxId
      BY DEF Sound, RecoveryTypeOK
    <3>2. off \in UpdateId /\ off - 1 = u
      BY <2>3, <3>1, StoreAssumption DEF UpdateId
    <3> QED BY <3>2
  <2>4. PICK off : (\E u \in lost : off = u + 1) /\ Acknowledge(c, off)
    BY <2>1, Zenon DEF BotGoesOn
  <2>5. UNCHANGED <<pollerVars, telegramVars, recoveryVars>>
    BY <2>1 DEF BotGoesOn
  <2> QED BY <2>2, <2>3, <2>4, <2>5, AckIsSound
<1> QED BY <1>4, <1>5, <1>6, <1>7, <1>8, <1>9 DEF RecoveryNext

(* The inductive invariant holds however often backups are taken, fail and *)
(* are restored.                                                           *)
THEOREM RecoverySafe == RecoverySpec => [](RecoveryTypeOK /\ RecoveryInv)
<1>1. RecoverySpec => []Sound
  BY RecoveryInitIsSound, RecoveryNextIsSound, PTL DEF RecoverySpec
<1>2. Sound => RecoveryTypeOK /\ RecoveryInv
  BY DEF Sound
<1> QED BY <1>1, <1>2, PTL

(* What Telegram has forgotten is stored, or a restoration lost it: a      *)
(* restored database, whose offset is behind, is never the reason.         *)
THEOREM OnlyRestoresLoseUpdates == RecoverySpec => []OnlyRestoresLose
<1>1. RecoveryInv => OnlyRestoresLose
  BY DEF RecoveryInv
<1> QED BY <1>1, RecoverySafe, PTL

(* A restored database is as good as one that grew. *)
THEOREM RestoredDatabaseIsSound == RecoverySpec => []RestoredIsSound
<1>1. RecoveryInv => RestoredIsSound
  BY DEF RecoveryInv
<1> QED BY <1>1, RecoverySafe, PTL
=============================================================================
