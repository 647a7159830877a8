----------------------------- MODULE MuxProofs -----------------------------
(***************************************************************************)
(* Proofs about the whole multiplexer, for any number of bots and of       *)
(* overlapping requests, all offsets, limits and configurations.           *)
(***************************************************************************)
EXTENDS Queues, PollerProofs

(* A limit of any value gives a page with room. *)
LEMMA LimitIsPositive ==
    ASSUME NEW limit \in Int PROVE NormalizeLimit(limit) \in Nat \ {0}
BY StoreAssumption DEF NormalizeLimit

----------------------------------------------------------------------------
(* A request resolves its offset to one its bot has reached, or to an      *)
(* update that is pending.                                                 *)
LEMMA ResolvedIsReached ==
    ASSUME MuxTypeOK, MuxInv, NEW r \in Request
    PROVE  /\ Resolved(handler[r]) \in UpdateId
           /\ Resolved(handler[r]) <= upstreamOffset
           /\ handler[r].offset >= 0 => Resolved(handler[r]) = handler[r].offset
<1> DEFINE h == handler[r]
           c == h.client
<1> USE StoreAssumption
<1>1. h \in Handler /\ c \in Client /\ h.offset \in Int
  BY DEF MuxTypeOK, Handler
<1>2. upstreamOffset \in UpdateId /\ next[c] \in UpdateId
  BY <1>1 DEF MuxTypeOK, PollerTypeOK, StoreTypeOK
<1>3. h.offset <= next[c] /\ next[c] <= upstreamOffset
  BY <1>1 DEF MuxInv, RequestsInStep, InStep, NextIsSeen
<1>4. CASE h.offset >= 0
  BY <1>1, <1>2, <1>3, <1>4 DEF Resolved, UpdateId
<1>5. CASE h.offset < 0
  <2> DEFINE n == Negate(h.offset)
             last == IF n < 0 THEN Pending(c) ELSE LastN(Pending(c), Min({n, PageLimit}))
  <2>1. Resolved(h) = IF last = {} THEN 0 ELSE Min(last)
    BY <1>5 DEF Resolved, NegativeOffset
  <2>2. last \subseteq Pending(c) /\ Pending(c) \subseteq UpdateId
    BY DEF LastN, Pending, PendingIn
  <2>3. \A u \in Pending(c) : u \in UpdateId /\ u < upstreamOffset
    <3> SUFFICES ASSUME NEW u \in Pending(c) PROVE u \in UpdateId /\ u < upstreamOffset
      OBVIOUS
    <3>1. u \in UpdateId /\ <<c, u>> \in deliveries
      BY DEF Pending, PendingIn
    <3>2. u \in ingested
      BY <3>1 DEF MuxInv, OwedIsStored
    <3> QED BY <3>1, <3>2 DEF MuxInv, PollerInv, StoreInv, WindowRetained
  <2> HIDE DEF last, h, c
  <2>4. last \subseteq Nat
    BY <2>2 DEF UpdateId
  <2>5. Resolved(h) = 0 \/ Resolved(h) \in last
    BY <2>1, <2>4, MinOfBounded
  <2>6. CASE Resolved(h) = 0
    BY <1>1, <1>2, <1>5, <2>6 DEF UpdateId, h
  <2>7. CASE Resolved(h) \in last
    <3>1. Resolved(h) \in UpdateId /\ Resolved(h) < upstreamOffset
      BY <2>2, <2>3, <2>7
    <3> QED BY <1>1, <1>2, <1>5, <3>1 DEF UpdateId, h
  <2> QED BY <2>5, <2>6, <2>7
<1> QED BY <1>1, <1>4, <1>5

(* The page a request reads leaves no gap. *)
LEMMA QueryLeavesNoGap ==
    ASSUME MuxTypeOK, MuxInv, NEW r \in Request, handler[r].pc = "query",
           NEW u \in QueryUpdates(handler[r].client, handler[r].at, handler[r].limit)
    PROVE  /\ u \in UpdateId /\ u < upstreamOffset
           /\ <<handler[r].client, u>> \in owed
           /\ \A d \in owed : d[1] = handler[r].client /\ d[2] < u =>
                 \/ d[2] \in QueryUpdates(handler[r].client, handler[r].at, handler[r].limit)
                 \/ d[2] \in seen[d[1]] \cup forgotten[d[1]]
<1> DEFINE h == handler[r]
           c == h.client
           S == {v \in Pending(c) : h.at = 0 \/ v >= h.at}
           n == NormalizeLimit(h.limit)
<1> USE StoreAssumption
<1>1. h \in Handler /\ c \in Client /\ h.limit \in Int /\ h.at \in UpdateId
  BY DEF MuxTypeOK, Handler
<1>2. n \in Nat
  BY <1>1, LimitIsPositive
<1>3. S \in SUBSET UpdateId
  BY DEF Pending, PendingIn
<1>4. QueryUpdates(c, h.at, h.limit) = FirstN(S, n)
  BY DEF QueryUpdates
<1>5. h.at = 0 \/ \A v \in Pending(c) : v >= h.at
  BY <1>1 DEF MuxInv, RequestsInStep, InStep, UpdateId
<1>6. S = Pending(c)
  BY <1>5
<1>7. u \in Pending(c)
  BY <1>4, <1>6 DEF FirstN
<1>8. u \in UpdateId /\ u < upstreamOffset /\ <<c, u>> \in owed
  <2>1. u \in UpdateId /\ <<c, u>> \in deliveries
    BY <1>7 DEF Pending, PendingIn
  <2>2. u \in ingested /\ <<c, u>> \in owed
    BY <2>1 DEF MuxInv, OwedIsStored
  <2> QED BY <2>1, <2>2 DEF MuxInv, PollerInv, StoreInv, WindowRetained
<1>9. ASSUME NEW d \in owed, d[1] = c, d[2] < u, d \in deliveries
      PROVE  d[2] \in QueryUpdates(c, h.at, h.limit)
  <2>1. d[2] \in Pending(c)
    BY <1>9 DEF Pending, PendingIn, MuxTypeOK, PollerTypeOK, StoreTypeOK
  <2>2. u \in FirstN(S, n)
    BY <1>4
  <2> HIDE DEF S, n, c, h
  <2>3. d[2] \in FirstN(S, n)
    BY <1>2, <1>3, <1>6, <1>9, <2>1, <2>2, FirstNIsPrefix
  <2> QED BY <1>4, <2>3
<1> QED BY <1>8, <1>9 DEF MuxInv, NoLoss

----------------------------------------------------------------------------
(* One lemma for each kind of step *)

(* Where a request that has ended is. *)
LEMMA IdleFacts == Idle.pc = "idle" /\ Idle.page = {}
<1> QED BY DEF Idle

(* A request that has not begun asks for nothing. *)
LEMMA IdleIsInStep ==
    ASSUME next \in [Client -> UpdateId], upstreamOffset \in UpdateId
    PROVE  Idle \in Handler /\ InStep(Idle) /\ NoGap(Idle)
<1> USE StoreAssumption
<1>1. Client # {}
  BY DEF Config
<1>2. Idle.client \in Client
  BY <1>1 DEF Idle
<1>3. next[Idle.client] \in UpdateId
  BY <1>2
<1>4. Idle \in Handler
  BY <1>2 DEF Idle, Handler, HandlerState, UpdateId
<1>5. InStep(Idle)
  BY <1>3 DEF InStep, Idle, UpdateId
<1> QED BY <1>4, <1>5 DEF NoGap, Idle

(* The initial state. *)
LEMMA MuxInitKeeps == MuxInit => MuxTypeOK /\ MuxInv
<1> SUFFICES ASSUME MuxInit PROVE MuxTypeOK /\ MuxInv
  OBVIOUS
<1> USE StoreAssumption
<1>1. PollerTypeOK /\ PollerInv
  BY PollerInitKeeps DEF MuxInit
<1>2. upstreamOffset = 0 /\ deliveries = {}
  BY DEF MuxInit, PollerInit, StoreInit
<1>3. next \in [Client -> UpdateId] /\ \A c \in Client : next[c] = 0
  BY DEF MuxInit, UpdateId
<1>4. Idle \in Handler /\ InStep(Idle) /\ NoGap(Idle)
  BY <1>1, <1>3, IdleIsInStep DEF PollerTypeOK, StoreTypeOK
<1>5. \A r \in Request : handler[r] = Idle
  BY DEF MuxInit
<1>6. MuxTypeOK
  BY <1>1, <1>3, <1>4 DEF MuxInit, MuxTypeOK
<1>7. RequestsInStep /\ PageHasNoGap
  BY <1>4, <1>5 DEF RequestsInStep, PageHasNoGap, Idle
<1>8. OwedIsStored /\ NextIsSeen /\ NoLoss
  BY <1>2, <1>3 DEF MuxInit, OwedIsStored, NextIsSeen, NoLoss
<1> QED BY <1>1, <1>6, <1>7, <1>8 DEF MuxInv

(* A step of a single request that only moves it on. *)
LEMMA RequestMoves ==
    ASSUME MuxTypeOK, MuxInv, NEW r \in Request, NEW h \in Handler,
           InStep(h), NoGap(h), poller = "down" => h = Idle,
           handler' = [handler EXCEPT ![r] = h],
           awaiting' \in [Client -> Request \cup {NoRequest}],
           UNCHANGED <<allPollerVars, next, seen, forgotten, owed>>
    PROVE  MuxTypeOK' /\ MuxInv'
<1>1. UNCHANGED <<storeVars, pollerVars, telegramVars, next, seen, forgotten, owed>>
  BY DEF allPollerVars
<1>2. PollerTypeOK' /\ PollerInv'
  BY <1>1, PollerNextKeeps DEF MuxTypeOK, MuxInv, allPollerVars
<1>3. MuxTypeOK'
  BY <1>1, <1>2 DEF MuxTypeOK
<1>4. /\ handler'[r] = h
      /\ \A s \in Request : s # r => handler'[s] = handler[s]
  BY DEF MuxTypeOK
<1>5. UNCHANGED <<poller, deliveries, upstreamOffset, ingested>>
  BY <1>1 DEF storeVars, pollerVars
<1>6. RequestsInStep'
  BY <1>1, <1>4, <1>5 DEF MuxInv, RequestsInStep, InStep, Pending, PendingIn
<1>7. PageHasNoGap'
  BY <1>1, <1>4, <1>5 DEF MuxInv, PageHasNoGap, NoGap
<1>8. OwedIsStored' /\ NextIsSeen' /\ NoLoss'
  BY <1>1, <1>5 DEF MuxInv, OwedIsStored, NextIsSeen, NoLoss
<1> QED BY <1>2, <1>3, <1>6, <1>7, <1>8 DEF MuxInv

(* A step of the poller or the process that routes and opens nothing: at   *)
(* most it wakes requests or ends them.                                    *)
LEMMA ProcessMoves ==
    ASSUME MuxTypeOK, MuxInv, PollerTypeOK', PollerInv',
           UNCHANGED <<deliveries, upstreamOffset, ingested, next, seen, forgotten, owed>>,
           handler' \in [Request -> Handler],
           awaiting' \in [Client -> Request \cup {NoRequest}],
           \A r \in Request : \/ handler'[r] = Idle
                              \/ handler'[r] = [handler[r] EXCEPT !.woken = TRUE]
                              \/ handler'[r] = handler[r],
           poller' = "down" => \/ \A r \in Request : handler'[r] = Idle
                               \/ poller = "down" /\ \A r \in Request : handler'[r] = handler[r]
    PROVE  MuxTypeOK' /\ MuxInv'
<1>1. MuxTypeOK'
  BY DEF MuxTypeOK
<1>2. Idle \in Handler /\ InStep(Idle) /\ NoGap(Idle) /\ Idle.pc = "idle"
  BY IdleIsInStep DEF MuxTypeOK, PollerTypeOK, StoreTypeOK, Idle
<1>3. ASSUME NEW r \in Request
      PROVE  \/ handler'[r] = Idle
             \/ /\ handler'[r].pc = handler[r].pc
                /\ handler'[r].client = handler[r].client
                /\ handler'[r].offset = handler[r].offset
                /\ handler'[r].at = handler[r].at
                /\ handler'[r].page = handler[r].page
  <2>1. handler[r] \in Handler
    BY DEF MuxTypeOK
  <2> QED BY <2>1 DEF Handler
<1>4. ASSUME NEW r \in Request PROVE InStep(handler[r])'
  BY <1>2, <1>3 DEF MuxInv, RequestsInStep, InStep, Pending, PendingIn
<1>5. ASSUME NEW r \in Request PROVE NoGap(handler[r])'
  BY <1>2, <1>3 DEF MuxInv, PageHasNoGap, NoGap
<1>6. RequestsInStep'
  BY <1>2, <1>3, <1>4 DEF MuxInv, RequestsInStep
<1>7. PageHasNoGap'
  BY <1>5 DEF PageHasNoGap
<1>8. OwedIsStored' /\ NextIsSeen' /\ NoLoss'
  BY DEF MuxInv, OwedIsStored, NextIsSeen, NoLoss
<1> QED BY <1>1, <1>6, <1>7, <1>8 DEF MuxInv

(* An acknowledgment removes what its bot has seen or forgets. *)
LEMMA AckKeeps ==
    ASSUME MuxTypeOK, MuxInv, NEW r \in Request, Ack(r) PROVE MuxTypeOK' /\ MuxInv'
<1> DEFINE h == handler[r]
           c == h.client
<1> USE StoreAssumption
<1>1. h \in Handler /\ c \in Client /\ h.at \in UpdateId /\ h.offset \in Int
  BY DEF MuxTypeOK, Handler
<1>2. /\ h.pc = "ack"
      /\ Acknowledge(c, h.at)
      /\ handler' = [handler EXCEPT ![r].pc = "query"]
      /\ UNCHANGED <<pollerVars, telegramVars, awaiting, next, seen, owed>>
      /\ forgotten' = IF h.offset >= 0 THEN forgotten
                      ELSE [forgotten EXCEPT ![c] = @ \cup {u \in Pending(c) : u < h.at}]
  BY DEF Ack, Goto
<1>3. /\ h.at > 0 /\ h.at <= upstreamOffset
      /\ h.offset >= 0 => h.at = h.offset
      /\ h.offset <= next[c]
  BY <1>2 DEF MuxInv, RequestsInStep, InStep
<1>4. /\ upstreamOffset \in UpdateId /\ deliveries \subseteq Client \X UpdateId
      /\ next[c] \in UpdateId
  BY <1>1 DEF MuxTypeOK, PollerTypeOK, StoreTypeOK
<1>5. h.at \in 1..upstreamOffset
  BY <1>1, <1>3, <1>4 DEF UpdateId
<1>6. PollerTypeOK' /\ PollerInv'
  BY <1>1, <1>2, <1>5, ClientAcksKeeps DEF MuxTypeOK, MuxInv
<1>7. deliveries' = {d \in deliveries : d[1] # c \/ d[2] >= h.at}
  BY <1>1, <1>2, AcknowledgeRemoves DEF MuxTypeOK, PollerTypeOK, MuxInv, PollerInv
<1>8. UNCHANGED <<upstreamOffset, ingested>>
  BY <1>2 DEF Acknowledge
<1>9. Pending(c) \subseteq UpdateId
  BY DEF Pending, PendingIn
<1>10. /\ forgotten' \in [Client -> SUBSET UpdateId]
       /\ \A e \in Client : forgotten[e] \subseteq forgotten'[e]
       /\ h.offset < 0 => {u \in Pending(c) : u < h.at} \subseteq forgotten'[c]
  <2>1. forgotten \in [Client -> SUBSET UpdateId]
    BY DEF MuxTypeOK
  <2> DEFINE drop == {u \in Pending(c) : u < h.at}
  <2>2. drop \subseteq UpdateId
    BY <1>9
  <2>3. forgotten' = IF h.offset >= 0 THEN forgotten
                     ELSE [forgotten EXCEPT ![c] = forgotten[c] \cup drop]
    BY <1>2
  <2>4. c \in Client
    BY <1>1
  <2>5. ~(h.offset >= 0) <=> h.offset < 0
    BY <1>1
  <2> HIDE DEF h, c, drop
  <2>6. /\ forgotten' \in [Client -> SUBSET UpdateId]
        /\ \A e \in Client : forgotten[e] \subseteq forgotten'[e]
        /\ h.offset < 0 => drop \subseteq forgotten'[c]
    BY <2>1, <2>2, <2>3, <2>4, <2>5
  <2> QED BY <2>6 DEF drop
<1>11. /\ \A s \in Request : s # r => handler'[s] = handler[s]
       /\ handler'[r] = [h EXCEPT !.pc = "query"]
       /\ handler' \in [Request -> Handler]
  BY <1>1, <1>2 DEF MuxTypeOK, Handler, HandlerState
<1>12. MuxTypeOK'
  BY <1>2, <1>6, <1>10, <1>11 DEF MuxTypeOK
<1>13. ASSUME NEW d \in owed PROVE d[1] \in Client /\ d[2] \in UpdateId /\ d = <<d[1], d[2]>>
  BY DEF MuxTypeOK
<1>14. RequestsInStep'
  <2>1. \A e \in Client : Pending(e)' \subseteq Pending(e)
    BY <1>7 DEF Pending, PendingIn
  <2>2. \A u \in UpdateId : <<c, u>> \in deliveries' => u >= h.at
    BY <1>7
  <2>3. ASSUME NEW s \in Request, s # r PROVE InStep(handler[s])'
    <3>1. handler[s].client \in Client
      BY DEF MuxTypeOK, Handler
    <3>2. InStep(handler[s])
      BY DEF MuxInv, RequestsInStep
    <3>3. handler'[s] = handler[s] /\ UNCHANGED <<next, upstreamOffset, owed>>
      BY <1>2, <1>8, <1>11, <2>3
    <3> QED BY <2>1, <3>1, <3>2, <3>3 DEF InStep
  <2>4. InStep(handler[r])'
    <3>1. InStep(h)
      BY DEF MuxInv, RequestsInStep
    <3>2. /\ handler'[r].pc = "query" /\ handler'[r].client = c
          /\ handler'[r].offset = h.offset /\ handler'[r].at = h.at
          /\ handler'[r].page = h.page
      BY <1>1, <1>11 DEF Handler
    <3>3. UNCHANGED <<next, upstreamOffset, owed>>
      BY <1>2, <1>8
    <3>4. \A u \in Pending(handler[r].client)' : u >= handler'[r].at
      BY <2>2, <3>2 DEF Pending, PendingIn
    <3> HIDE DEF h, c
    <3> QED BY <3>1, <3>2, <3>3, <3>4 DEF InStep, c
  <2>5. poller' # "down"
    <3>1. handler[r] # Idle
      BY <1>2, IdleFacts
    <3> QED BY <1>2, <3>1 DEF MuxInv, RequestsInStep, pollerVars
  <2> QED BY <2>3, <2>4, <2>5 DEF RequestsInStep
<1>15. PageHasNoGap'
  <2>1. ASSUME NEW s \in Request
        PROVE  handler'[s].client = handler[s].client /\ handler'[s].page = handler[s].page
    BY <1>1, <1>11 DEF Handler
  <2> QED BY <1>2, <1>10, <1>13, <2>1 DEF MuxInv, PageHasNoGap, NoGap
<1>16. OwedIsStored' /\ NextIsSeen'
  <2>1. Pending(c) \subseteq ingested
    BY DEF Pending, PendingIn, MuxInv, OwedIsStored
  <2>2. \A e \in Client : forgotten'[e] \subseteq forgotten[e] \cup ingested
    <3>1. forgotten \in [Client -> SUBSET UpdateId] /\ c \in Client
      BY <1>1 DEF MuxTypeOK
    <3> HIDE DEF c, h
    <3> QED BY <1>2, <2>1, <3>1
  <2>3. OwedIsStored'
    BY <1>2, <1>7, <1>8, <2>2 DEF MuxInv, OwedIsStored
  <2>4. NextIsSeen'
    BY <1>2, <1>8, <1>10, <1>13 DEF MuxInv, NextIsSeen
  <2> QED BY <2>3, <2>4
<1>17. NoLoss'
  <2> SUFFICES ASSUME NEW d \in owed, d \notin deliveries'
               PROVE  d[2] \in seen[d[1]] \cup forgotten'[d[1]]
    BY <1>2 DEF NoLoss
  <2>1. CASE d \notin deliveries
    BY <1>10, <1>13, <2>1 DEF MuxInv, NoLoss
  <2>2. CASE d \in deliveries
    <3>1. d[1] = c /\ d[2] < h.at
      BY <1>1, <1>7, <1>13, <2>2 DEF UpdateId
    <3>2. CASE h.offset >= 0
      <4>1. d[2] < next[c]
        BY <1>1, <1>3, <1>4, <1>13, <3>1, <3>2 DEF UpdateId
      <4> QED BY <1>10, <1>13, <3>1, <4>1 DEF MuxInv, NextIsSeen
    <3>3. CASE h.offset < 0
      <4>1. d[2] \in Pending(c)
        BY <1>13, <2>2, <3>1 DEF Pending, PendingIn
      <4> QED BY <1>10, <3>1, <3>3, <4>1
    <3> QED BY <1>1, <3>2, <3>3
  <2> QED BY <2>1, <2>2
<1> QED BY <1>6, <1>12, <1>14, <1>15, <1>16, <1>17 DEF MuxInv

(* What an ingest routes lies above everything a bot has reached or a      *)
(* request has read.                                                       *)
LEMMA MuxIngestKeeps ==
    ASSUME MuxTypeOK, MuxInv, MuxIngest PROVE MuxTypeOK' /\ MuxInv'
<1> USE StoreAssumption, StreamAssumption
<1>1. /\ IngestDone
      /\ owed' = owed \cup RoutedBy(batch)
      /\ UNCHANGED <<handler, awaiting, next, seen, forgotten>>
  BY DEF MuxIngest, botVars
<1>2. PollerTypeOK' /\ PollerInv'
  BY <1>1, IngestDoneKeeps DEF MuxTypeOK, MuxInv
<1>3. /\ poller = "ingest" /\ poller' = "signal"
      /\ deliveries' = deliveries \cup RoutedBy(batch)
      /\ upstreamOffset' = RaiseOffset(batch)
      /\ ingested' = ingested \cup batch
      /\ CanIncrement(batch)
  BY <1>1 DEF IngestDone, IngestCommits
<1>4. batch \in SUBSET UpdateId /\ upstreamOffset \in UpdateId
  BY DEF MuxTypeOK, PollerTypeOK, StoreTypeOK
<1>5. RaiseOffset(batch) \in UpdateId /\ RaiseOffset(batch) >= upstreamOffset
  BY <1>3, <1>4, RaiseOffsetMax
<1>6. ASSUME NEW d \in RoutedBy(batch)
      PROVE  d \in Client \X UpdateId /\ d[2] \in batch /\ d[2] >= upstreamOffset
  BY <1>3, <1>4 DEF RoutedBy, MuxInv, PollerInv, BatchIsNext
<1>7. ASSUME NEW c \in Client
      PROVE  next[c] \in UpdateId /\ next[c] <= upstreamOffset
  BY DEF MuxTypeOK, MuxInv, NextIsSeen
<1>8. MuxTypeOK'
  BY <1>1, <1>2, <1>6 DEF MuxTypeOK
<1>9. ASSUME NEW r \in Request
      PROVE  /\ handler[r] \in Handler
             /\ InStep(handler[r])
             /\ NoGap(handler[r])
  BY DEF MuxTypeOK, MuxInv, RequestsInStep, PageHasNoGap
<1>10. ASSUME NEW r \in Request PROVE InStep(handler[r])'
  <2> DEFINE h == handler[r]
  <2>1. h.at \in Int /\ \A u \in h.page : u \in Int
    BY <1>9 DEF Handler, UpdateId
  <2>2. /\ h.at <= upstreamOffset'
        /\ \A u \in h.page : u < upstreamOffset' /\ <<h.client, u>> \in owed'
    BY <1>1, <1>3, <1>4, <1>5, <1>9, <2>1 DEF InStep, UpdateId
  <2>3. ASSUME h.pc = "query", h.at > 0,
               NEW u \in UpdateId, <<h.client, u>> \in deliveries'
        PROVE  u >= h.at
    <3>1. CASE <<h.client, u>> \in deliveries
      BY <1>9, <2>3, <3>1 DEF InStep, Pending, PendingIn
    <3>2. CASE <<h.client, u>> \in RoutedBy(batch)
      <4>1. u >= upstreamOffset
        BY <1>6, <3>2
      <4> QED BY <1>4, <1>9, <2>1, <4>1 DEF InStep, UpdateId
    <3> QED BY <1>3, <2>3, <3>1, <3>2
  <2> QED BY <1>1, <1>9, <2>2, <2>3 DEF InStep, Pending, PendingIn
<1>11. ASSUME NEW r \in Request PROVE NoGap(handler[r])'
  <2> DEFINE h == handler[r]
  <2> SUFFICES ASSUME NEW u \in h.page, NEW d \in owed', d[1] = h.client, d[2] < u
               PROVE  d[2] \in h.page \cup seen[d[1]] \cup forgotten[d[1]]
    BY <1>1 DEF NoGap
  <2>1. u \in UpdateId /\ u < upstreamOffset
    <3>1. u \in UpdateId
      BY <1>9 DEF Handler
    <3> QED BY <1>9, <3>1 DEF InStep
  <2>2. d \notin RoutedBy(batch)
    BY <1>4, <1>6, <2>1 DEF UpdateId
  <2> QED BY <1>1, <1>9, <2>2 DEF NoGap
<1>12. RequestsInStep' /\ PageHasNoGap'
  BY <1>3, <1>10, <1>11 DEF RequestsInStep, PageHasNoGap
<1>13. OwedIsStored' /\ NoLoss'
  BY <1>1, <1>3, <1>6 DEF MuxInv, OwedIsStored, NoLoss
<1>14. NextIsSeen'
  <2>1. ASSUME NEW c \in Client PROVE next[c] <= upstreamOffset'
    BY <1>3, <1>4, <1>5, <1>7 DEF UpdateId
  <2>2. ASSUME NEW d \in owed', d[2] < next[d[1]]
        PROVE  d[2] \in seen[d[1]] \cup forgotten[d[1]]
    <3>1. d \notin RoutedBy(batch)
      BY <1>4, <1>6, <1>7, <2>2 DEF UpdateId
    <3> QED BY <1>1, <2>2, <3>1 DEF MuxInv, NextIsSeen
  <2> QED BY <1>1, <2>1, <2>2 DEF NextIsSeen
<1> QED BY <1>2, <1>8, <1>12, <1>13, <1>14 DEF MuxInv

(* A restart opens the database without requests. *)
LEMMA MuxStartKeeps ==
    ASSUME MuxTypeOK, MuxInv, MuxStart PROVE MuxTypeOK' /\ MuxInv'
<1>1. PICK k \in Configs :
         /\ Start(k)
         /\ owed' = {d \in owed : d[1] \in k.clients}
         /\ UNCHANGED <<handler, awaiting, next, seen, forgotten>>
  BY DEF MuxStart, botVars
<1>2. PollerTypeOK' /\ PollerInv'
  BY <1>1, UpstreamStepKeeps DEF UpstreamStep, MuxTypeOK, MuxInv
<1>3. /\ deliveries' = {d \in deliveries : d[1] \in k.clients}
      /\ UNCHANGED <<upstreamOffset, ingested>>
      /\ poller = "down"
  BY <1>1 DEF Start, Open, Reconcile
<1>4. MuxTypeOK'
  BY <1>1, <1>2 DEF MuxTypeOK
<1>5. RequestsInStep'
  <2>1. \A r \in Request : handler'[r] = Idle /\ InStep(handler[r])
    BY <1>1, <1>3 DEF MuxInv, RequestsInStep
  <2>2. handler' = handler /\ next' = next
    BY <1>1
  <2>3. Idle.pc = "idle" /\ Idle.page = {}
    BY IdleFacts
  <2>4. upstreamOffset' = upstreamOffset
    BY <1>3
  <2>5. ASSUME NEW r \in Request PROVE InStep(handler[r])'
    BY <2>1, <2>2, <2>3, <2>4 DEF InStep
  <2> QED BY <2>1, <2>5 DEF RequestsInStep
<1>6. PageHasNoGap' /\ OwedIsStored' /\ NextIsSeen' /\ NoLoss'
  BY <1>1, <1>3 DEF MuxInv, PageHasNoGap, NoGap, OwedIsStored, NextIsSeen, NoLoss
<1> QED BY <1>2, <1>4, <1>5, <1>6 DEF MuxInv

(* A page that is received moves its bot past nothing it does not have. *)
LEMMA ReplyKeeps ==
    ASSUME MuxTypeOK, MuxInv, NEW r \in Request, Reply(r) PROVE MuxTypeOK' /\ MuxInv'
<1> DEFINE h == handler[r]
           c == h.client
<1> USE StoreAssumption
<1>1. h \in Handler /\ c \in Client /\ h.page \in SUBSET UpdateId
  BY DEF MuxTypeOK, Handler
<1>2. UNCHANGED <<allPollerVars, forgotten, owed>> /\ handler' = [handler EXCEPT ![r] = Idle]
  BY DEF Reply
<1>3. PollerTypeOK' /\ PollerInv'
  BY <1>2, PollerNextKeeps DEF MuxTypeOK, MuxInv
<1>4. UNCHANGED <<poller, deliveries, upstreamOffset, ingested>>
  BY <1>2 DEF allPollerVars, storeVars, pollerVars
<1>5. upstreamOffset \in UpdateId /\ next \in [Client -> UpdateId] /\ seen \in [Client -> SUBSET UpdateId]
  BY DEF MuxTypeOK, PollerTypeOK, StoreTypeOK
<1>6. Idle \in Handler /\ InStep(Idle) /\ NoGap(Idle) /\ Idle.page = {} /\ Idle.pc = "idle"
  BY <1>5, IdleIsInStep, IdleFacts
<1>7. CASE awaiting[c] # r
  <2>1. UNCHANGED <<awaiting, next, seen>>
    BY <1>7 DEF Reply
  <2>2. awaiting' \in [Client -> Request \cup {NoRequest}]
    BY <2>1 DEF MuxTypeOK
  <2> HIDE DEF h, c
  <2> QED BY <1>2, <1>6, <2>1, <2>2, RequestMoves
<1>8. CASE awaiting[c] = r
  <2> DEFINE S == {next[c]} \cup {u + 1 : u \in h.page}
  <2>1. /\ awaiting' = [awaiting EXCEPT ![c] = NoRequest]
        /\ seen' = [seen EXCEPT ![c] = @ \cup h.page]
        /\ next' = [next EXCEPT ![c] = Max(S)]
    BY <1>8 DEF Reply
  <2>2. \A u \in h.page : u \in Int /\ u < upstreamOffset /\ u >= 0
    <3>1. InStep(h)
      BY DEF MuxInv, RequestsInStep
    <3>2. \A u \in h.page : u < upstreamOffset
      BY <3>1 DEF InStep
    <3>3. \A u \in h.page : u \in UpdateId
      BY <1>1
    <3> HIDE DEF h
    <3> QED BY <3>2, <3>3 DEF UpdateId
  <2>3. next[c] \in UpdateId /\ next[c] <= upstreamOffset
    BY <1>1, <1>5 DEF MuxInv, NextIsSeen
  <2>4. S \subseteq 0..upstreamOffset /\ S # {} /\ upstreamOffset \in Nat
    BY <1>5, <2>2, <2>3 DEF UpdateId
  <2>5. Max(S) \in S /\ \A x \in S : x <= Max(S)
    <3> HIDE DEF S
    <3> QED BY <2>4, MaxOfBounded
  <2>6. Max(S) \in UpdateId /\ Max(S) <= upstreamOffset /\ next[c] <= Max(S)
    <3>1. next[c] \in S
      OBVIOUS
    <3> HIDE DEF S
    <3>2. Max(S) \in 0..upstreamOffset
      BY <2>4, <2>5
    <3> QED BY <1>5, <2>5, <3>1, <3>2 DEF UpdateId
  <2>7. Max(S) = next[c] \/ \E u \in h.page : Max(S) = u + 1
    BY <2>5
  <2> HIDE DEF S, h, c
  <2>8. /\ next' \in [Client -> UpdateId]
        /\ next'[c] = Max(S)
        /\ \A e \in Client : e # c => next'[e] = next[e]
    BY <1>1, <1>5, <2>1, <2>6
  <2>9. /\ seen' \in [Client -> SUBSET UpdateId]
        /\ seen'[c] = seen[c] \cup h.page
        /\ \A e \in Client : e # c => seen'[e] = seen[e]
    BY <1>1, <1>5, <2>1
  <2>10. /\ handler'[r] = Idle
         /\ \A s \in Request : s # r => handler'[s] = handler[s]
         /\ handler' \in [Request -> Handler]
    BY <1>2, <1>6 DEF MuxTypeOK
  <2>11. MuxTypeOK'
    BY <1>2, <1>3, <2>1, <2>8, <2>9, <2>10 DEF MuxTypeOK
  <2>12. ASSUME NEW e \in Client
         PROVE  /\ seen[e] \subseteq seen'[e]
                /\ next[e] \in Int /\ next'[e] \in Int
                /\ next[e] <= next'[e] /\ next'[e] <= upstreamOffset
    <3>1. next[e] \in UpdateId /\ next[e] <= upstreamOffset /\ next'[e] \in UpdateId
      BY <1>5, <2>8 DEF MuxInv, NextIsSeen
    <3> QED BY <2>6, <2>8, <2>9, <3>1 DEF UpdateId
  <2>13. ASSUME NEW d \in owed PROVE d[1] \in Client /\ d[2] \in Int
    BY DEF MuxTypeOK, UpdateId
  <2>14. ASSUME NEW s \in Request PROVE InStep(handler[s])' /\ NoGap(handler[s])'
    <3>1. CASE s = r
      <4>1. Idle.client \in Client /\ Idle.offset \in Int
        BY <1>6 DEF Handler
      <4>2. Idle.offset <= next'[Idle.client]
        BY <1>6, <2>12, <4>1 DEF InStep
      <4> QED BY <1>4, <1>6, <2>10, <3>1, <4>2 DEF InStep, NoGap
    <3>2. CASE s # r
      <4>1. handler[s] \in Handler /\ InStep(handler[s]) /\ NoGap(handler[s])
        BY DEF MuxTypeOK, MuxInv, RequestsInStep, PageHasNoGap
      <4>2. handler[s].client \in Client /\ handler[s].offset \in Int
        BY <4>1 DEF Handler
      <4>3. handler[s].offset <= next'[handler[s].client]
        BY <2>12, <4>1, <4>2 DEF InStep
      <4>4. InStep(handler[s])'
        BY <1>2, <1>4, <2>10, <3>2, <4>1, <4>3 DEF InStep, Pending, PendingIn
      <4>5. NoGap(handler[s])'
        BY <1>2, <2>10, <2>12, <2>13, <3>2, <4>1 DEF NoGap
      <4> QED BY <4>4, <4>5
    <3> QED BY <3>1, <3>2
  <2>15. RequestsInStep' /\ PageHasNoGap'
    BY <1>4, <1>6, <2>10, <2>14 DEF MuxInv, RequestsInStep, PageHasNoGap
  <2>16. OwedIsStored' /\ NoLoss'
    <3>1. h.page \subseteq ingested
      <4>1. InStep(h)
        BY DEF MuxInv, RequestsInStep, h
      <4>2. \A u \in h.page : <<h.client, u>> \in owed
        BY <4>1 DEF InStep
      <4>3. \A e \in owed : e[2] \in ingested
        BY DEF MuxInv, OwedIsStored
      <4>4. ASSUME NEW u \in h.page PROVE u \in ingested
        <5>1. <<h.client, u>> \in owed /\ <<h.client, u>>[2] = u
          BY <4>2
        <5> QED BY <4>3, <5>1
      <4> QED BY <4>4
    <3>2. \A e \in Client : seen'[e] \subseteq seen[e] \cup ingested
      BY <2>9, <3>1
    <3>3. OwedIsStored'
      BY <1>2, <1>4, <3>2 DEF MuxInv, OwedIsStored
    <3> QED BY <1>2, <1>4, <2>12, <2>13, <3>3 DEF MuxInv, NoLoss
  <2>17. NextIsSeen'
    <3> SUFFICES ASSUME NEW d \in owed, d[2] < next'[d[1]]
                 PROVE  d[2] \in seen'[d[1]] \cup forgotten[d[1]]
      BY <1>2, <1>4, <2>12 DEF NextIsSeen
    <3>1. CASE d[2] < next[d[1]]
      BY <2>12, <2>13, <3>1 DEF MuxInv, NextIsSeen
    <3>2. CASE ~(d[2] < next[d[1]])
      <4>1. d[1] = c
        BY <2>8, <2>13, <3>2
      <4>2. PICK u \in h.page : Max(S) = u + 1
        BY <2>7, <2>8, <3>2, <4>1
      <4>3. d[2] = u \/ d[2] < u
        BY <2>2, <2>8, <2>13, <4>1, <4>2 DEF h
      <4>4. CASE d[2] = u
        BY <2>9, <4>1, <4>2, <4>4
      <4>5. CASE d[2] < u
        <5>1. NoGap(h)
          BY DEF MuxInv, PageHasNoGap, h
        <5> QED BY <2>9, <4>1, <4>2, <4>5, <5>1 DEF NoGap, c
      <4> QED BY <4>3, <4>4, <4>5
    <3> QED BY <3>1, <3>2
  <2> QED BY <1>3, <2>11, <2>15, <2>16, <2>17 DEF MuxInv
<1> QED BY <1>7, <1>8

(* The steps of one request. *)
LEMMA RequestStepKeeps ==
    ASSUME MuxTypeOK, MuxInv, NEW r \in Request, HandlerStep(r) \/ Abort(r)
    PROVE  MuxTypeOK' /\ MuxInv'
<1> DEFINE h == handler[r]
<1> USE StoreAssumption
<1>1. h \in Handler /\ InStep(h) /\ NoGap(h)
  BY DEF MuxTypeOK, MuxInv, RequestsInStep, PageHasNoGap
<1>2. poller = "down" => h.pc = "idle"
  BY IdleFacts DEF MuxInv, RequestsInStep
<1>3. awaiting \in [Client -> Request \cup {NoRequest}] /\ upstreamOffset \in UpdateId
  BY DEF MuxTypeOK, PollerTypeOK, StoreTypeOK
<1>4. ASSUME NEW g \in Handler, InStep(g), NoGap(g), h.pc # "idle" \/ g = Idle,
             handler' = [handler EXCEPT ![r] = g],
             UNCHANGED <<allPollerVars, botVars, owed>>
      PROVE  MuxTypeOK' /\ MuxInv'
  <2>1. UNCHANGED <<awaiting, next, seen, forgotten>>
    BY <1>4 DEF botVars
  <2> QED BY <1>2, <1>3, <1>4, <2>1, RequestMoves
<1>5. CASE TakeChanges(r)
  <2> DEFINE g == [h EXCEPT !.pc = "resolve", !.woken = FALSE, !.at = 0, !.page = {}]
  <2>0. 0 \in UpdateId
    BY DEF UpdateId
  <2>1. g \in Handler
    BY <1>1, <2>0 DEF Handler, HandlerState
  <2>2. InStep(g) /\ NoGap(g)
    BY <1>1, <1>3 DEF InStep, NoGap, Handler, UpdateId
  <2>3. handler' = [handler EXCEPT ![r] = g]
    BY <1>1, <1>5 DEF TakeChanges, MuxTypeOK, Handler
  <2> QED BY <1>4, <1>5, <2>1, <2>2, <2>3 DEF TakeChanges
<1>6. CASE Resolve(r)
  <2> DEFINE at == Resolved(h)
             g == [h EXCEPT !.at = at, !.pc = IF at > 0 THEN "ack" ELSE "query"]
  <2>1. at \in UpdateId /\ at <= upstreamOffset /\ (h.offset >= 0 => at = h.offset)
    BY ResolvedIsReached
  <2>2. handler' = [handler EXCEPT ![r] = g]
    BY <1>1, <1>6 DEF Resolve, MuxTypeOK, Handler
  <2> HIDE DEF at
  <2>3. g \in Handler
    BY <1>1, <2>1 DEF Handler, HandlerState
  <2>4. InStep(g) /\ NoGap(g)
    BY <1>1, <2>1 DEF InStep, NoGap, Handler
  <2> QED BY <1>4, <1>6, <2>2, <2>3, <2>4 DEF Resolve
<1>7. CASE Ack(r)
  BY <1>7, AckKeeps
<1>8. CASE Query(r)
  <2> DEFINE page == QueryUpdates(h.client, h.at, h.limit)
             g == [h EXCEPT !.pc = "decide", !.page = page]
  <2>1. h.pc = "query"
    BY <1>8 DEF Query
  <2>2. /\ \A u \in page : u \in UpdateId /\ u < upstreamOffset /\ <<h.client, u>> \in owed
        /\ \A u \in page : \A d \in owed : d[1] = h.client /\ d[2] < u =>
              d[2] \in page \/ d[2] \in seen[d[1]] \cup forgotten[d[1]]
    BY <2>1, QueryLeavesNoGap
  <2>3. handler' = [handler EXCEPT ![r] = g]
    BY <1>1, <1>8 DEF Query, MuxTypeOK, Handler
  <2> HIDE DEF page
  <2>4. g \in Handler
    BY <1>1, <2>2 DEF Handler, HandlerState
  <2>5. InStep(g) /\ NoGap(g)
    BY <1>1, <2>2 DEF InStep, NoGap, Handler
  <2> QED BY <1>4, <1>8, <2>1, <2>3, <2>4, <2>5 DEF Query
<1>9. CASE Wait(r) \/ Woken(r)
  <2>1. PICK pc \in {"select", "changes"} : handler' = [handler EXCEPT ![r].pc = pc]
    BY <1>9 DEF Wait, Woken, Goto
  <2> DEFINE g == [h EXCEPT !.pc = pc]
  <2>2. g \in Handler
    BY <1>1 DEF Handler, HandlerState
  <2>3. InStep(g) /\ NoGap(g)
    BY <1>1 DEF InStep, NoGap, Handler
  <2>4. handler' = [handler EXCEPT ![r] = g]
    BY <1>1, <2>1 DEF MuxTypeOK, Handler
  <2> QED BY <1>4, <1>9, <2>2, <2>3, <2>4 DEF Wait, Woken
<1>10. CASE Reply(r)
  BY <1>10, ReplyKeeps
<1>11. CASE Abort(r)
  <2>1. Idle \in Handler /\ InStep(Idle) /\ NoGap(Idle) /\ Idle.pc = "idle"
    BY <1>3, IdleIsInStep DEF MuxTypeOK, Idle
  <2>2. /\ handler' = [handler EXCEPT ![r] = Idle]
        /\ awaiting' \in [Client -> Request \cup {NoRequest}]
        /\ UNCHANGED <<allPollerVars, next, seen, forgotten, owed>>
    BY <1>3, <1>11 DEF Abort
  <2> QED BY <2>1, <2>2, RequestMoves
<1> QED BY <1>5, <1>6, <1>7, <1>8, <1>9, <1>10, <1>11 DEF HandlerStep

(* The steps of a bot. *)
LEMMA BotStepKeeps ==
    ASSUME MuxTypeOK, MuxInv, NEW c \in Client, BotCalls(c) \/ GiveUp(c)
    PROVE  MuxTypeOK' /\ MuxInv'
<1> USE StoreAssumption, MuxAssumption
<1>1. /\ awaiting \in [Client -> Request \cup {NoRequest}]
      /\ next \in [Client -> UpdateId]
      /\ upstreamOffset \in UpdateId
  BY DEF MuxTypeOK, PollerTypeOK, StoreTypeOK
<1>2. CASE BotCalls(c)
  <2>1. PICK r \in Request, off \in 0..next[c] \cup Negatives, limit \in Limits,
             wait \in BOOLEAN : Call(r, c, off, limit, wait)
    BY <1>2 DEF BotCalls
  <2> DEFINE g == [Idle EXCEPT !.pc = "changes", !.client = c, !.offset = off,
                               !.limit = limit, !.wait = wait]
  <2>2. off \in Int /\ off <= next[c]
    <3>1. next[c] \in Int /\ 0 <= next[c]
      BY <1>1 DEF UpdateId
    <3>2. ASSUME off \in Negatives PROVE off \in Int /\ off <= -1
      BY <3>2 DEF MinOffset
    <3> QED BY <3>1, <3>2
  <2>3. Idle \in Handler
    BY <1>1, IdleIsInStep
  <2>4. g \in Handler
    BY <2>2, <2>3 DEF Handler, HandlerState
  <2>5. g.pc = "changes" /\ g.client = c /\ g.offset = off /\ g.at = 0 /\ g.page = {}
    BY DEF Idle
  <2>6. InStep(g) /\ NoGap(g)
    <3> HIDE DEF g
    <3> QED BY <1>1, <2>2, <2>5 DEF InStep, NoGap, UpdateId
  <2>7. /\ handler' = [handler EXCEPT ![r] = g]
        /\ awaiting' \in [Client -> Request \cup {NoRequest}]
        /\ UNCHANGED <<allPollerVars, next, seen, forgotten, owed>>
        /\ poller # "down"
    BY <1>1, <2>1 DEF Call
  <2> HIDE DEF g
  <2> QED BY <2>4, <2>6, <2>7, RequestMoves
<1>3. CASE GiveUp(c)
  <2>1. /\ awaiting' \in [Client -> Request \cup {NoRequest}]
        /\ UNCHANGED <<allPollerVars, handler, next, seen, forgotten, owed>>
    BY <1>1, <1>3 DEF GiveUp
  <2>2. PollerTypeOK' /\ PollerInv'
    BY <2>1, PollerNextKeeps DEF MuxTypeOK, MuxInv
  <2>3. UNCHANGED <<poller, deliveries, upstreamOffset, ingested>>
    BY <2>1 DEF allPollerVars, storeVars, pollerVars
  <2>4. handler' \in [Request -> Handler] /\ \A r \in Request : handler'[r] = handler[r]
    BY <2>1 DEF MuxTypeOK
  <2> QED BY <2>1, <2>2, <2>3, <2>4, ProcessMoves
<1> QED BY <1>2, <1>3

(* The steps of Telegram, the poller and the process. *)
LEMMA ProcessStepKeeps ==
    ASSUME MuxTypeOK, MuxInv,
           MuxTelegram \/ MuxPoll \/ MuxIngest \/ MuxAdvance \/ MuxStart \/ MuxStop
    PROVE  MuxTypeOK' /\ MuxInv'
<1>1. /\ handler \in [Request -> Handler]
      /\ awaiting \in [Client -> Request \cup {NoRequest}]
      /\ PollerTypeOK /\ PollerInv
  BY DEF MuxTypeOK, MuxInv
<1>2. CASE MuxTelegram \/ MuxPoll
  <2>1. UNCHANGED <<handler, awaiting, next, seen, forgotten, owed>>
    BY <1>2 DEF MuxTelegram, MuxPoll, Unnoticed, botVars
  <2>2. PollerTypeOK' /\ PollerInv'
    BY <1>1, <1>2, UpstreamStepKeeps DEF MuxTelegram, MuxPoll, UpstreamStep, PollerStep
  <2>3. UNCHANGED storeVars
    BY <1>2 DEF MuxTelegram, Produce, ArriveLate, MuxPoll, Initialize, PollAnswered, PollEmpty,
                AnswerRejected, PollAbandoned, IngestPaused, Wake
  <2>4. poller' = "down" => poller = "down"
    BY <1>2 DEF MuxTelegram, Produce, ArriveLate, MuxPoll, Initialize, PollAnswered, PollEmpty,
                AnswerRejected, PollAbandoned, IngestPaused, Wake, pollerVars
  <2>5. UNCHANGED <<deliveries, upstreamOffset, ingested>>
    BY <2>3 DEF storeVars
  <2> QED BY <1>1, <2>1, <2>2, <2>4, <2>5, ProcessMoves
<1>3. CASE MuxIngest
  BY <1>3, MuxIngestKeeps
<1>4. CASE MuxAdvance
  <2>1. Advance /\ WakeAll /\ UNCHANGED <<awaiting, next, seen, forgotten, owed>>
    BY <1>4 DEF MuxAdvance, botVars
  <2>2. PollerTypeOK' /\ PollerInv'
    BY <1>1, <2>1, QuietStepKeeps
  <2>3. UNCHANGED <<deliveries, upstreamOffset, ingested>> /\ poller' = "poll"
    BY <2>1 DEF Advance, storeVars
  <2>4. /\ handler' \in [Request -> Handler]
        /\ \A r \in Request : \/ handler'[r] = [handler[r] EXCEPT !.woken = TRUE]
                              \/ handler'[r] = handler[r]
    BY <1>1, <2>1 DEF WakeAll, Handler
  <2> QED BY <1>1, <2>1, <2>2, <2>3, <2>4, ProcessMoves
<1>5. CASE MuxStart
  BY <1>5, MuxStartKeeps
<1>6. CASE MuxStop
  <2>1. Stop /\ UNCHANGED <<next, seen, forgotten, owed>>
    BY <1>6 DEF MuxStop, EndAll
  <2>2. PollerTypeOK' /\ PollerInv'
    BY <1>1, <2>1, QuietStepKeeps
  <2>3. UNCHANGED <<deliveries, upstreamOffset, ingested>>
    BY <2>1 DEF Stop, storeVars
  <2>4. Idle \in Handler
    BY IdleIsInStep DEF MuxTypeOK, PollerTypeOK, StoreTypeOK
  <2>5. /\ handler' \in [Request -> Handler] /\ \A r \in Request : handler'[r] = Idle
        /\ awaiting' \in [Client -> Request \cup {NoRequest}]
    BY <1>6, <2>4 DEF MuxStop, EndAll
  <2> QED BY <2>1, <2>2, <2>3, <2>5, ProcessMoves
<1> QED BY <1>2, <1>3, <1>4, <1>5, <1>6

(* The inductive invariant is inductive. *)
LEMMA MuxNextKeeps ==
    MuxTypeOK /\ MuxInv /\ [MuxNext]_muxVars => (MuxTypeOK /\ MuxInv)'
<1> SUFFICES ASSUME MuxTypeOK, MuxInv, [MuxNext]_muxVars PROVE (MuxTypeOK /\ MuxInv)'
  OBVIOUS
<1>1. CASE MuxTelegram \/ MuxPoll \/ MuxIngest \/ MuxAdvance \/ MuxStart \/ MuxStop
  BY <1>1, ProcessStepKeeps
<1>2. CASE \E c \in Client : BotCalls(c) \/ GiveUp(c)
  BY <1>2, BotStepKeeps
<1>3. CASE \E r \in Request : HandlerStep(r) \/ Abort(r)
  BY <1>3, RequestStepKeeps
<1>4. CASE UNCHANGED muxVars
  <2>1. UNCHANGED <<allPollerVars, handler, awaiting, next, seen, forgotten, owed>>
    BY <1>4 DEF muxVars, botVars
  <2>2. PollerTypeOK' /\ PollerInv'
    BY <2>1, PollerNextKeeps DEF MuxTypeOK, MuxInv
  <2>3. UNCHANGED <<poller, deliveries, upstreamOffset, ingested>>
    BY <2>1 DEF allPollerVars, storeVars, pollerVars
  <2>4. /\ handler' \in [Request -> Handler]
        /\ awaiting' \in [Client -> Request \cup {NoRequest}]
        /\ \A r \in Request : handler'[r] = handler[r]
    BY <2>1 DEF MuxTypeOK
  <2> QED BY <2>1, <2>2, <2>3, <2>4, ProcessMoves
<1> QED BY <1>1, <1>2, <1>3, <1>4 DEF MuxNext

----------------------------------------------------------------------------
(* Long polls *)

(* A request that sleeps stays owed nothing, unless it is woken or the     *)
(* poller is about to wake it.                                             *)
LEMMA StaysAwake ==
    ASSUME MuxTypeOK, NoLostWakeup, NEW r \in Request, handler'[r] \in Handler,
           Asleep(handler'[r]) =>
               \/ poller' = "signal"
               \/ handler'[r].woken
               \/ QueryUpdates(handler[r].client, handler[r].at, handler[r].limit)' = {}
               \/ /\ Asleep(handler[r])
                  /\ handler'[r].client = handler[r].client
                  /\ handler'[r].at = handler[r].at
                  /\ handler'[r].limit = handler[r].limit
                  /\ handler'[r].woken = handler[r].woken
                  /\ deliveries' \subseteq deliveries
                  /\ poller = "signal" => poller' = "signal"
    PROVE  Asleep(handler'[r]) /\ QueryUpdates(handler[r].client, handler[r].at, handler[r].limit)' # {}
           => handler'[r].woken \/ poller' = "signal"
<1> DEFINE h == handler[r]
           n == NormalizeLimit(h.limit)
           before == {u \in Pending(h.client) : h.at = 0 \/ u >= h.at}
           after == {u \in PendingIn(deliveries', h.client) : h.at = 0 \/ u >= h.at}
<1> USE StoreAssumption
<1> SUFFICES ASSUME Asleep(handler'[r]), poller' # "signal", ~handler'[r].woken,
                    QueryUpdates(handler[r].client, handler[r].at, handler[r].limit)' # {}
             PROVE  FALSE
  OBVIOUS
<1>1. /\ handler'[r].client = h.client /\ handler'[r].at = h.at
      /\ handler'[r].limit = h.limit
      /\ Asleep(h) /\ ~h.woken /\ poller # "signal" /\ deliveries' \subseteq deliveries
  OBVIOUS
<1>2. h \in Handler
  BY DEF MuxTypeOK
<1>3. n \in Nat \ {0}
  BY <1>2, LimitIsPositive DEF Handler
<1>4. FirstN(after, n) # {}
  BY <1>1 DEF QueryUpdates, Pending, PendingIn, NormalizeLimit, FirstN
<1>5. after # {}
  BY <1>4 DEF FirstN
<1>6. after \subseteq before
  BY <1>1 DEF Pending, PendingIn
<1>7. before \in SUBSET UpdateId
  BY DEF Pending, PendingIn
<1>8. FirstN(before, n) # {}
  <2> HIDE DEF before, after, n
  <2> QED BY <1>3, <1>5, <1>6, <1>7, FirstNOfSome
<1>9. QueryUpdates(h.client, h.at, h.limit) = FirstN(before, n)
  BY DEF QueryUpdates
<1> HIDE DEF before, n
<1> QED BY <1>1, <1>8, <1>9 DEF NoLostWakeup

(* The order of waitForUpdates: the channel is taken before the store is   *)
(* read, and it is closed after every commit.                              *)
LEMMA WakeupKept ==
    MuxTypeOK /\ MuxInv /\ NoLostWakeup /\ [MuxNext]_muxVars => NoLostWakeup'
<1> SUFFICES ASSUME MuxTypeOK, MuxInv, NoLostWakeup, [MuxNext]_muxVars, NEW r \in Request
             PROVE  Asleep(handler'[r]) /\ QueryUpdates(handler[r].client, handler[r].at, handler[r].limit)' # {}
                    => handler'[r].woken \/ poller' = "signal"
  BY DEF NoLostWakeup, Asleep, UpdatesReady
<1> DEFINE h == handler[r]
           g == handler'[r]
<1>1. h \in Handler /\ g \in Handler
  <2>1. MuxTypeOK'
    BY MuxNextKeeps
  <2> QED BY <2>1 DEF MuxTypeOK
<1> SUFFICES Asleep(g) =>
               \/ poller' = "signal"
               \/ g.woken
               \/ QueryUpdates(handler[r].client, handler[r].at, handler[r].limit)' = {}
               \/ /\ Asleep(h)
                  /\ g.client = h.client /\ g.at = h.at /\ g.limit = h.limit
                  /\ g.woken = h.woken
                  /\ deliveries' \subseteq deliveries
                  /\ poller = "signal" => poller' = "signal"
  BY <1>1, StaysAwake
<1>2. ASSUME g = h, deliveries' \subseteq deliveries, poller' = poller
      PROVE  Asleep(g) => /\ Asleep(h)
                          /\ g.client = h.client /\ g.at = h.at /\ g.limit = h.limit
                          /\ g.woken = h.woken
                          /\ deliveries' \subseteq deliveries
                          /\ poller = "signal" => poller' = "signal"
  BY <1>2
<1>3. ~Asleep(Idle)
  BY DEF Asleep, Idle
<1>4. CASE MuxTelegram \/ MuxPoll
  <2>1. g = h
    BY <1>4 DEF MuxTelegram, MuxPoll, Unnoticed
  <2>2. UNCHANGED deliveries
    BY <1>4 DEF MuxTelegram, Produce, ArriveLate, MuxPoll, Initialize, PollAnswered, PollEmpty,
                AnswerRejected, PollAbandoned, IngestPaused, Wake, storeVars
  <2>3. poller = "signal" => poller' = "signal"
    BY <1>4 DEF MuxTelegram, Produce, ArriveLate, MuxPoll, Initialize, PollAnswered, PollEmpty,
                AnswerRejected, PollAbandoned, IngestPaused, Wake, pollerVars
  <2> QED BY <2>1, <2>2, <2>3
<1>5. CASE MuxIngest
  BY <1>5 DEF MuxIngest, IngestDone
<1>6. CASE MuxAdvance
  <2>1. h.pc \in Holding => g.woken
    BY <1>1, <1>6 DEF MuxAdvance, WakeAll, Handler
  <2>2. h.pc \notin Holding => g = h
    BY <1>6 DEF MuxAdvance, WakeAll
  <2>3. Asleep(h) => h.pc \in Holding
    BY DEF Asleep, Holding
  <2> QED BY <2>1, <2>2, <2>3
<1>7. CASE MuxStart
  <2>1. h.pc = "idle" /\ g = h
    <3>1. poller = "down" /\ handler' = handler
      BY <1>7 DEF MuxStart, Start
    <3> QED BY <3>1, IdleFacts DEF MuxInv, RequestsInStep
  <2> QED BY <2>1 DEF Asleep
<1>8. CASE MuxStop
  <2>1. g = Idle
    BY <1>8 DEF MuxStop, EndAll
  <2> QED BY <1>3, <2>1
<1>9. CASE UNCHANGED muxVars \/ \E c \in Client : GiveUp(c)
  BY <1>2, <1>9 DEF muxVars, GiveUp, allPollerVars, storeVars, pollerVars
<1>10. CASE \E c \in Client : BotCalls(c)
  <2>1. PICK q \in Request, c \in Client, off \in Int, limit \in Limits, wait \in BOOLEAN :
             /\ handler' = [handler EXCEPT ![q] =
                               [Idle EXCEPT !.pc = "changes", !.client = c, !.offset = off,
                                            !.limit = limit, !.wait = wait]]
             /\ UNCHANGED allPollerVars
    <3>1. PICK c \in Client : BotCalls(c)
      BY <1>10
    <3>2. PICK q \in Request, off \in 0..next[c] \cup Negatives, limit \in Limits,
               wait \in BOOLEAN : Call(q, c, off, limit, wait)
      BY <3>1 DEF BotCalls
    <3>3. off \in Int
      BY MuxAssumption DEF MinOffset
    <3> QED BY <3>2, <3>3 DEF Call
  <2>2. CASE q = r
    <3>1. g.pc = "changes"
      BY <2>1, <2>2 DEF MuxTypeOK, Idle
    <3> QED BY <3>1 DEF Asleep
  <2>3. CASE q # r
    <3>1. g = h
      BY <2>1, <2>3 DEF MuxTypeOK
    <3> QED BY <1>2, <2>1, <3>1 DEF allPollerVars, storeVars, pollerVars
  <2> QED BY <2>2, <2>3
<1>11. CASE \E q \in Request : HandlerStep(q) \/ Abort(q)
  <2>1. PICK q \in Request : HandlerStep(q) \/ Abort(q)
    BY <1>11
  <2>2. deliveries' \subseteq deliveries /\ poller' = poller
    BY <2>1 DEF HandlerStep, TakeChanges, Resolve, Ack, Acknowledge, Unacknowledged, Query, Wait,
                Woken, Reply, Abort, allPollerVars, storeVars, pollerVars
  <2>3. CASE q # r
    <3>1. g = h
      BY <2>1, <2>3 DEF HandlerStep, TakeChanges, Resolve, Ack, Query, Wait, Woken, Reply, Abort,
                        Goto, MuxTypeOK
    <3> QED BY <1>2, <2>2, <3>1
  <2>4. CASE q = r
    <3>1. CASE TakeChanges(r) \/ Resolve(r) \/ Ack(r) \/ Woken(r)
      <4>1. g.pc \in {"resolve", "ack", "query", "changes"}
        BY <1>1, <3>1 DEF TakeChanges, Resolve, Ack, Woken, Goto, MuxTypeOK, Handler
      <4> QED BY <4>1 DEF Asleep
    <3>2. CASE Query(r)
      <4>1. /\ g = [h EXCEPT !.pc = "decide", !.page = QueryUpdates(h.client, h.at, h.limit)]
            /\ deliveries' = deliveries
        BY <1>1, <3>2 DEF Query, MuxTypeOK, Handler, allPollerVars, storeVars
      <4>2. /\ g.pc = "decide" /\ g.client = h.client /\ g.at = h.at /\ g.limit = h.limit
            /\ g.page = QueryUpdates(h.client, h.at, h.limit)
        BY <1>1, <4>1 DEF Handler
      <4>3. QueryUpdates(handler[r].client, handler[r].at, handler[r].limit)' = g.page
        BY <4>1, <4>2 DEF QueryUpdates, Pending, PendingIn
      <4>4. Asleep(g) => g.page = {}
        BY <4>2 DEF Asleep, UpdatesReady
      <4> QED BY <4>3, <4>4
    <3>3. CASE Wait(r)
      <4>1. g = [h EXCEPT !.pc = "select"] /\ Asleep(h)
        BY <1>1, <3>3 DEF Wait, Goto, Asleep, MuxTypeOK, Handler
      <4> QED BY <1>1, <2>2, <4>1 DEF Handler
    <3>4. CASE Reply(r) \/ Abort(r)
      <4>1. g = Idle
        BY <3>4 DEF Reply, Abort, MuxTypeOK
      <4> QED BY <1>3, <4>1
    <3> QED BY <2>1, <2>4, <3>1, <3>2, <3>3, <3>4 DEF HandlerStep
  <2> QED BY <2>3, <2>4
<1> QED BY <1>4, <1>5, <1>6, <1>7, <1>8, <1>9, <1>10, <1>11 DEF MuxNext

----------------------------------------------------------------------------
(* Negative offsets *)

(* A request that is about to acknowledge a resolved negative offset -n    *)
(* leaves the last n updates its bot has pending now.                      *)
LeavesLast(h) ==
    LET n == Negate(h.offset)
    IN  h.pc = "ack" /\ n > 0 =>
            \A u \in LastN(Pending(h.client), Min({n, PageLimit})) : u >= h.at

AllLeaveLast == \A r \in Request : LeavesLast(handler[r])

(* What the last n lie above, they lie above when a prefix is removed and  *)
(* when updates are appended.                                              *)
LEMMA LastNMoves ==
    ASSUME MaxId \in Nat, NEW S \in SUBSET UpdateId, NEW T \in SUBSET UpdateId,
           NEW n \in Nat, NEW at \in UpdateId,
           \A u \in LastN(S, n) : u >= at,
           \A u \in T : u < at => u \in S /\ \A v \in S : v > u => v \in T
    PROVE  \A u \in LastN(T, n) : u >= at
<1> SUFFICES ASSUME NEW u \in LastN(T, n), u < at PROVE FALSE
  BY DEF LastN, UpdateId
<1> DEFINE above(R) == {v \in R : v > u}
<1>1. u \in T /\ Cardinality(above(T)) < n
  BY DEF LastN
<1>2. u \in S /\ above(S) \subseteq above(T)
  BY <1>1
<1>3. IsFiniteSet(UpdateId)
  BY FS_Interval DEF UpdateId
<1>4. IsFiniteSet(above(T))
  <2>1. above(T) \subseteq UpdateId
    OBVIOUS
  <2> QED BY <1>3, <2>1, FS_Subset
<1>5. IsFiniteSet(above(S)) /\ Cardinality(above(S)) <= Cardinality(above(T))
  <2> HIDE DEF above
  <2> QED BY <1>2, <1>4, FS_Subset
<1>6. Cardinality(above(S)) \in Nat /\ Cardinality(above(T)) \in Nat
  BY <1>4, <1>5, FS_CardinalityType
<1>7. Cardinality(above(S)) < n
  <2> HIDE DEF above
  <2> QED BY <1>1, <1>5, <1>6
<1>8. u \in LastN(S, n)
  BY <1>2, <1>7 DEF LastN
<1> QED BY <1>1, <1>8 DEF UpdateId

(* A request that stays where it is leaves the last updates still, when    *)
(* what is pending changes at its ends only.                               *)
LEMMA StaysLeaving ==
    ASSUME MuxTypeOK, NEW r \in Request, LeavesLast(handler[r]),
           handler'[r].client = handler[r].client,
           handler'[r].offset = handler[r].offset,
           handler'[r].at = handler[r].at,
           handler'[r].pc = handler[r].pc,
           LET h == handler[r]
               S == Pending(h.client)
               T == PendingIn(deliveries', h.client)
           IN  h.pc = "ack" => \A u \in T : u < h.at => u \in S /\ \A v \in S : v > u => v \in T
    PROVE  LeavesLast(handler[r])'
<1> DEFINE h == handler[r]
           n == Negate(h.offset)
           k == Min({n, PageLimit})
           S == Pending(h.client)
           T == PendingIn(deliveries', h.client)
<1> USE StoreAssumption
<1> SUFFICES ASSUME h.pc = "ack", n > 0 PROVE \A u \in LastN(T, k) : u >= h.at
  BY DEF LeavesLast, Pending
<1>1. h.at \in UpdateId /\ h.offset \in Int
  BY DEF MuxTypeOK, Handler
<1>2. n \in Int
  BY <1>1 DEF Negate, MinOffset
<1>3. k \in Nat
  <2>1. {n, PageLimit} \subseteq Nat /\ {n, PageLimit} # {}
    BY <1>2
  <2> QED BY <2>1, MinOfBounded
<1>4. S \in SUBSET UpdateId /\ T \in SUBSET UpdateId
  BY DEF Pending, PendingIn
<1>5. \A u \in LastN(S, k) : u >= h.at
  BY DEF LeavesLast
<1>6. \A u \in T : u < h.at => u \in S /\ \A v \in S : v > u => v \in T
  OBVIOUS
<1> HIDE DEF h, n, k, S, T
<1> QED BY <1>1, <1>3, <1>4, <1>5, <1>6, LastNMoves

(* A negative offset resolves to the first of the last.                    *)
LEMMA ResolvedLeavesLast ==
    ASSUME MuxTypeOK, NEW r \in Request, Negate(handler[r].offset) > 0
    PROVE  LET h == handler[r]
           IN  \A u \in LastN(Pending(h.client), Min({Negate(h.offset), PageLimit})) :
                   u >= Resolved(h)
<1> DEFINE h == handler[r]
           n == Negate(h.offset)
           last == LastN(Pending(h.client), Min({n, PageLimit}))
<1> USE StoreAssumption
<1>1. h.offset \in Int
  BY DEF MuxTypeOK, Handler
<1>2. h.offset < 0 /\ n \in Int /\ ~(n < 0)
  BY <1>1 DEF Negate, MinOffset
<1>3. Resolved(h) = IF last = {} THEN 0 ELSE Min(last)
  BY <1>2 DEF Resolved, NegativeOffset
<1>4. last \subseteq Nat
  BY DEF LastN, Pending, PendingIn, UpdateId
<1> HIDE DEF last
<1>5. \A u \in last : u >= Resolved(h)
  <2> SUFFICES ASSUME NEW u \in last PROVE u >= Resolved(h)
    OBVIOUS
  <2>1. Resolved(h) = Min(last)
    BY <1>3
  <2>2. Min(last) \in last /\ Min(last) <= u
    BY <1>4, MinOfBounded
  <2> QED BY <1>4, <2>1, <2>2
<1> QED BY <1>5 DEF last

(* Between the two transactions of a negative offset, what the other       *)
(* requests acknowledge is a prefix and what the poller routes comes last. *)
LEMMA LeavingKept ==
    MuxTypeOK /\ MuxInv /\ AllLeaveLast /\ [MuxNext]_muxVars => AllLeaveLast'
<1> SUFFICES ASSUME MuxTypeOK, MuxInv, AllLeaveLast, [MuxNext]_muxVars, NEW r \in Request
             PROVE  LeavesLast(handler[r])'
  BY DEF AllLeaveLast
<1> DEFINE h == handler[r]
           g == handler'[r]
           S == Pending(h.client)
           T == PendingIn(deliveries', h.client)
<1> USE StoreAssumption, StreamAssumption
<1>1. h \in Handler /\ g \in Handler /\ LeavesLast(h)
  <2>1. MuxTypeOK'
    BY MuxNextKeeps
  <2> QED BY <2>1 DEF MuxTypeOK, AllLeaveLast
<1>2. ASSUME g.pc # "ack" PROVE LeavesLast(handler[r])'
  BY <1>2 DEF LeavesLast
<1>3. ASSUME g = h \/ g = [h EXCEPT !.woken = TRUE],
             h.pc = "ack" => \A u \in T : u < h.at => u \in S /\ \A v \in S : v > u => v \in T
      PROVE  LeavesLast(handler[r])'
  <2>1. g.client = h.client /\ g.offset = h.offset /\ g.at = h.at /\ g.pc = h.pc
    BY <1>1, <1>3 DEF Handler
  <2> QED BY <1>1, <1>3, <2>1, StaysLeaving
<1>4. ASSUME g = h \/ g = [h EXCEPT !.woken = TRUE], deliveries' = deliveries
      PROVE  LeavesLast(handler[r])'
  BY <1>3, <1>4 DEF Pending
<1>5. CASE MuxTelegram \/ MuxPoll
  <2>1. g = h
    BY <1>5 DEF MuxTelegram, MuxPoll, Unnoticed
  <2>2. UNCHANGED deliveries
    BY <1>5 DEF MuxTelegram, Produce, ArriveLate, MuxPoll, Initialize, PollAnswered, PollEmpty,
                AnswerRejected, PollAbandoned, IngestPaused, Wake, storeVars
  <2> QED BY <1>4, <2>1, <2>2
<1>6. CASE MuxIngest
  <2>1. /\ IngestDone
        /\ handler' = handler
    BY <1>6 DEF MuxIngest
  <2>2. /\ poller = "ingest"
        /\ deliveries' = deliveries \cup RoutedBy(batch)
    BY <2>1 DEF IngestDone, IngestCommits
  <2>3. batch \in SUBSET UpdateId /\ upstreamOffset \in UpdateId
    BY DEF MuxTypeOK, PollerTypeOK, StoreTypeOK
  <2>4. \A d \in RoutedBy(batch) : d[2] >= upstreamOffset
    BY <2>2, <2>3 DEF RoutedBy, MuxInv, PollerInv, BatchIsNext
  <2>5. h.at \in UpdateId /\ h.at <= upstreamOffset
    BY <1>1 DEF Handler, MuxInv, RequestsInStep, InStep
  <2>6. ASSUME NEW u \in T, u < h.at PROVE u \in S /\ \A v \in S : v > u => v \in T
    <3>1. u \in UpdateId /\ <<h.client, u>> \in deliveries'
      BY DEF PendingIn
    <3>2. <<h.client, u>> \notin RoutedBy(batch)
      BY <2>3, <2>4, <2>5, <2>6, <3>1 DEF UpdateId
    <3>3. S \subseteq T
      BY <2>2 DEF Pending, PendingIn
    <3> QED BY <2>2, <3>1, <3>2, <3>3 DEF Pending, PendingIn
  <2> QED BY <1>3, <2>1, <2>6
<1>7. CASE MuxAdvance
  <2>1. g = h \/ g = [h EXCEPT !.woken = TRUE]
    BY <1>7 DEF MuxAdvance, WakeAll
  <2>2. deliveries' = deliveries
    BY <1>7 DEF MuxAdvance, Advance, storeVars
  <2> QED BY <1>4, <2>1, <2>2
<1>8. CASE MuxStart
  <2>1. poller = "down" /\ handler' = handler
    BY <1>8 DEF MuxStart, Start
  <2>2. g.pc = "idle"
    BY <2>1, IdleFacts DEF MuxInv, RequestsInStep
  <2> QED BY <1>2, <2>2
<1>9. CASE MuxStop
  <2>1. g = Idle
    BY <1>9 DEF MuxStop, EndAll
  <2> QED BY <1>2, <2>1, IdleFacts
<1>10. CASE UNCHANGED muxVars \/ \E c \in Client : GiveUp(c)
  BY <1>4, <1>10 DEF muxVars, GiveUp, allPollerVars, storeVars
<1>11. CASE \E c \in Client : BotCalls(c)
  <2>0. PICK c \in Client : BotCalls(c)
    BY <1>11
  <2>1. PICK q \in Request, off \in 0..next[c] \cup Negatives, limit \in Limits,
             wait \in BOOLEAN : Call(q, c, off, limit, wait)
    BY <2>0 DEF BotCalls
  <2>2. deliveries' = deliveries
    BY <2>1 DEF Call, allPollerVars, storeVars
  <2>3. q # r => g = h
    BY <2>1 DEF Call, MuxTypeOK
  <2>4. q = r => g.pc = "changes"
    BY <2>1 DEF Call, MuxTypeOK, Idle
  <2> QED BY <1>2, <1>4, <2>2, <2>3, <2>4
<1>12. CASE \E q \in Request : HandlerStep(q) \/ Abort(q)
  <2>1. PICK q \in Request : HandlerStep(q) \/ Abort(q)
    BY <1>12
  <2>2. q # r => g = h
    BY <2>1 DEF HandlerStep, TakeChanges, Resolve, Ack, Query, Wait, Woken, Reply, Abort,
                Goto, MuxTypeOK
  <2>3. CASE Ack(q)
    <3> DEFINE f == handler[q]
    <3>1. f.client \in Client /\ f.at \in UpdateId /\ Acknowledge(f.client, f.at)
      BY <2>3 DEF Ack, MuxTypeOK, Handler
    <3>2. deliveries' = {d \in deliveries : d[1] # f.client \/ d[2] >= f.at}
      BY <3>1, AcknowledgeRemoves DEF MuxTypeOK, PollerTypeOK, MuxInv, PollerInv
    <3>3. ASSUME NEW u \in T PROVE u \in S /\ \A v \in S : v > u => v \in T
      <4>1. u \in UpdateId /\ <<h.client, u>> \in deliveries'
        BY DEF PendingIn
      <4>2. <<h.client, u>> \in deliveries /\ (h.client # f.client \/ u >= f.at)
        BY <3>2, <4>1
      <4>3. ASSUME NEW v \in S, v > u PROVE v \in T
        <5>1. v \in UpdateId /\ <<h.client, v>> \in deliveries
          BY DEF Pending, PendingIn
        <5>2. u \in Int /\ v \in Int /\ f.at \in Int
          BY <3>1, <4>1, <5>1 DEF UpdateId
        <5>3. h.client # f.client \/ v >= f.at
          BY <4>2, <4>3, <5>2
        <5> HIDE DEF f, h
        <5> QED BY <3>2, <5>1, <5>3 DEF PendingIn
      <4> QED BY <4>1, <4>2, <4>3 DEF Pending, PendingIn
    <3>4. q = r => g.pc = "query"
      BY <1>1, <2>3 DEF Ack, Goto, MuxTypeOK, Handler
    <3> QED BY <1>2, <1>3, <2>2, <3>3, <3>4
  <2>4. CASE Resolve(q)
    <3>1. deliveries' = deliveries
      BY <2>4 DEF Resolve, allPollerVars, storeVars
    <3>2. CASE q = r
      <4>1. g.client = h.client /\ g.offset = h.offset /\ g.at = Resolved(h)
        BY <1>1, <2>4, <3>2 DEF Resolve, MuxTypeOK, Handler
      <4>2. Pending(h.client)' = Pending(h.client)
        BY <3>1, <4>1 DEF Pending, PendingIn
      <4>3. PendingIn(deliveries', g.client) = Pending(h.client)
        BY <3>1, <4>1 DEF Pending, PendingIn
      <4>4. Negate(h.offset) > 0 =>
              \A u \in LastN(Pending(h.client), Min({Negate(h.offset), PageLimit})) : u >= Resolved(h)
        BY ResolvedLeavesLast
      <4> HIDE DEF h, g
      <4> QED BY <4>1, <4>3, <4>4 DEF LeavesLast, Pending, g
    <3> QED BY <1>4, <2>2, <3>1, <3>2
  <2>5. CASE TakeChanges(q) \/ Query(q) \/ Wait(q) \/ Woken(q) \/ Reply(q) \/ Abort(q)
    <3>1. deliveries' = deliveries
      BY <2>5 DEF TakeChanges, Query, Wait, Woken, Reply, Abort, allPollerVars, storeVars
    <3>2. q = r => g.pc # "ack"
      BY <1>1, <2>5, IdleFacts DEF TakeChanges, Query, Wait, Woken, Reply, Abort, Goto, MuxTypeOK, Handler
    <3> QED BY <1>2, <1>4, <2>2, <3>1, <3>2
  <2> QED BY <2>1, <2>3, <2>4, <2>5 DEF HandlerStep
<1> QED BY <1>5, <1>6, <1>7, <1>8, <1>9, <1>10, <1>11, <1>12 DEF MuxNext

(* Only Ack goes from acknowledging to reading the page.                   *)
LEMMA AckLeavesLast ==
    ASSUME MuxTypeOK, MuxInv, AllLeaveLast, MuxNext, NEW r \in Request,
           handler[r].pc = "ack", handler'[r].pc = "query", Negate(handler[r].offset) > 0
    PROVE  LastN(Pending(handler[r].client), Min({Negate(handler[r].offset), PageLimit}))
               \subseteq Pending(handler[r].client)'
<1> DEFINE h == handler[r]
           last == LastN(Pending(h.client), Min({Negate(h.offset), PageLimit}))
<1>1. Ack(r)
  <2>1. CASE MuxTelegram \/ MuxPoll \/ MuxIngest \/ MuxStart \/ \E c \in Client : GiveUp(c)
    BY <2>1 DEF MuxTelegram, MuxPoll, Unnoticed, MuxIngest, MuxStart, GiveUp
  <2>2. CASE MuxAdvance
    BY <2>2 DEF MuxAdvance, WakeAll, MuxTypeOK, Handler
  <2>3. CASE MuxStop
    BY <2>3, IdleFacts DEF MuxStop, EndAll
  <2>4. CASE \E c \in Client : BotCalls(c)
    <3>1. PICK c \in Client : BotCalls(c)
      BY <2>4
    <3>2. PICK q \in Request, off \in 0..next[c] \cup Negatives, limit \in Limits,
               wait \in BOOLEAN : Call(q, c, off, limit, wait)
      BY <3>1 DEF BotCalls
    <3> QED BY <3>2 DEF Call, MuxTypeOK
  <2>5. CASE \E q \in Request : HandlerStep(q) \/ Abort(q)
    <3>1. PICK q \in Request : HandlerStep(q) \/ Abort(q)
      BY <2>5
    <3>2. q = r
      BY <3>1 DEF HandlerStep, TakeChanges, Resolve, Ack, Query, Wait, Woken, Reply, Abort,
                  Goto, MuxTypeOK
    <3> QED BY <3>1, <3>2, IdleFacts DEF HandlerStep, TakeChanges, Resolve, Query, Wait, Woken,
                                         Reply, Abort, MuxTypeOK
  <2> QED BY <2>1, <2>2, <2>3, <2>4, <2>5 DEF MuxNext
<1>2. h.client \in Client /\ h.at \in UpdateId /\ Acknowledge(h.client, h.at)
  BY <1>1 DEF Ack, MuxTypeOK, Handler
<1>3. deliveries' = {d \in deliveries : d[1] # h.client \/ d[2] >= h.at}
  BY <1>2, AcknowledgeRemoves DEF MuxTypeOK, PollerTypeOK, MuxInv, PollerInv
<1>4. \A u \in last : u >= h.at
  BY DEF AllLeaveLast, LeavesLast
<1>5. last \subseteq Pending(h.client)
  BY DEF LastN
<1>6. handler'[r].client = h.client
  BY <1>1 DEF Ack, Goto, MuxTypeOK, Handler
<1> HIDE DEF last, h
<1>7. last \subseteq PendingIn(deliveries', h.client)
  BY <1>3, <1>4, <1>5 DEF Pending, PendingIn
<1> QED BY <1>6, <1>7 DEF last, h, Pending

----------------------------------------------------------------------------
(* Theorems *)

(* The inductive invariant holds in every reachable state; in particular   *)
(* a page never leaves a gap behind that its bot would acknowledge.        *)
THEOREM MuxSafe == MuxSpec => [](MuxTypeOK /\ MuxInv)
<1> QED BY MuxInitKeeps, MuxNextKeeps, PTL DEF MuxSpec

(* A negative offset, the smallest integer included, resolves to an update *)
(* id or zero, and requests and bots hold nothing but their types allow.   *)
THEOREM MuxWellTyped == MuxSpec => []MuxTypeOK
<1> QED BY MuxSafe, PTL

(* What a page that may yet be received leaves out, its bot has had.       *)
THEOREM PagesLeaveNoGap == MuxSpec => []PageHasNoGap
<1>1. MuxInv => PageHasNoGap
  BY DEF MuxInv
<1> QED BY <1>1, MuxSafe, PTL

(* No update routed to a bot is lost, whatever requests overlap, are given *)
(* up or cut off, and however often the process restarts.                  *)
THEOREM NothingLost == MuxSpec => []NoLoss
<1>1. MuxInv => NoLoss
  BY DEF MuxInv
<1> QED BY <1>1, MuxSafe, PTL

(* No long poll sleeps through an update, whichever way the commit and the *)
(* signal fall between the steps of a request.                             *)
THEOREM NoWakeupLost == MuxSpec => []NoLostWakeup
<1>1. MuxInit => NoLostWakeup
  BY DEF MuxInit, NoLostWakeup, Asleep, Idle
<1> QED BY <1>1, WakeupKept, MuxSafe, PTL DEF MuxSpec

(* A request with offset -n takes none of its bot's last n updates away,   *)
(* whatever is routed or acknowledged between the transaction that         *)
(* resolves the offset and the one that acknowledges it.                   *)
THEOREM LastUpdatesKept == MuxSpec => NegativeKeepsLast
<1>1. MuxInit => AllLeaveLast
  BY DEF MuxInit, AllLeaveLast, LeavesLast, Idle
<1> DEFINE Kept ==
      \A r \in Request :
          LET h == handler[r]
              n == Negate(h.offset)
          IN  h.pc = "ack" /\ handler'[r].pc = "query" /\ n > 0 =>
                  LastN(Pending(h.client), Min({n, PageLimit})) \subseteq Pending(h.client)'
<1>2. MuxTypeOK /\ MuxInv /\ AllLeaveLast /\ [MuxNext]_muxVars => [Kept]_muxVars
  <2> SUFFICES ASSUME MuxTypeOK, MuxInv, AllLeaveLast, MuxNext, NEW r \in Request,
                      handler[r].pc = "ack", handler'[r].pc = "query",
                      Negate(handler[r].offset) > 0
               PROVE  LastN(Pending(handler[r].client), Min({Negate(handler[r].offset), PageLimit}))
                          \subseteq Pending(handler[r].client)'
    OBVIOUS
  <2> QED BY AckLeavesLast
<1> QED BY <1>1, <1>2, LeavingKept, MuxSafe, PTL DEF MuxSpec, NegativeKeepsLast

(***************************************************************************)
(* The multiplexer implements the queues of module FanOut, for any         *)
(* clients, requests and configurations.                                   *)
(*                                                                         *)
(* A step that changes neither what is owed nor what a bot has is a        *)
(* stutter.  The others are an ingest (Arrive), a page received (Receive), *)
(* a negative offset acknowledged (Drop) and a restart (Reconfigure).      *)
(***************************************************************************)

(* The queues change only with what they are defined from. *)
LEMMA SameQueues ==
    ASSUME UNCHANGED <<cfg, ingested, owed, seen, forgotten>>
    PROVE  UNCHANGED F!fanOutVars
BY DEF F!fanOutVars, QueueOf

(* Everything a bot is owed and has not had is pending. *)
LEMMA QueuedIsPending ==
    ASSUME MuxInv, NEW c \in Client PROVE QueueOf(c) \subseteq Pending(c)
<1> SUFFICES ASSUME NEW u \in QueueOf(c) PROVE u \in Pending(c)
  OBVIOUS
<1>1. u \in UpdateId /\ <<c, u>> \in owed /\ u \notin seen[c] \cup forgotten[c]
  BY DEF QueueOf
<1>2. <<c, u>> \in deliveries
  BY <1>1 DEF MuxInv, NoLoss
<1> QED BY <1>1, <1>2 DEF Pending, PendingIn

LEMMA InitMaps == MuxInit => F!FanOutInit
BY DEF MuxInit, PollerInit, StoreInit, F!FanOutInit, QueueOf

(* An ingest puts its batch at the end of the queues. *)
LEMMA IngestArrives ==
    ASSUME MuxTypeOK, MuxInv, MuxIngest PROVE F!Arrive(batch)
<1>1. /\ owed' = owed \cup RoutedBy(batch)
      /\ ingested' = ingested \cup batch
      /\ UNCHANGED <<cfg, seen, forgotten>>
  BY DEF MuxIngest, IngestDone, IngestCommits, botVars
<1>2. batch \in SUBSET UpdateId
  BY StreamAssumption DEF MuxTypeOK, PollerTypeOK
<1>3. \A u \in batch, v \in ingested : v < u
  <2> SUFFICES ASSUME NEW u \in batch, NEW v \in ingested PROVE v < u
    OBVIOUS
  <2>1. u >= upstreamOffset
    BY DEF MuxIngest, IngestDone, MuxInv, PollerInv, BatchIsNext
  <2>2. v < upstreamOffset
    BY DEF MuxInv, PollerInv, StoreInv, WindowRetained
  <2>3. u \in Int /\ v \in Int /\ upstreamOffset \in Int
    BY <1>2 DEF MuxTypeOK, PollerTypeOK, StoreTypeOK, UpdateId
  <2> QED BY <2>1, <2>2, <2>3
<1>4. batch \cap ingested = {}
  <2> SUFFICES ASSUME NEW u \in batch, u \in ingested PROVE FALSE
    OBVIOUS
  <2>1. u \in Int /\ u < u
    BY <1>2, <1>3 DEF UpdateId
  <2> QED BY <2>1
<1>5. RoutedBy(batch) = {d \in Client \X batch : d[1] \in cfg.targets[d[2]]}
  BY <1>4 DEF RoutedBy, MuxInv, PollerInv, StoreInv, WindowRetained
<1>6. ASSUME NEW c \in Client
      PROVE  QueueOf(c)' = QueueOf(c) \cup {u \in batch : c \in cfg.targets[u]}
  <2>1. seen[c] \cup forgotten[c] \subseteq ingested
    BY DEF MuxInv, OwedIsStored
  <2>2. \A u \in UpdateId : <<c, u>> \in owed' <=>
            <<c, u>> \in owed \/ (u \in batch /\ c \in cfg.targets[u])
    BY <1>1, <1>5
  <2>3. QueueOf(c)' = {u \in UpdateId : <<c, u>> \in owed'} \ (seen[c] \cup forgotten[c])
    BY <1>1 DEF QueueOf
  <2> QED BY <1>2, <1>4, <2>1, <2>2, <2>3 DEF QueueOf
<1> QED BY <1>1, <1>3, <1>6 DEF F!Arrive

(* A restart removes the queues of the clients that are gone. *)
LEMMA StartReconfigures ==
    ASSUME MuxStart PROVE \E k \in Configs : F!Reconfigure(k)
<1>1. PICK k \in Configs :
         /\ Start(k)
         /\ owed' = {d \in owed : d[1] \in k.clients}
         /\ UNCHANGED <<handler, awaiting, next, seen, forgotten>>
  BY DEF MuxStart, botVars
<1>2. cfg' = k /\ UNCHANGED ingested
  BY <1>1 DEF Start, Open, Reconcile
<1>3. ASSUME NEW c \in Client
      PROVE  QueueOf(c)' = IF c \in k.clients THEN QueueOf(c) ELSE {}
  BY <1>1 DEF QueueOf
<1> QED BY <1>1, <1>2, <1>3 DEF F!Reconfigure

(* A page that is received takes the front of its bot's queue. *)
LEMMA ReplyReceives ==
    ASSUME MuxTypeOK, MuxInv, NEW r \in Request, Reply(r)
    PROVE  [F!FanOutNext]_F!fanOutVars
<1> DEFINE h == handler[r]
           c == h.client
           P == h.page \cap QueueOf(c)
           late == h.page \cap (forgotten[c] \ seen[c])
<1>1. h \in Handler /\ c \in Client /\ h.page \in SUBSET UpdateId
  BY DEF MuxTypeOK, Handler
<1>2. UNCHANGED <<cfg, ingested, forgotten, owed>>
  BY DEF Reply, allPollerVars, storeVars
<1>3. seen \in [Client -> SUBSET UpdateId]
  BY DEF MuxTypeOK
<1>4. CASE awaiting[c] # r
  <2>1. seen' = seen
    BY <1>4 DEF Reply
  <2> QED BY <1>2, <2>1, SameQueues
<1>5. CASE awaiting[c] = r
  <2>1. seen' = [seen EXCEPT ![c] = seen[c] \cup h.page]
    BY <1>5 DEF Reply
  <2>2. \A u \in h.page : u \in UpdateId /\ <<c, u>> \in owed
    BY <1>1 DEF MuxInv, RequestsInStep, InStep
  <2>3. ASSUME NEW u \in P, NEW v \in QueueOf(c), v < u PROVE v \in P
    <3>1. NoGap(h)
      BY DEF MuxInv, PageHasNoGap
    <3>2. /\ <<c, v>> \in owed /\ <<c, v>>[1] = c /\ <<c, v>>[2] = v
          /\ v \notin seen[c] \cup forgotten[c]
      BY DEF QueueOf
    <3>3. v \in h.page \cup seen[c] \cup forgotten[c]
      <4>1. \A d \in owed : d[1] = c /\ d[2] < u => d[2] \in h.page \cup seen[d[1]] \cup forgotten[d[1]]
        BY <3>1 DEF NoGap
      <4> HIDE DEF h, c, P
      <4> QED BY <2>3, <3>2, <4>1
    <3> QED BY <2>3, <3>2, <3>3
  <2>4. \A u \in h.page : u \in P \cup late \cup seen[c]
    BY <2>2 DEF QueueOf
  <2> HIDE DEF h, c
  <2>5. /\ seen'[c] = seen[c] \cup h.page
        /\ \A e \in Client : e # c => seen'[e] = seen[e]
        /\ seen' = [seen EXCEPT ![c] = seen[c] \cup (P \cup late)]
    BY <1>1, <1>3, <2>1, <2>4
  <2>6. [e \in Client |-> QueueOf(e)]' = [e \in Client |-> IF e = c THEN QueueOf(e) \ P ELSE QueueOf(e)]
    BY <1>2, <2>5 DEF QueueOf
  <2>7. [e \in Client |-> forgotten[e] \ seen[e]]'
            = [e \in Client |-> IF e = c THEN (forgotten[e] \ seen[e]) \ late ELSE forgotten[e] \ seen[e]]
    BY <1>2, <2>5
  <2>8. P \in SUBSET UpdateId /\ late \in SUBSET UpdateId
    BY <1>1
  <2> HIDE DEF P, late
  <2>9. P \subseteq QueueOf(c) /\ late \subseteq forgotten[c] \ seen[c]
    BY DEF P, late
  <2>10. \E x \in Client, y, z \in SUBSET UpdateId : F!Receive(x, y, z)
    <3>1. F!IsFront(c, P)
      BY <1>1, <2>3, <2>9 DEF F!IsFront
    <3>2. late \subseteq [e \in Client |-> forgotten[e] \ seen[e]][c]
      BY <1>1, <2>9
    <3>3. [e \in Client |-> QueueOf(e)]' = F!Reduce([e \in Client |-> QueueOf(e)], c, P)
      BY <1>1, <2>6 DEF F!Reduce
    <3>4. [e \in Client |-> forgotten[e] \ seen[e]]'
              = F!Reduce([e \in Client |-> forgotten[e] \ seen[e]], c, late)
      BY <1>1, <2>7 DEF F!Reduce
    <3>5. seen' = F!Extend(seen, c, P \cup late)
      BY <2>5 DEF F!Extend
    <3> QED BY <1>2, <1>1, <2>8, <3>1, <3>2, <3>3, <3>4, <3>5 DEF F!Receive
  <2> QED BY <2>10 DEF F!FanOutNext
<1> QED BY <1>4, <1>5

(* A negative offset that is acknowledged drops the front of the queue. *)
LEMMA AckDrops ==
    ASSUME MuxTypeOK, MuxInv, NEW r \in Request, Ack(r)
    PROVE  [F!FanOutNext]_F!fanOutVars
<1> DEFINE h == handler[r]
           c == h.client
           gone == {u \in Pending(c) : u < h.at}
           P == gone \cap QueueOf(c)
<1>1. h \in Handler /\ c \in Client /\ h.at \in UpdateId
  BY DEF MuxTypeOK, Handler
<1>2. UNCHANGED <<cfg, ingested, seen, owed>>
  BY DEF Ack, Acknowledge
<1>3. forgotten' = IF h.offset >= 0 THEN forgotten
                   ELSE [forgotten EXCEPT ![c] = forgotten[c] \cup gone]
  BY DEF Ack
<1>4. CASE h.offset >= 0
  BY <1>2, <1>3, <1>4, SameQueues
<1>5. CASE ~(h.offset >= 0)
  <2>1. forgotten' = [forgotten EXCEPT ![c] = forgotten[c] \cup gone]
    BY <1>3, <1>5
  <2>2. forgotten \in [Client -> SUBSET UpdateId]
    BY DEF MuxTypeOK
  <2>3. ASSUME NEW u \in P, NEW v \in QueueOf(c), v < u PROVE v \in P
    <3>1. v \in Pending(c)
      BY <1>1, QueuedIsPending
    <3>2. u < h.at /\ u \in Int /\ v \in Int /\ h.at \in Int
      <4>1. u \in UpdateId /\ v \in UpdateId /\ u < h.at
        BY DEF QueueOf
      <4> HIDE DEF h, c
      <4> QED BY <1>1, <4>1 DEF UpdateId
    <3>3. v < h.at
      <4> HIDE DEF h, c, P
      <4> QED BY <2>3, <3>2
    <3> QED BY <2>3, <3>1, <3>3
  <2>4. \A u \in gone : <<c, u>> \in owed /\ u \in UpdateId
    BY DEF Pending, PendingIn, MuxInv, OwedIsStored
  <2>5. \A u \in gone : u \in P \cup seen[c] \cup forgotten[c]
    BY <2>4 DEF QueueOf
  <2>6. P \in SUBSET UpdateId /\ P \subseteq gone
    BY DEF QueueOf
  <2>7. P \subseteq QueueOf(c)
    OBVIOUS
  <2> HIDE DEF h, c, gone, P
  <2>8. /\ forgotten'[c] = forgotten[c] \cup gone
        /\ \A e \in Client : e # c => forgotten'[e] = forgotten[e]
    BY <1>1, <2>1, <2>2
  <2>9. [e \in Client |-> QueueOf(e)]'
            = [e \in Client |-> IF e = c THEN QueueOf(e) \ P ELSE QueueOf(e)]
    <3>1. ASSUME NEW e \in Client
          PROVE  QueueOf(e)' = IF e = c THEN QueueOf(e) \ P ELSE QueueOf(e)
      BY <1>2, <2>5, <2>6, <2>8 DEF QueueOf
    <3> QED BY <3>1
  <2>10. \A u \in P : u \notin seen[c]
    BY <2>7 DEF QueueOf
  <2>11. [e \in Client |-> forgotten[e] \ seen[e]]'
            = [e \in Client |-> IF e = c THEN (forgotten[e] \ seen[e]) \cup P
                                         ELSE forgotten[e] \ seen[e]]
    <3>1. ASSUME NEW e \in Client
          PROVE  (forgotten[e] \ seen[e])' = IF e = c THEN (forgotten[e] \ seen[e]) \cup P
                                                       ELSE forgotten[e] \ seen[e]
      BY <1>2, <2>5, <2>6, <2>8, <2>10
    <3> QED BY <3>1
  <2>12. \E x \in Client, y \in SUBSET UpdateId : F!Drop(x, y)
    <3>1. F!IsFront(c, P)
      BY <1>1, <2>3, <2>7 DEF F!IsFront
    <3>2. [e \in Client |-> QueueOf(e)]' = F!Reduce([e \in Client |-> QueueOf(e)], c, P)
      BY <1>1, <2>9 DEF F!Reduce
    <3>3. [e \in Client |-> forgotten[e] \ seen[e]]'
              = F!Extend([e \in Client |-> forgotten[e] \ seen[e]], c, P)
      BY <1>1, <2>11 DEF F!Extend
    <3> QED BY <1>2, <1>1, <2>6, <3>1, <3>2, <3>3 DEF F!Drop
  <2> QED BY <2>12 DEF F!FanOutNext
<1> QED BY <1>4, <1>5

(* Every step of the multiplexer is a step of the queues or none. *)
LEMMA NextMaps ==
    ASSUME MuxTypeOK, MuxInv, [MuxNext]_muxVars PROVE [F!FanOutNext]_F!fanOutVars
<1>1. CASE MuxIngest
  <2>1. batch \in SUBSET UpdateId
    BY StreamAssumption DEF MuxTypeOK, PollerTypeOK
  <2> QED BY <1>1, <2>1, IngestArrives DEF F!FanOutNext
<1>2. CASE MuxStart
  BY <1>2, StartReconfigures DEF F!FanOutNext
<1>3. CASE MuxTelegram \/ MuxPoll
  <2>1. UNCHANGED <<seen, forgotten, owed>>
    BY <1>3 DEF MuxTelegram, MuxPoll, Unnoticed, botVars
  <2>2. UNCHANGED storeVars
    BY <1>3 DEF MuxTelegram, Produce, ArriveLate, MuxPoll, Initialize, PollAnswered, PollEmpty,
                AnswerRejected, PollAbandoned, IngestPaused, Wake
  <2> QED BY <2>1, <2>2, SameQueues DEF storeVars
<1>4. CASE MuxAdvance \/ MuxStop
  BY <1>4, SameQueues DEF MuxAdvance, Advance, MuxStop, Stop, EndAll, botVars, storeVars
<1>5. CASE \E c \in Client : BotCalls(c) \/ GiveUp(c)
  BY <1>5, SameQueues DEF BotCalls, Call, GiveUp, allPollerVars, storeVars
<1>6. CASE \E r \in Request : HandlerStep(r) \/ Abort(r)
  <2>1. PICK r \in Request : HandlerStep(r) \/ Abort(r)
    BY <1>6
  <2>2. CASE Ack(r)
    BY <2>2, AckDrops
  <2>3. CASE Reply(r)
    BY <2>3, ReplyReceives
  <2>4. CASE TakeChanges(r) \/ Resolve(r) \/ Query(r) \/ Wait(r) \/ Woken(r) \/ Abort(r)
    BY <2>4, SameQueues DEF TakeChanges, Resolve, Query, Wait, Woken, Abort,
                            botVars, allPollerVars, storeVars
  <2> QED BY <2>1, <2>2, <2>3, <2>4 DEF HandlerStep
<1>7. CASE UNCHANGED muxVars
  BY <1>7, SameQueues DEF muxVars, botVars, allPollerVars, storeVars
<1> QED BY <1>1, <1>2, <1>3, <1>4, <1>5, <1>6, <1>7 DEF MuxNext

(* What has left a queue lies before what is in it, whatever is done to    *)
(* the queues.                                                             *)
LEMMA OrderIsKept ==
    ASSUME MuxTypeOK, MuxTypeOK', BotsSeeOrder, [F!FanOutNext]_F!fanOutVars
    PROVE  BotsSeeOrder'
<1>1. ASSUME NEW c \in Client
      PROVE  /\ QueueOf(c) \subseteq Int /\ seen[c] \subseteq Int /\ forgotten[c] \subseteq Int
             /\ QueueOf(c)' \subseteq Int /\ ingested \subseteq Int
  <2>1. /\ seen \in [Client -> SUBSET UpdateId] /\ forgotten \in [Client -> SUBSET UpdateId]
        /\ ingested \subseteq UpdateId /\ UpdateId \subseteq Int
    BY DEF MuxTypeOK, PollerTypeOK, StoreTypeOK, UpdateId
  <2>2. QueueOf(c) \subseteq UpdateId /\ QueueOf(c)' \subseteq UpdateId
    BY DEF QueueOf
  <2> QED BY <2>1, <2>2
<1> DEFINE had(c) == seen[c] \cup (forgotten[c] \ seen[c])
<1>2. \A c \in Client : \A u \in had(c), v \in QueueOf(c) : u < v
  BY DEF BotsSeeOrder, F!FanOutInv, F!InOrder
<1>3. \A c \in Client : QueueOf(c) \cup had(c) \subseteq ingested
  BY DEF BotsSeeOrder, F!FanOutInv, F!OnlyArrived
<1>4. SUFFICES ASSUME NEW c \in Client
               PROVE  /\ \A u \in had(c)', v \in QueueOf(c)' : u < v
                      /\ QueueOf(c)' \cup had(c)' \subseteq ingested'
  BY DEF BotsSeeOrder, F!FanOutInv, F!InOrder, F!OnlyArrived
<1>5. CASE UNCHANGED F!fanOutVars
  <2>1. QueueOf(c)' = QueueOf(c) /\ had(c)' = had(c) /\ ingested' = ingested
    BY <1>5 DEF F!fanOutVars
  <2> QED BY <1>2, <1>3, <2>1
<1>6. CASE \E B \in SUBSET UpdateId : F!Arrive(B)
  <2>1. PICK B \in SUBSET UpdateId : F!Arrive(B)
    BY <1>6
  <2>2. /\ had(c)' = had(c) /\ ingested' = ingested \cup B
        /\ QueueOf(c)' \subseteq QueueOf(c) \cup B
        /\ \A u \in B, v \in ingested : v < u
    BY <2>1 DEF F!Arrive
  <2> HIDE DEF had
  <2> QED BY <1>2, <1>3, <2>2
<1>7. CASE \E e \in Client, P, late \in SUBSET UpdateId : F!Receive(e, P, late)
  <2>1. PICK e \in Client, P \in SUBSET UpdateId, late \in SUBSET UpdateId : F!Receive(e, P, late)
    BY <1>7
  <2>2. /\ F!IsFront(e, P) /\ ingested' = ingested
        /\ QueueOf(c)' = IF e = c THEN QueueOf(c) \ P ELSE QueueOf(c)
        /\ had(c)' \subseteq IF e = c THEN had(c) \cup P ELSE had(c)
    <3>1. /\ F!IsFront(e, P) /\ ingested' = ingested
          /\ [x \in Client |-> QueueOf(x)]' = [x \in Client |-> IF x = e THEN QueueOf(x) \ P ELSE QueueOf(x)]
          /\ seen' = [seen EXCEPT ![e] = seen[e] \cup (P \cup late)]
          /\ late \subseteq forgotten[e] \ seen[e]
          /\ [x \in Client |-> forgotten[x] \ seen[x]]'
                = [x \in Client |-> IF x = e THEN (forgotten[x] \ seen[x]) \ late
                                            ELSE forgotten[x] \ seen[x]]
      BY <2>1 DEF F!Receive, F!Reduce, F!Extend
    <3>2. seen \in [Client -> SUBSET UpdateId]
      BY DEF MuxTypeOK
    <3>3. QueueOf(c)' = IF e = c THEN QueueOf(c) \ P ELSE QueueOf(c)
      BY <3>1
    <3>4. seen'[c] = IF e = c THEN seen[c] \cup P \cup late ELSE seen[c]
      BY <3>1, <3>2
    <3>5. (forgotten[c] \ seen[c])' = IF e = c THEN (forgotten[c] \ seen[c]) \ late
                                              ELSE forgotten[c] \ seen[c]
      BY <3>1
    <3> QED BY <3>1, <3>3, <3>4, <3>5
  <2>3. e = c => P \subseteq QueueOf(c) /\ \A u \in P, v \in QueueOf(c) : v < u => v \in P
    BY <2>2 DEF F!IsFront
  <2> QED BY <1>1, <1>2, <1>3, <2>2, <2>3
<1>8. CASE \E e \in Client, P \in SUBSET UpdateId : F!Drop(e, P)
  <2>1. PICK e \in Client, P \in SUBSET UpdateId : F!Drop(e, P)
    BY <1>8
  <2>2. /\ F!IsFront(e, P) /\ ingested' = ingested
        /\ QueueOf(c)' = IF e = c THEN QueueOf(c) \ P ELSE QueueOf(c)
        /\ had(c)' \subseteq IF e = c THEN had(c) \cup P ELSE had(c)
    BY <2>1 DEF F!Drop, F!Reduce, F!Extend
  <2>3. e = c => P \subseteq QueueOf(c) /\ \A u \in P, v \in QueueOf(c) : v < u => v \in P
    BY <2>2 DEF F!IsFront
  <2> QED BY <1>1, <1>2, <1>3, <2>2, <2>3
<1>9. CASE \E k \in Configs : F!Reconfigure(k)
  <2>1. QueueOf(c)' \subseteq QueueOf(c) /\ had(c)' = had(c) /\ ingested' = ingested
    BY <1>9 DEF F!Reconfigure
  <2> QED BY <1>2, <1>3, <2>1
<1> QED BY <1>5, <1>6, <1>7, <1>8, <1>9 DEF F!FanOutNext

----------------------------------------------------------------------------
(* Theorems *)

(* The multiplexer implements one queue per client: every interleaving of  *)
(* requests, transactions, polls and crashes is a history of the queues.   *)
THEOREM MuxImplementsFanOut == MuxSpec => ImplementsFanOut
<1>1. MuxTypeOK /\ MuxInv /\ [MuxNext]_muxVars => [F!FanOutNext]_F!fanOutVars
  BY NextMaps
<1> QED BY <1>1, InitMaps, MuxSafe, PTL DEF MuxSpec, ImplementsFanOut, F!FanOutSpec

(* Every bot has its updates in the order of the stream: nothing it is     *)
(* still owed precedes what it has received or dropped.                    *)
THEOREM OrderKept == MuxSpec => []BotsSeeOrder
<1>1. MuxInit => BotsSeeOrder
  BY DEF MuxInit, PollerInit, StoreInit, BotsSeeOrder, F!FanOutInv, F!InOrder, F!OnlyArrived, QueueOf
<1>2. /\ MuxTypeOK /\ MuxTypeOK' /\ BotsSeeOrder /\ [F!FanOutNext]_F!fanOutVars
      => BotsSeeOrder'
  BY OrderIsKept
<1> QED BY <1>1, <1>2, MuxImplementsFanOut, MuxSafe, PTL
           DEF MuxSpec, ImplementsFanOut, F!FanOutSpec

----------------------------------------------------------------------------
(* Without negative offsets *)

(* No bot has forgotten anything, and none is about to. *)
NothingForgotten ==
    /\ \A r \in Request : handler[r].offset >= 0
    /\ \A c \in Client : forgotten[c] = {}

(* A step of requests that asks for no negative offset forgets nothing. *)
LEMMA StepForgetsNothing ==
    ASSUME Negatives = {}
    PROVE  MuxTypeOK /\ NothingForgotten /\ [MuxNext]_muxVars => NothingForgotten'
<1> SUFFICES ASSUME MuxTypeOK, NothingForgotten, [MuxNext]_muxVars PROVE NothingForgotten'
  OBVIOUS
<1> USE DEF NothingForgotten
<1>1. Idle.offset = 0
  BY DEF Idle
<1>2. CASE \E r \in Request : Ack(r)
  BY <1>2 DEF Ack, Goto, MuxTypeOK, Handler
<1>3. CASE \E c \in Client : BotCalls(c)
  <2>1. PICK c \in Client : BotCalls(c)
    BY <1>3
  <2>2. PICK q \in Request, off \in 0..next[c] \cup Negatives, limit \in Limits,
             wait \in BOOLEAN : Call(q, c, off, limit, wait)
    BY <2>1 DEF BotCalls
  <2>3. off >= 0
    BY <2>2
  <2>4. /\ handler'[q].offset = off
        /\ \A r \in Request : r # q => handler'[r] = handler[r]
    BY <2>2 DEF Call, MuxTypeOK, Idle
  <2>5. forgotten' = forgotten
    BY <2>2 DEF Call
  <2> QED BY <2>3, <2>4, <2>5
<1>4. CASE \E r \in Request : \/ TakeChanges(r) \/ Resolve(r) \/ Query(r) \/ Wait(r)
                              \/ Woken(r) \/ Reply(r) \/ Abort(r)
  <2>1. PICK r \in Request : \/ TakeChanges(r) \/ Resolve(r) \/ Query(r) \/ Wait(r)
                             \/ Woken(r) \/ Reply(r) \/ Abort(r)
    BY <1>4
  <2>2. forgotten' = forgotten
    BY <2>1 DEF TakeChanges, Resolve, Query, Wait, Woken, Reply, Abort, botVars
  <2>3. \A s \in Request : s # r => handler'[s] = handler[s]
    BY <2>1 DEF TakeChanges, Resolve, Query, Wait, Woken, Reply, Abort, Goto, MuxTypeOK
  <2>4. handler[r] \in Handler
    BY DEF MuxTypeOK
  <2>5. handler'[r].offset = handler[r].offset \/ handler'[r] = Idle
    BY <2>1, <2>4 DEF TakeChanges, Resolve, Query, Wait, Woken, Reply, Abort, Goto, MuxTypeOK, Handler
  <2> QED BY <1>1, <2>2, <2>3, <2>5
<1>5. CASE MuxAdvance
  <2>1. forgotten' = forgotten
    BY <1>5 DEF MuxAdvance, botVars
  <2>2. ASSUME NEW r \in Request PROVE handler'[r].offset = handler[r].offset
    <3>1. handler[r] \in Handler
      BY DEF MuxTypeOK
    <3> QED BY <1>5, <3>1 DEF MuxAdvance, WakeAll, Handler
  <2> QED BY <2>1, <2>2
<1>6. CASE MuxStop
  BY <1>1, <1>6 DEF MuxStop, EndAll
<1>7. CASE \/ MuxTelegram \/ MuxPoll \/ MuxIngest \/ MuxStart
           \/ (\E c \in Client : GiveUp(c)) \/ UNCHANGED muxVars
  BY <1>7 DEF MuxTelegram, MuxPoll, MuxIngest, MuxStart, Unnoticed, GiveUp, muxVars, botVars
<1> QED BY <1>2, <1>3, <1>4, <1>5, <1>6, <1>7 DEF MuxNext, HandlerStep

(* Where no bot asks for a negative offset, what is routed to a bot is     *)
(* pending until the bot has received it: nothing else takes an update     *)
(* away, whichever way its own requests overlap or are cut off.            *)
THEOREM OnlyNegativesForget ==
    ASSUME Negatives = {}
    PROVE  MuxSpec => [](\A d \in owed : d \in deliveries \/ d[2] \in seen[d[1]])
<1>1. MuxInit => NothingForgotten
  BY DEF MuxInit, NothingForgotten, Idle
<1>2. MuxTypeOK /\ NothingForgotten /\ [MuxNext]_muxVars => NothingForgotten'
  BY StepForgetsNothing
<1>3. MuxTypeOK /\ MuxInv /\ NothingForgotten
      => \A d \in owed : d \in deliveries \/ d[2] \in seen[d[1]]
  <2> SUFFICES ASSUME MuxTypeOK, MuxInv, NothingForgotten, NEW d \in owed, d \notin deliveries
               PROVE  d[2] \in seen[d[1]]
    OBVIOUS
  <2>1. d[1] \in Client
    BY DEF MuxTypeOK
  <2> QED BY <2>1 DEF MuxInv, NoLoss, NothingForgotten
<1> QED BY <1>1, <1>2, <1>3, MuxSafe, PTL DEF MuxSpec

----------------------------------------------------------------------------
(* Under one configuration *)

RoutedTo(c, k) == {u \in ingested : c \in k.targets[u]}

(* What was routed to a bot is what the configuration routes to it, and    *)
(* the bot has had nothing else.                                           *)
OwedAsRouted(k) ==
    /\ owed = {d \in Client \X ingested : d[1] \in k.targets[d[2]]}
    /\ \A c \in Client : seen[c] \cup forgotten[c] \subseteq RoutedTo(c, k)

(* Every step keeps it so: what is ingested was not before. *)
LEMMA NextRoutes ==
    ASSUME NEW k, Configs = {k}
    PROVE  MuxTypeOK /\ MuxInv /\ OwedAsRouted(k) /\ [MuxNext]_muxVars => OwedAsRouted(k)'
<1> SUFFICES ASSUME MuxTypeOK, MuxInv, OwedAsRouted(k), [MuxNext]_muxVars
             PROVE  /\ owed' = {d \in Client \X ingested' : d[1] \in k.targets[d[2]]}
                    /\ \A c \in Client : seen'[c] \cup forgotten'[c]
                                             \subseteq {u \in ingested' : c \in k.targets[u]}
  BY DEF OwedAsRouted, RoutedTo
<1> USE StoreAssumption, StreamAssumption
<1>0. cfg = k
  BY DEF MuxTypeOK, PollerTypeOK, StoreTypeOK
<1>1. ASSUME UNCHANGED <<seen, forgotten, owed, ingested>>
      PROVE  /\ owed' = {d \in Client \X ingested' : d[1] \in k.targets[d[2]]}
             /\ \A c \in Client : seen'[c] \cup forgotten'[c]
                                      \subseteq {u \in ingested' : c \in k.targets[u]}
  BY <1>1 DEF OwedAsRouted, RoutedTo
<1>2. CASE MuxIngest
  <2>1. /\ owed' = owed \cup RoutedBy(batch) /\ UNCHANGED <<seen, forgotten>>
        /\ ingested' = ingested \cup batch /\ poller = "ingest"
    BY <1>2 DEF MuxIngest, IngestDone, IngestCommits, botVars
  <2>2. batch \cap ingested = {}
    <3> SUFFICES ASSUME NEW u \in batch, u \in ingested PROVE FALSE
      OBVIOUS
    <3>1. u >= upstreamOffset
      BY <2>1 DEF MuxInv, PollerInv, BatchIsNext
    <3>2. u < upstreamOffset
      BY DEF MuxInv, PollerInv, StoreInv, WindowRetained
    <3>3. u \in UpdateId /\ upstreamOffset \in UpdateId
      BY DEF MuxTypeOK, PollerTypeOK, StoreTypeOK
    <3> QED BY <3>1, <3>2, <3>3 DEF UpdateId
  <2>3. batch \ updates = batch
    BY <2>2 DEF MuxInv, PollerInv, StoreInv, WindowRetained
  <2>4. RoutedBy(batch) = {d \in Client \X batch : d[1] \in k.targets[d[2]]}
    BY <1>0, <2>3 DEF RoutedBy
  <2> QED BY <2>1, <2>4 DEF OwedAsRouted, RoutedTo
<1>3. CASE MuxStart
  <2>1. PICK j \in Configs : Start(j) /\ owed' = {d \in owed : d[1] \in j.clients}
    BY <1>3 DEF MuxStart
  <2>2. UNCHANGED <<seen, forgotten, ingested>>
    BY <1>3 DEF MuxStart, botVars, Start, Open, Reconcile
  <2>3. j = k
    BY <2>1
  <2>4. \A u \in UpdateId : k.targets[u] \subseteq k.clients
    BY <2>1, <2>3
  <2>5. ingested \subseteq UpdateId
    BY DEF MuxTypeOK, PollerTypeOK, StoreTypeOK
  <2>6. owed' = owed
    BY <2>1, <2>3, <2>4, <2>5 DEF OwedAsRouted
  <2> QED BY <1>1, <2>2, <2>6
<1>4. CASE \E r \in Request : Ack(r)
  <2>1. PICK r \in Request : Ack(r)
    BY <1>4
  <2> DEFINE c == handler[r].client
             drop == {u \in Pending(c) : u < handler[r].at}
  <2>2. UNCHANGED <<seen, owed, ingested>>
    BY <2>1 DEF Ack, Acknowledge
  <2>3. forgotten' = forgotten \/ forgotten' = [forgotten EXCEPT ![c] = @ \cup drop]
    BY <2>1 DEF Ack
  <2>4. drop \subseteq RoutedTo(c, k)
    <3> SUFFICES ASSUME NEW u \in Pending(c) PROVE u \in RoutedTo(c, k)
      OBVIOUS
    <3>1. <<c, u>> \in owed
      BY DEF Pending, PendingIn, MuxInv, OwedIsStored
    <3> QED BY <3>1 DEF OwedAsRouted, RoutedTo
  <2>5. forgotten \in [Client -> SUBSET UpdateId]
    BY DEF MuxTypeOK
  <2> HIDE DEF c, drop
  <2>6. ASSUME NEW e \in Client PROVE forgotten'[e] \subseteq RoutedTo(e, k)
    <3>1. forgotten[e] \subseteq RoutedTo(e, k)
      BY DEF OwedAsRouted
    <3>2. forgotten'[e] = forgotten[e] \/ (e = c /\ forgotten'[e] = forgotten[e] \cup drop)
      BY <2>3, <2>5
    <3> QED BY <2>4, <3>1, <3>2
  <2> QED BY <2>2, <2>6 DEF OwedAsRouted, RoutedTo
<1>5. CASE \E r \in Request : Reply(r)
  <2>1. PICK r \in Request : Reply(r)
    BY <1>5
  <2> DEFINE c == handler[r].client
             page == handler[r].page
  <2>2. UNCHANGED <<forgotten, owed, ingested>>
    BY <2>1 DEF Reply, allPollerVars, storeVars
  <2>3. seen' = seen \/ seen' = [seen EXCEPT ![c] = @ \cup page]
    BY <2>1 DEF Reply
  <2>4. page \subseteq RoutedTo(c, k)
    <3> SUFFICES ASSUME NEW u \in page PROVE u \in RoutedTo(c, k)
      OBVIOUS
    <3>1. InStep(handler[r])
      BY DEF MuxInv, RequestsInStep
    <3>2. <<c, u>> \in owed
      BY <3>1 DEF InStep
    <3> QED BY <3>2 DEF OwedAsRouted, RoutedTo
  <2>5. seen \in [Client -> SUBSET UpdateId]
    BY DEF MuxTypeOK
  <2> HIDE DEF c, page
  <2>6. ASSUME NEW e \in Client PROVE seen'[e] \subseteq RoutedTo(e, k)
    <3>1. seen[e] \subseteq RoutedTo(e, k)
      BY DEF OwedAsRouted
    <3>2. seen'[e] = seen[e] \/ (e = c /\ seen'[e] = seen[e] \cup page)
      BY <2>3, <2>5
    <3> QED BY <2>4, <3>1, <3>2
  <2> QED BY <2>2, <2>6 DEF OwedAsRouted, RoutedTo
<1>6. CASE MuxTelegram \/ MuxPoll
  <2>1. UNCHANGED <<seen, forgotten, owed>>
    BY <1>6 DEF MuxTelegram, MuxPoll, Unnoticed, botVars
  <2>2. UNCHANGED ingested
    BY <1>6 DEF MuxTelegram, Produce, ArriveLate, MuxPoll, Initialize, PollAnswered, PollEmpty,
                AnswerRejected, PollAbandoned, IngestPaused, Wake, storeVars
  <2> QED BY <1>1, <2>1, <2>2
<1>7. CASE MuxAdvance \/ MuxStop
  <2>1. UNCHANGED <<seen, forgotten, owed, ingested>>
    BY <1>7 DEF MuxAdvance, Advance, MuxStop, Stop, EndAll, botVars, storeVars
  <2> QED BY <1>1, <2>1
<1>8. CASE \/ \E c \in Client : BotCalls(c) \/ GiveUp(c)
           \/ \E r \in Request : \/ TakeChanges(r) \/ Resolve(r) \/ Query(r)
                                 \/ Wait(r) \/ Woken(r) \/ Abort(r)
           \/ UNCHANGED muxVars
  <2>1. UNCHANGED <<seen, forgotten, owed, ingested>>
    BY <1>8 DEF BotCalls, Call, GiveUp, TakeChanges, Resolve, Query, Wait, Woken, Abort,
                muxVars, botVars, allPollerVars, storeVars
  <2> QED BY <1>1, <2>1
<1> QED BY <1>2, <1>3, <1>4, <1>5, <1>6, <1>7, <1>8 DEF MuxNext, HandlerStep

(* While the configuration stays the same, through all crashes, restarts,  *)
(* lost answers and overlapping requests, what a bot has received, has     *)
(* dropped itself or has pending is exactly what the configuration routes  *)
(* to its client of all the updates ingested: nothing less, nothing more.  *)
THEOREM DeliveredAsRouted ==
    ASSUME NEW k, Configs = {k}
    PROVE  MuxSpec => [](\A c \in Client :
                            seen[c] \cup forgotten[c] \cup Pending(c) = RoutedTo(c, k))
<1>1. MuxInit => OwedAsRouted(k)
  BY DEF MuxInit, PollerInit, StoreInit, OwedAsRouted, RoutedTo
<1>2. MuxTypeOK /\ MuxInv /\ OwedAsRouted(k) /\ [MuxNext]_muxVars => OwedAsRouted(k)'
  BY NextRoutes
<1>3. MuxTypeOK /\ MuxInv /\ OwedAsRouted(k) =>
         \A c \in Client : seen[c] \cup forgotten[c] \cup Pending(c) = RoutedTo(c, k)
  <2> SUFFICES ASSUME MuxTypeOK, MuxInv, OwedAsRouted(k), NEW c \in Client
               PROVE  seen[c] \cup forgotten[c] \cup Pending(c) = RoutedTo(c, k)
    OBVIOUS
  <2>1. seen[c] \cup forgotten[c] \subseteq RoutedTo(c, k)
    BY DEF OwedAsRouted
  <2>2. ASSUME NEW u \in Pending(c) PROVE u \in RoutedTo(c, k)
    <3>1. <<c, u>> \in owed
      BY DEF Pending, PendingIn, MuxInv, OwedIsStored
    <3> QED BY <3>1 DEF OwedAsRouted, RoutedTo
  <2>3. ASSUME NEW u \in RoutedTo(c, k) PROVE u \in seen[c] \cup forgotten[c] \cup Pending(c)
    <3>1. <<c, u>> \in owed
      BY DEF OwedAsRouted, RoutedTo
    <3>2. <<c, u>> \in deliveries \/ u \in seen[c] \cup forgotten[c]
      BY <3>1 DEF MuxInv, NoLoss
    <3>3. u \in UpdateId
      BY DEF RoutedTo, MuxTypeOK, PollerTypeOK, StoreTypeOK
    <3> QED BY <3>2, <3>3 DEF Pending, PendingIn
  <2> QED BY <2>1, <2>2, <2>3
<1> QED BY <1>1, <1>2, <1>3, MuxSafe, PTL DEF MuxSpec

----------------------------------------------------------------------------
(* The multiplexer implements the poller and the store *)

(* A request in the server is of a client of the running configuration,    *)
(* and has no longer a page than it asks for.                              *)
Served(h) ==
    /\ h.pc # "idle" => h.client \in cfg.clients
    /\ IsFiniteSet(h.page) /\ Cardinality(h.page) <= NormalizeLimit(h.limit)

AllServed == \A r \in Request : Served(handler[r])

(* A limit is at most 100, and the page the store returns is within it.    *)
LEMMA PageIsWithinLimit ==
    ASSUME NEW c, NEW off, NEW limit \in Int
    PROVE  /\ IsFiniteSet(QueryUpdates(c, off, limit))
           /\ Cardinality(QueryUpdates(c, off, limit)) <= NormalizeLimit(limit)
           /\ NormalizeLimit(limit) <= PageLimit
<1>1. {u \in Pending(c) : off = 0 \/ u >= off} \in SUBSET UpdateId
  BY DEF Pending, PendingIn
<1>2. MaxId \in Nat /\ NormalizeLimit(limit) \in Nat
  BY LimitIsPositive, StoreAssumption
<1>3. NormalizeLimit(limit) <= PageLimit
  BY StoreAssumption DEF NormalizeLimit
<1> QED BY <1>1, <1>2, <1>3, FirstNSize DEF QueryUpdates

(* A request that has not begun has an empty page. *)
LEMMA IdleIsServed == Served(Idle)
<1>1. Idle.pc = "idle" /\ Idle.page = {} /\ Idle.limit = 0
  BY DEF Idle
<1>2. NormalizeLimit(0) \in Nat
  BY LimitIsPositive
<1> QED BY <1>1, <1>2, FS_EmptySet DEF Served

(* Under one configuration, a request goes on with its page, with none, or *)
(* with the page it reads.                                                 *)
LEMMA StaysServed ==
    ASSUME NEW h \in Handler, Served(h), NEW g, UNCHANGED cfg, h.pc # "idle" \/ g = h,
           g.client = h.client, g.limit = h.limit,
           g.page \in {h.page, {}, QueryUpdates(h.client, h.at, h.limit)}
    PROVE  /\ g.pc # "idle" => g.client \in cfg'.clients
           /\ IsFiniteSet(g.page) /\ Cardinality(g.page) <= NormalizeLimit(g.limit)
<1>1. CASE g = h
  BY <1>1 DEF Served
<1>2. CASE h.pc # "idle"
  <2>1. h.limit \in Int
    BY DEF Handler
  <2>2. NormalizeLimit(h.limit) \in Nat
    BY <2>1, LimitIsPositive
  <2>3. IsFiniteSet({}) /\ Cardinality({}) <= NormalizeLimit(h.limit)
    BY <2>2, FS_EmptySet
  <2>4. IsFiniteSet(g.page) /\ Cardinality(g.page) <= NormalizeLimit(h.limit)
    BY <2>1, <2>3, PageIsWithinLimit DEF Served
  <2> QED BY <1>2, <2>4 DEF Served
<1> QED BY <1>1, <1>2

(* Every step keeps all requests so. *)
LEMMA NextServes ==
    MuxTypeOK /\ MuxInv /\ AllServed /\ [MuxNext]_muxVars => AllServed'
<1> SUFFICES ASSUME MuxTypeOK, MuxInv, AllServed, [MuxNext]_muxVars, NEW r \in Request
             PROVE  Served(handler[r])'
  BY DEF AllServed
<1> DEFINE h == handler[r]
           g == handler'[r]
<1>1. h \in Handler /\ Served(h)
  BY DEF MuxTypeOK, AllServed
<1>2. ASSUME UNCHANGED cfg,
             \/ g = h
             \/ h.pc # "idle" /\ g.client = h.client /\ g.limit = h.limit
                /\ g.page \in {h.page, {}, QueryUpdates(h.client, h.at, h.limit)}
      PROVE  Served(handler[r])'
  <2>1. h.pc # "idle" \/ g = h
    BY <1>2
  <2>2. g.client = h.client /\ g.limit = h.limit
    BY <1>2
  <2>3. g.page \in {h.page, {}, QueryUpdates(h.client, h.at, h.limit)}
    BY <1>2
  <2> HIDE DEF g, h
  <2>4. /\ g.pc # "idle" => g.client \in cfg'.clients
        /\ IsFiniteSet(g.page) /\ Cardinality(g.page) <= NormalizeLimit(g.limit)
    BY <1>1, <1>2, <2>1, <2>2, <2>3, StaysServed
  <2> QED BY <2>4 DEF g, Served, NormalizeLimit
<1>3. ASSUME g = Idle PROVE Served(handler[r])'
  BY <1>3, IdleIsServed DEF Served, Idle, NormalizeLimit
<1>4. CASE MuxTelegram \/ MuxPoll \/ MuxIngest
  <2>1. g = h
    BY <1>4 DEF MuxTelegram, MuxPoll, Unnoticed, MuxIngest
  <2>2. UNCHANGED cfg
    BY <1>4 DEF MuxTelegram, Produce, ArriveLate, MuxPoll, Initialize, PollAnswered, PollEmpty,
                AnswerRejected, PollAbandoned, IngestPaused, Wake, storeVars,
                MuxIngest, IngestDone, IngestCommits
  <2> QED BY <1>2, <2>1, <2>2
<1>5. CASE MuxAdvance
  <2>1. (g = [h EXCEPT !.woken = TRUE] /\ h.pc \in Holding) \/ g = h
    BY <1>5 DEF MuxAdvance, WakeAll
  <2>2. g = h \/ (g.client = h.client /\ g.limit = h.limit /\ g.page = h.page /\ h.pc # "idle")
    BY <1>1, <2>1 DEF Handler, Holding
  <2>3. UNCHANGED cfg
    BY <1>5 DEF MuxAdvance, Advance, storeVars
  <2> QED BY <1>2, <2>2, <2>3
<1>6. CASE MuxStart
  <2>1. poller = "down" /\ handler' = handler
    BY <1>6 DEF MuxStart, Start
  <2>2. g = Idle
    BY <2>1 DEF MuxInv, RequestsInStep
  <2> QED BY <1>3, <2>2
<1>7. CASE MuxStop
  BY <1>3, <1>7 DEF MuxStop, EndAll
<1>8. CASE UNCHANGED muxVars \/ \E c \in Client : GiveUp(c)
  BY <1>2, <1>8 DEF muxVars, GiveUp, allPollerVars, storeVars
<1>9. CASE \E c \in Client : BotCalls(c)
  <2>0. PICK c \in Client : BotCalls(c)
    BY <1>9
  <2>1. PICK q \in Request, off \in 0..next[c] \cup Negatives, limit \in Limits,
             wait \in BOOLEAN : Call(q, c, off, limit, wait)
    BY <2>0 DEF BotCalls
  <2>2. UNCHANGED cfg /\ c \in cfg.clients
    BY <2>1 DEF Call, allPollerVars, storeVars
  <2>3. CASE q = r
    <3>1. g.client = c /\ g.page = {} /\ g.limit = limit
      BY <2>1, <2>3 DEF Call, MuxTypeOK, Idle
    <3>2. NormalizeLimit(limit) \in Nat
      BY LimitIsPositive, MuxAssumption
    <3> QED BY <2>1, <2>2, <3>1, <3>2, FS_EmptySet DEF Served, NormalizeLimit
  <2>4. CASE q # r
    BY <1>2, <2>1, <2>2, <2>4 DEF Call, MuxTypeOK
  <2> QED BY <2>3, <2>4
<1>10. CASE \E q \in Request : HandlerStep(q) \/ Abort(q)
  <2>1. PICK q \in Request : HandlerStep(q) \/ Abort(q)
    BY <1>10
  <2>2. UNCHANGED cfg
    BY <2>1 DEF HandlerStep, TakeChanges, Resolve, Ack, Acknowledge, Query, Wait, Woken, Reply, Abort,
                allPollerVars, storeVars
  <2>3. CASE q # r
    <3>1. g = h
      BY <2>1, <2>3 DEF HandlerStep, TakeChanges, Resolve, Ack, Query, Wait, Woken, Reply, Abort,
                        Goto, MuxTypeOK
    <3> QED BY <1>2, <2>2, <3>1
  <2>4. CASE q = r
    <3>1. CASE Reply(r) \/ Abort(r)
      <4>1. g = Idle
        BY <3>1 DEF Reply, Abort, MuxTypeOK
      <4> QED BY <1>3, <4>1
    <3>2. CASE TakeChanges(r)
      <4>1. h.pc # "idle" /\ g.client = h.client /\ g.limit = h.limit /\ g.page = {}
        BY <1>1, <3>2 DEF TakeChanges, MuxTypeOK, Handler
      <4> QED BY <1>2, <2>2, <4>1
    <3>3. CASE Query(r)
      <4>1. h.pc # "idle" /\ g.client = h.client /\ g.limit = h.limit
            /\ g.page = QueryUpdates(h.client, h.at, h.limit)
        BY <1>1, <3>3 DEF Query, MuxTypeOK, Handler
      <4> QED BY <1>2, <2>2, <4>1
    <3>4. CASE Resolve(r) \/ Ack(r) \/ Wait(r) \/ Woken(r)
      <4>1. h.pc # "idle" /\ g.client = h.client /\ g.limit = h.limit /\ g.page = h.page
        BY <1>1, <3>4 DEF Resolve, Ack, Wait, Woken, Goto, MuxTypeOK, Handler
      <4> QED BY <1>2, <2>2, <4>1
    <3> QED BY <2>1, <2>4, <3>1, <3>2, <3>3, <3>4 DEF HandlerStep
  <2> QED BY <2>3, <2>4
<1> QED BY <1>4, <1>5, <1>6, <1>7, <1>8, <1>9, <1>10 DEF MuxNext

(* No answer has more updates than its bot asked for, or more than 100,    *)
(* and none is under way to a bot whose client is not configured.          *)
THEOREM AnswersFit == MuxSpec => []AllServed
<1>1. MuxInit => AllServed
  BY IdleIsServed DEF MuxInit, AllServed
<1> QED BY <1>1, NextServes, MuxSafe, PTL DEF MuxSpec

(* With the requests of any number of bots interleaved between its         *)
(* transactions, the database and the poller do what module Poller says:   *)
(* an acknowledgment of a request is one Poller lets a client make.        *)
THEOREM MuxImplementsPoller == MuxSpec => PollerSpec
<1>1. MuxInit => PollerInit
  BY DEF MuxInit
<1>2. MuxTypeOK /\ MuxInv /\ AllServed /\ [MuxNext]_muxVars => [PollerNext]_allPollerVars
  <2> SUFFICES ASSUME MuxTypeOK, MuxInv, AllServed, [MuxNext]_muxVars
               PROVE  [PollerNext]_allPollerVars
    OBVIOUS
  <2>1. CASE MuxTelegram \/ MuxPoll \/ MuxIngest \/ MuxAdvance \/ MuxStart \/ MuxStop
    <3>1. UpstreamStep
      BY <2>1 DEF MuxTelegram, MuxPoll, MuxIngest, MuxAdvance, MuxStart, MuxStop,
                  UpstreamStep, PollerStep
    <3> QED BY <3>1 DEF PollerNext
  <2>2. CASE \E r \in Request : Ack(r)
    <3>1. PICK r \in Request : Ack(r)
      BY <2>2
    <3> DEFINE h == handler[r]
    <3>2. /\ h.pc = "ack" /\ Acknowledge(h.client, h.at)
          /\ UNCHANGED <<pollerVars, telegramVars>>
      BY <3>1 DEF Ack
    <3>3. h.client \in cfg.clients
      BY <3>2 DEF AllServed, Served
    <3>4. h.at \in 1..upstreamOffset
      <4>1. h \in Handler /\ InStep(h) /\ upstreamOffset \in UpdateId
        BY DEF MuxTypeOK, PollerTypeOK, StoreTypeOK, MuxInv, RequestsInStep
      <4> HIDE DEF h
      <4>2. h.at \in Int /\ h.at > 0 /\ h.at <= upstreamOffset /\ upstreamOffset \in Int
        BY <3>2, <4>1, StoreAssumption DEF InStep, Handler, UpdateId
      <4> QED BY <4>2
    <3>5. poller # "down"
      BY <3>2, IdleFacts DEF MuxInv, RequestsInStep
    <3>6. ClientAcks(h.client)
      BY <3>2, <3>4, <3>5 DEF ClientAcks
    <3> QED BY <3>3, <3>6 DEF PollerNext
  <2>3. CASE \/ \E c \in Client : BotCalls(c) \/ GiveUp(c)
             \/ \E r \in Request : \/ TakeChanges(r) \/ Resolve(r) \/ Query(r) \/ Wait(r)
                                   \/ Woken(r) \/ Reply(r) \/ Abort(r)
             \/ UNCHANGED muxVars
    <3>1. UNCHANGED allPollerVars
      BY <2>3 DEF BotCalls, Call, GiveUp, TakeChanges, Resolve, Query, Wait, Woken, Reply, Abort,
                  muxVars
    <3> QED BY <3>1
  <2> QED BY <2>1, <2>2, <2>3 DEF MuxNext, HandlerStep
<1> QED BY <1>1, <1>2, MuxSafe, AnswersFit, PTL DEF MuxSpec, PollerSpec

(* What the store and the poller promise holds of the whole service: the   *)
(* upstream offset waits for the data, every update is routed once and in  *)
(* order, an acknowledgment is its client's alone, queues are bounded, and *)
(* no offset falls back.                                                   *)
THEOREM ServiceKeepsPromises ==
    MuxSpec => /\ []ConfirmedDurable /\ []UnparsedIsHeld
               /\ RoutedOnceInOrder /\ RoutedOnceInWindow
               /\ AcksAreIndependent /\ BacklogBound /\ OffsetsRise
<1> QED BY MuxImplementsPoller, PollerImplementsStore, ConfirmedIsDurable, UnparsedStays,
           RoutedInOrder, RoutedOnce, AcksIndependent, BacklogIsBounded, OffsetsOnlyRise, PTL
=============================================================================
