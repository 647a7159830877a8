--------------------------- MODULE GatewayProofs ---------------------------
(***************************************************************************)
(* Proofs about what reaches Telegram through the gateway, for any number  *)
(* of requests, clients, paths and headers.                                *)
(***************************************************************************)
EXTENDS Gateway, TLAPS

Cleaning == INSTANCE Folding WITH op <- Walk, base <- <<>>

Upstream == {"forward", "sent", "executed", "declared", "chunked"}

(* What is on its way to Telegram, or has been executed, was checked       *)
(* before; and only what may be repeated is sent again.                    *)
Checked(r) == state[r] \in Upstream \/ runs[r] > 0 => Dispatch(call[r]) = "forward"
RepeatsOnly(r) ==
    /\ runs[r] > 1 => Replayable(call[r])
    /\ runs[r] > 0 /\ state[r] \in {"forward", "sent"} => Replayable(call[r])
Fresh(r) == state[r] = "idle" => runs[r] = 0

GatewayInv == TypeOK /\ \A r \in Request : Checked(r) /\ RepeatsOnly(r) /\ Fresh(r)

(* What Dispatch lets through. *)
LEMMA ForwardedIsAllowed ==
    ASSUME NEW c, Dispatch(c) = "forward"
    PROVE  /\ Authenticate(c.path[2].text, TokenOf(c.path))
           /\ IsBotPath(c.path) => ~OwnMethod(c.path[4])
<1>1. ~(c.path \in {<<Word("healthz")>>, <<Word("readyz")>>})
  BY DEF Dispatch
<1>2. IsBotPath(c.path) \/ IsFilePath(c.path)
  BY <1>1 DEF Dispatch
<1>3. Authenticate(c.path[2].text, TokenOf(c.path))
  BY <1>1, <1>2 DEF Dispatch
<1>4. ASSUME IsBotPath(c.path) PROVE ~OwnMethod(c.path[4])
  <2>1. DispatchBot(c) = "forward"
    BY <1>1, <1>2, <1>3, <1>4 DEF Dispatch
  <2>2. c.path[4].is # "invalid"
    BY <2>1 DEF DispatchBot
  <2> QED BY <2>1, <2>2 DEF DispatchBot
<1> QED BY <1>3, <1>4

LEMMA DispatchResult ==
    ASSUME NEW c
    PROVE  Dispatch(c) \in {"own", "not found", "unauthorized", "bad request", "not allowed",
                            "bad gateway", "forward"}
<1>1. DispatchBot(c) \in {"bad request", "own", "not allowed", "forward"}
  BY DEF DispatchBot
<1>2. DispatchFile(c) \in {"not allowed", "bad gateway", "forward"}
  BY DEF DispatchFile
<1> QED BY <1>1, <1>2 DEF Dispatch

RequestState == {"idle", "forward", "sent", "executed", "declared", "chunked", "done"}
AnswerState == {"none", "own", "bad request", "not allowed", "bad gateway",
                "not found", "unauthorized", "whole", "broken", "cut"}

LEMMA InitHolds == Init => GatewayInv
<1> SUFFICES ASSUME Init PROVE GatewayInv
  OBVIOUS
<1>1. Call # {}
  <2>1. PICK p \in Path : TRUE
    BY GatewayAssumption
  <2>2. [path |-> p, verb |-> "GET", body |-> FALSE, headers |-> {}] \in Call
    BY DEF Call
  <2> QED BY <2>2
<1>2. call \in [Request -> Call]
  <2>1. (CHOOSE c \in Call : TRUE) \in Call
    BY <1>1
  <2> QED BY <2>1 DEF Init
<1>3. TypeOK
  BY <1>2, GatewayAssumption DEF Init, TypeOK
<1>4. \A r \in Request : state[r] = "idle" /\ runs[r] = 0
  BY DEF Init
<1> QED BY <1>3, <1>4 DEF GatewayInv, Checked, RepeatsOnly, Fresh, Upstream

(* A step of request r leaves all others alone; what remains to be shown   *)
(* is about r.                                                             *)
OfOne(r) ==
    \A q \in Request \ {r} : /\ call'[q] = call[q] /\ state'[q] = state[q]
                             /\ runs'[q] = runs[q] /\ answer'[q] = answer[q]
                             /\ gone'[q] = gone[q]

OneKept(r) == Checked(r) /\ RepeatsOnly(r) /\ Fresh(r)

LEMMA OthersKept ==
    ASSUME GatewayInv, NEW r \in Request, OfOne(r), OneKept(r)', TypeOK'
    PROVE  GatewayInv'
<1>1. ASSUME NEW q \in Request \ {r} PROVE OneKept(q)'
  BY <1>1 DEF GatewayInv, OfOne, OneKept, Checked, RepeatsOnly, Fresh
<1> QED BY <1>1 DEF GatewayInv, OneKept

LEMMA StepHolds ==
    ASSUME GatewayInv, NEW r \in Request, Step(r) PROVE GatewayInv'
<1>1. /\ call \in [Request -> Call] /\ state \in [Request -> RequestState]
      /\ runs \in [Request -> 0..2] /\ answer \in [Request -> AnswerState]
      /\ reused \in [Request -> BOOLEAN] /\ gone \in [Request -> BOOLEAN] /\ idle \in 0..MaxIdle
      /\ \A q \in Request : /\ answer[q] # "none" => state[q] = "done"
                            /\ state[q] = "done" => answer[q] # "none" \/ gone[q]
  BY DEF GatewayInv, TypeOK, RequestState, AnswerState
<1>2. Checked(r) /\ RepeatsOnly(r) /\ Fresh(r)
  BY DEF GatewayInv
<1>3. CASE Receive(r)
  <2>1. PICK c \in Call :
           /\ call' = [call EXCEPT ![r] = c]
           /\ IF Dispatch(c) = "forward"
              THEN state' = [state EXCEPT ![r] = "forward"] /\ UNCHANGED answer
              ELSE /\ state' = [state EXCEPT ![r] = "done"]
                   /\ answer' = [answer EXCEPT ![r] = Dispatch(c)]
    BY <1>3 DEF Receive
  <2>2. state[r] = "idle" /\ UNCHANGED <<reused, runs, gone, idle>>
    BY <1>3 DEF Receive
  <2>3. Dispatch(c) \in AnswerState \cup {"forward"} /\ Dispatch(c) # "none"
    BY DispatchResult DEF AnswerState
  <2>4. TypeOK'
    BY <1>1, <2>1, <2>2, <2>3 DEF TypeOK, RequestState, AnswerState
  <2>5. OneKept(r)'
    BY <1>1, <1>2, <2>1, <2>2 DEF OneKept, Checked, RepeatsOnly, Fresh, Upstream
  <2>6. OfOne(r)
    BY <1>1, <2>1, <2>2 DEF OfOne
  <2> QED BY <2>4, <2>5, <2>6, OthersKept
<1>4. CASE Send(r)
  <2>1. TypeOK'
    <3>1. idle' \in 0..MaxIdle
      BY <1>1, <1>4, GatewayAssumption DEF Send
    <3>2. reused' \in [Request -> BOOLEAN]
      <4>1. PICK b \in BOOLEAN : reused' = [reused EXCEPT ![r] = b]
        <5>1. (idle > 0) \in BOOLEAN
          OBVIOUS
        <5>2. reused' = [reused EXCEPT ![r] = idle > 0]
          BY <1>4 DEF Send
        <5> QED BY <5>1, <5>2, Zenon
      <4> QED BY <1>1, <4>1
    <3>3. /\ state' = [state EXCEPT ![r] = "sent"] /\ state[r] = "forward"
          /\ UNCHANGED <<call, runs, answer, gone>>
      BY <1>4 DEF Send
    <3> QED BY <1>1, <3>1, <3>2, <3>3 DEF TypeOK, RequestState, AnswerState
  <2>2. OneKept(r)'
    BY <1>1, <1>2, <1>4 DEF Send, OneKept, Checked, RepeatsOnly, Fresh, Upstream
  <2>3. OfOne(r)
    BY <1>1, <1>4 DEF Send, OfOne
  <2> QED BY <2>1, <2>2, <2>3, OthersKept
<1>5. CASE Execute(r)
  <2>1. TypeOK'
    <3>1. runs' \in [Request -> 0..2]
      BY <1>1, <1>5 DEF Execute
    <3>2. /\ state' = [state EXCEPT ![r] = "executed"] /\ state[r] = "sent"
          /\ UNCHANGED <<call, reused, answer, gone, idle>>
      BY <1>5 DEF Execute
    <3> QED BY <1>1, <3>1, <3>2 DEF TypeOK, RequestState, AnswerState
  <2>2. OneKept(r)'
    BY <1>1, <1>2, <1>5 DEF Execute, OneKept, Checked, RepeatsOnly, Fresh, Upstream
  <2>3. OfOne(r)
    BY <1>1, <1>5 DEF Execute, OfOne
  <2> QED BY <2>1, <2>2, <2>3, OthersKept
<1>6. CASE Break(r)
  <2>1. TypeOK'
    BY <1>1, <1>6 DEF Break, Resent, Unanswered, Fail, TypeOK, RequestState, AnswerState
  <2>2. OneKept(r)'
    BY <1>1, <1>2, <1>6
       DEF Break, Resent, Unanswered, Fail, OneKept, Checked, RepeatsOnly, Fresh, Upstream
  <2>3. OfOne(r)
    BY <1>1, <1>6 DEF Break, Unanswered, Fail, OfOne
  <2> QED BY <2>1, <2>2, <2>3, OthersKept
<1>7. CASE Redirect(r) \/ Answer(r)
  <2>1. TypeOK'
    BY <1>1, <1>7 DEF Redirect, Answer, Fail, TypeOK, RequestState, AnswerState
  <2>2. OneKept(r)'
    BY <1>1, <1>2, <1>7
       DEF Redirect, Answer, Fail, OneKept, Checked, RepeatsOnly, Fresh, Upstream
  <2>3. OfOne(r)
    BY <1>1, <1>7 DEF Redirect, Answer, Fail, OfOne
  <2> QED BY <2>1, <2>2, <2>3, OthersKept
<1>8. CASE StreamEnds(r) \/ StreamBreaks(r)
  <2>1. TypeOK'
    <3>1. idle' \in 0..MaxIdle
      BY <1>1, <1>8, GatewayAssumption DEF StreamEnds, StreamBreaks
    <3>2. /\ state' = [state EXCEPT ![r] = "done"]
          /\ \E a \in {"whole", "broken", "cut"} : answer' = [answer EXCEPT ![r] = a]
          /\ UNCHANGED <<call, reused, runs, gone>>
      BY <1>8 DEF StreamEnds, StreamBreaks
    <3> QED BY <1>1, <3>1, <3>2 DEF TypeOK, RequestState, AnswerState
  <2>2. OneKept(r)'
    BY <1>1, <1>2, <1>8
       DEF StreamEnds, StreamBreaks, Streaming, OneKept, Checked, RepeatsOnly, Fresh, Upstream
  <2>3. OfOne(r)
    BY <1>1, <1>8 DEF StreamEnds, StreamBreaks, OfOne
  <2> QED BY <2>1, <2>2, <2>3, OthersKept
<1>9. CASE BotGoes(r) \/ Cancel(r)
  <2>1. TypeOK'
    BY <1>1, <1>9 DEF BotGoes, Cancel, TypeOK, RequestState, AnswerState
  <2>2. OneKept(r)'
    BY <1>1, <1>2, <1>9 DEF BotGoes, Cancel, OneKept, Checked, RepeatsOnly, Fresh, Upstream
  <2>3. OfOne(r)
    BY <1>1, <1>9 DEF BotGoes, Cancel, OfOne
  <2> QED BY <2>1, <2>2, <2>3, OthersKept
<1>10. CASE Finish(r)
  <2>1. TypeOK'
    <3>1. runs' \in [Request -> 0..2] /\ reused' \in [Request -> BOOLEAN] /\ gone' \in [Request -> BOOLEAN]
      <4>1. runs' \in [Request -> 0..2]
        BY <1>1, <1>10 DEF Finish
      <4> QED BY <1>1, <1>10, <4>1 DEF Finish
    <3>2. /\ state' = [state EXCEPT ![r] = "idle"] /\ answer' = [answer EXCEPT ![r] = "none"]
          /\ \A q \in Request \ {r} : gone'[q] = gone[q]
          /\ UNCHANGED <<call, idle>>
      BY <1>1, <1>10 DEF Finish
    <3> QED BY <1>1, <3>1, <3>2 DEF TypeOK, RequestState, AnswerState
  <2>2. OneKept(r)'
    BY <1>1, <1>2, <1>10 DEF Finish, OneKept, Checked, RepeatsOnly, Fresh, Upstream
  <2>3. OfOne(r)
    BY <1>1, <1>10 DEF Finish, OfOne
  <2> QED BY <2>1, <2>2, <2>3, OthersKept
<1> QED BY <1>3, <1>4, <1>5, <1>6, <1>7, <1>8, <1>9, <1>10 DEF Step

LEMMA NextHolds == GatewayInv /\ [Next]_vars => GatewayInv'
<1> SUFFICES ASSUME GatewayInv, [Next]_vars PROVE GatewayInv'
  OBVIOUS
<1>1. CASE Next
  BY <1>1, StepHolds DEF Next
<1>2. CASE UNCHANGED vars
  BY <1>2 DEF vars, GatewayInv, TypeOK, Checked, RepeatsOnly, Fresh
<1> QED BY <1>1, <1>2

(* Requests are checked before they are passed on, and nothing else is     *)
(* sent twice than what may be repeated.                                   *)
THEOREM GatewaySafe == Spec => []GatewayInv
<1> QED BY InitHolds, NextHolds, PTL DEF Spec

(* A bot has an answer when its request is over, unless it went away.      *)
THEOREM EveryRequestAnswered == Spec => []TypeOK
<1>1. GatewayInv => TypeOK
  BY DEF GatewayInv
<1> QED BY <1>1, GatewaySafe, PTL

(* Whatever path, spelling, verb or header a bot thinks of, the updates    *)
(* and the webhook of the bot stay the poller's.                           *)
THEOREM UpdatesAreThePollers == Spec => []UpdatesStayOwned
<1>1. GatewayInv => UpdatesStayOwned
  <2> SUFFICES ASSUME GatewayInv, NEW r \in Request, Executed(r), IsBotPath(call[r].path)
               PROVE  call[r].path[4].text \notin Management
    BY DEF UpdatesStayOwned
  <2>1. Dispatch(call[r]) = "forward"
    BY DEF GatewayInv, Checked, Executed
  <2> QED BY <2>1, ForwardedIsAllowed DEF OwnMethod
<1> QED BY <1>1, GatewaySafe, PTL

LEMMA FilePathIsNoOther ==
    ASSUME NEW p \in Seq(Part), IsFilePath(p)
    PROVE  Len(p) >= 5 /\ ~IsBotPath(p) /\ p \notin {<<Word("healthz")>>, <<Word("readyz")>>}
<1>1. Len(p) \in Nat /\ Len(p) >= 5
  BY DEF IsFilePath
<1>2. Len(p) # 4 /\ Len(p) # 1
  <2>1. \A n \in Nat : n >= 5 => n # 4 /\ n # 1
    OBVIOUS
  <2> QED BY <1>1, <2>1
<1>3. Len(<<Word("healthz")>>) = 1 /\ Len(<<Word("readyz")>>) = 1
  OBVIOUS
<1>4. p # <<Word("healthz")>> /\ p # <<Word("readyz")>>
  BY <1>2, <1>3
<1> QED BY <1>1, <1>2, <1>4 DEF IsBotPath

LEMMA WalkAppends ==
    ASSUME NEW kept, NEW s, s.is \notin {"empty", "dot", "dotdot"}
    PROVE  Walk(kept, s) = Append(kept, s)
BY DEF Walk

(* Clean keeps a path that has none of the special segments: each step     *)
(* appends the segment it looks at.                                        *)
LEMMA CleanKeeps ==
    ASSUME NEW f \in Seq(Part), FileAllowed(f) PROVE Clean(f) = f
<1>1. PICK g : /\ g[0] = <<>>
               /\ \A i \in 1..Len(f) : g[i] = Walk(g[i - 1], f[i])
               /\ Clean(f) = g[Len(f)]
  <2>1. \E g : /\ g[0] = <<>>
               /\ \A i \in 1..Len(f) : g[i] = Walk(g[i - 1], f[i])
               /\ Cleaning!FoldLeft(Walk, <<>>, f) = g[Len(f)]
    BY Cleaning!FoldSteps, Zenon
  <2>2. Clean(f) = Cleaning!FoldLeft(Walk, <<>>, f)
    BY Zenon DEF Clean, FoldLeft, Cleaning!FoldLeft, MapThenFoldSet, Cleaning!MapThenFoldSet,
       Max, Cleaning!Max
  <2> QED BY <2>1, <2>2, Zenon
<1> DEFINE S == {n \in Nat : n <= Len(f) => g[n] = SubSeq(f, 1, n)}
<1>2. 0 \in S
  <2>1. SubSeq(f, 1, 0) = <<>>
    OBVIOUS
  <2> QED BY <1>1, <2>1
<1>3. ASSUME NEW n \in Nat, n \in S PROVE n + 1 \in S
  <2> SUFFICES ASSUME n + 1 <= Len(f) PROVE g[n + 1] = SubSeq(f, 1, n + 1)
    OBVIOUS
  <2>1. n + 1 \in 1..Len(f) /\ n + 1 - 1 = n
    OBVIOUS
  <2>2. g[n] = SubSeq(f, 1, n)
    BY <1>3
  <2>3. f[n + 1].is \notin {"empty", "dot", "dotdot"}
    BY <2>1 DEF FileAllowed
  <2>4. g[n + 1] = Append(g[n], f[n + 1])
    <3>1. g[n + 1] = Walk(g[n], f[n + 1])
      BY <1>1, <2>1
    <3> QED BY <2>3, <3>1, WalkAppends
  <2>5. Append(SubSeq(f, 1, n), f[n + 1]) = SubSeq(f, 1, n + 1)
    BY <2>1
  <2> QED BY <2>2, <2>4, <2>5
<1>4. Nat \subseteq S
  <2> HIDE DEF S
  <2> QED BY <1>2, <1>3, Cleaning!SetInduction
<1>5. Len(f) \in S
  <2> HIDE DEF S
  <2> QED BY <1>4
<1>6. SubSeq(f, 1, Len(f)) = f
  OBVIOUS
<1> QED BY <1>1, <1>5, <1>6

(* Whatever path a bot thinks of, Telegram executes only what a client     *)
(* asked for with its own token, and a file's path is the one it gave.     *)
THEOREM OnlyWhatWasAsked == Spec => []OnlyAsked
<1>1. GatewayInv => OnlyAsked
  <2> SUFFICES ASSUME GatewayInv, NEW r \in Request, Executed(r)
               PROVE  LET p == call[r].path IN
                      /\ p[2].text \in DOMAIN Secret
                      /\ TokenOf(p) = Secret[p[2].text]
                      /\ IsFilePath(p) => Clean(FileOf(p)) = FileOf(p)
    BY DEF OnlyAsked
  <2> DEFINE p == call[r].path
  <2>1. Dispatch(call[r]) = "forward"
    BY DEF GatewayInv, Checked, Executed
  <2>2. Authenticate(p[2].text, TokenOf(p))
    BY <2>1, ForwardedIsAllowed
  <2>3. ASSUME IsFilePath(p) PROVE Clean(FileOf(p)) = FileOf(p)
    <3>1. p \in Seq(Part)
      BY GatewayAssumption DEF GatewayInv, TypeOK, Call
    <3>2. Len(p) >= 5 /\ ~IsBotPath(p) /\ p \notin {<<Word("healthz")>>, <<Word("readyz")>>}
      BY <2>3, <3>1, FilePathIsNoOther
    <3>3. DispatchFile(call[r]) = "forward"
      BY <2>1, <2>2, <2>3, <3>2 DEF Dispatch
    <3>4. FileAllowed(FileOf(p))
      BY <3>3 DEF DispatchFile
    <3>5. FileOf(p) \in Seq(Part)
      BY <3>1, <3>2 DEF FileOf
    <3> QED BY <3>4, <3>5, CleanKeeps
  <2> QED BY <2>2, <2>3 DEF Authenticate
<1> QED BY <1>1, GatewaySafe, PTL

LEMMA BotPathIsNoFile ==
    ASSUME NEW p \in Seq(Part), IsBotPath(p) PROVE ~IsFilePath(p)
<1>1. Len(p) = 4
  BY DEF IsBotPath
<1>2. ~(4 >= 5)
  OBVIOUS
<1> QED BY <1>1, <1>2 DEF IsFilePath

(* What a bot sent with a body, or posted without an idempotency key, is   *)
(* executed at most once, however often connections break and whatever the *)
(* transport repeats on its own.                                           *)
THEOREM UnmarkedAreNotRepeated == Spec => []UnmarkedOnce
<1>1. GatewayInv => UnmarkedOnce
  <2> SUFFICES ASSUME GatewayInv, NEW r \in Request, IsBotPath(call[r].path),
                      \/ call[r].body
                      \/ call[r].verb = "POST" /\ call[r].headers \cap IdempotencyKeys = {}
               PROVE  runs[r] <= 1
    BY DEF UnmarkedOnce
  <2>1. call[r].path \in Seq(Part)
    BY GatewayAssumption DEF GatewayInv, TypeOK, Call
  <2>2. ~IsFilePath(call[r].path)
    BY <2>1, BotPathIsNoFile
  <2>3. EndToEnd(call[r].headers) \cap IdempotencyKeys \subseteq call[r].headers \cap IdempotencyKeys
    BY DEF EndToEnd
  <2>4. ~Replayable(call[r])
    BY <2>2, <2>3 DEF Replayable, WithoutBody
  <2>5. ~(runs[r] > 1) /\ runs[r] \in 0..2
    BY <2>4 DEF GatewayInv, RepeatsOnly, TypeOK
  <2> QED BY <2>5
<1> QED BY <1>1, GatewaySafe, PTL
=============================================================================
