---------------------------- MODULE PolicyProofs ----------------------------
(* Proofs about Policy: what validation promises to routing. *)
EXTENDS Policy, WellFoundedInduction, TLAPS

Filtering == INSTANCE Folding WITH op <- Unprefixed, base <- <<>>

(* What is known of the state: the configuration in force is the file with *)
(* its defaults, a process that runs has validated it, and what was routed *)
(* last was routed by it.                                                  *)
Inv ==
    /\ TypeOK
    /\ Len(file.secrets) = Len(file.clients)
    /\ at # "load" => loaded = ApplyDefaults(file)
    /\ at = "running" => Validate(loaded) /\ Credentials(file)
    /\ routed # Nothing =>
          /\ at = "running"
          /\ routed.update \in Update
          /\ routed.targets = Targets(loaded, routed.update)

----------------------------------------------------------------------------
(* The operators *)

LEMMA FirstIsLeast ==
    ASSUME NEW S \in SUBSET Nat, S # {}
    PROVE  FirstOf(S) \in S /\ \A j \in S : FirstOf(S) <= j
<1> DEFINE R == OpToRel(<, Nat)
<1>1. PICK i \in S : \A j \in S : <<j, i>> \notin R
  <2>1. IsWellFoundedOn(R, Nat)
    BY NatLessThanWellFounded
  <2> HIDE DEF R
  <2> QED  BY <2>1, WFMin
<1>2. \A j \in S : i <= j
  <2> TAKE j \in S
  <2>1. i \in Nat /\ j \in Nat
    OBVIOUS
  <2>2. ~(j < i)
    BY <1>1, <2>1 DEF OpToRel
  <2> QED  BY <2>1, <2>2
<1> QED  BY <1>2 DEF FirstOf

LEMMA PrefixesAreStarts ==
    ASSUME NEW s \in Seq(STRING), NEW t \in Seq(STRING)
    PROVE  IsPrefix(s, t) <=> \E n \in 0..Len(t) : s = SubSeq(t, 1, n)
<1>1. SubSeq(s, 1, Len(s)) = s
  OBVIOUS
<1>2. \A n \in 0..Len(t) : Len(SubSeq(t, 1, n)) = n
  OBVIOUS
<1>3. Len(s) \in Nat /\ Len(t) \in Nat
  OBVIOUS
<1>4. ASSUME IsPrefix(s, t)
      PROVE  \E n \in 0..Len(t) : s = SubSeq(t, 1, n)
  <2>1. Len(s) \in 0..Len(t) /\ s = SubSeq(t, 1, Len(s))
    BY <1>1, <1>3, <1>4 DEF IsPrefix
  <2> QED  BY <2>1
<1>5. ASSUME NEW n \in 0..Len(t), s = SubSeq(t, 1, n)
      PROVE  IsPrefix(s, t)
  <2>1. Len(s) = n
    BY <1>2, <1>5
  <2> QED  BY <1>1, <1>3, <1>5, <2>1 DEF IsPrefix
<1> QED  BY <1>4, <1>5

LEMMA MatchesOwns ==
    ASSUME NEW rule \in Rule, NEW u \in Update
    PROVE  Matches(rule, u) <=> Owns(rule, u)
<1>1. u.data \in Seq(STRING)
  <2>1. u.data \in String \cup {Empty}
    BY DEF Update
  <2>2. Empty \in Seq(STRING)
    BY DEF Empty
  <2> QED  BY <2>1, <2>2, RoutingAssumption
<1>2. \A i \in DOMAIN rule.prefixes : rule.prefixes[i] \in Seq(STRING)
  <2>1. rule.prefixes \in Seq(String)
    BY DEF Rule
  <2> QED  BY <2>1, RoutingAssumption
<1>3. \A i \in DOMAIN rule.prefixes :
        IsPrefix(rule.prefixes[i], u.data) <=>
          \E n \in 0..Len(u.data) : rule.prefixes[i] = SubSeq(u.data, 1, n)
  BY <1>1, <1>2, PrefixesAreStarts
<1> QED  BY <1>3, Zenon DEF Matches, Owns, Range

LEMMA MatchingIsFound ==
    ASSUME NEW f \in File, NEW u \in Update, Matching(f.rules, u) # {}
    PROVE  LET i == FirstOf(Matching(f.rules, u)) IN
             /\ i \in DOMAIN f.rules
             /\ Matches(f.rules[i], u)
             /\ \A j \in 1..i - 1 : ~Matches(f.rules[j], u)
<1> DEFINE S == Matching(f.rules, u)
           i == FirstOf(S)
<1>1. f.rules \in Seq(Rule)
  BY DEF File
<1>2. S \subseteq 1..Len(f.rules) /\ Len(f.rules) \in Nat /\ DOMAIN f.rules = 1..Len(f.rules)
  BY <1>1 DEF Matching
<1>3. i \in S /\ \A j \in S : i <= j
  <2>1. S \in SUBSET Nat /\ S # {}
    BY <1>2
  <2> HIDE DEF S
  <2> QED  BY <2>1, FirstIsLeast
<1>4. ASSUME NEW j \in 1..i - 1
      PROVE  ~Matches(f.rules[j], u)
  <2>1. i \in 1..Len(f.rules)
    BY <1>2, <1>3
  <2>2. j \in DOMAIN f.rules /\ j < i
    BY <1>2, <2>1
  <2>3. j \notin S
    BY <1>2, <1>3, <2>1, <2>2
  <2> QED  BY <2>2, <2>3 DEF Matching
<1> QED  BY <1>3, <1>4 DEF Matching

LEMMA DefaultsKeepTypes ==
    ASSUME NEW f \in File
    PROVE  /\ ApplyDefaults(f) \in File
           /\ ApplyDefaults(f).clients = f.clients
           /\ ApplyDefaults(f).maxPending = DefaultNumber(f.maxPending, 10000)
           /\ ApplyDefaults(f).window = DefaultWindow(f.window)
<1> DEFINE listen == Default(f.listen, "", "loopback")
           api    == Default(f.apiBase, "", "https")
           base   == Default(f.fileBase, "", api)
           poll   == DefaultNumber(f.pollTimeout, 30)
           retry  == DefaultNumber(f.maxRetry, 30)
           mode   == Default(f.mode, "", "broadcast")
           limit  == DefaultNumber(f.maxPending, 10000)
           window == DefaultWindow(f.window)
           g      == [f EXCEPT !.listen = listen, !.apiBase = api, !.fileBase = base,
                               !.pollTimeout = poll, !.maxRetry = retry, !.mode = mode,
                               !.maxPending = limit, !.window = window]
<1>1. listen \in Listen /\ api \in Base /\ base \in Base
  BY DEF Default, File, Listen, Base
<1>2. \A n \in Int : <<n>> \in Number
  BY DEF Number
<1>3. poll \in Number /\ retry \in Number /\ limit \in Number /\ window \in Number
  <2>1. f.pollTimeout \in Number /\ f.maxRetry \in Number
    BY DEF File
  <2>2. f.maxPending \in Number /\ f.window \in Number
    BY DEF File
  <2>3. <<30>> \in Number /\ <<10000>> \in Number /\ <<1000>> \in Number
    BY <1>2
  <2>4. \A s \in Number, n \in Int : <<n>> \in Number => DefaultNumber(s, n) \in Number
    BY Zenon DEF DefaultNumber
  <2>5. \A s \in Number : DefaultWindow(s) \in Number
    BY <2>3 DEF DefaultWindow
  <2>6. 30 \in Int /\ 10000 \in Int
    OBVIOUS
  <2>7. poll \in Number /\ retry \in Number /\ limit \in Number
    BY <2>1, <2>2, <2>3, <2>4, <2>6
  <2>8. window \in Number
    BY <2>2, <2>5
  <2> QED  BY <2>7, <2>8
<1>4. mode \in {"", "broadcast", "exclusive", "other"}
  BY DEF File, Default
<1>5. g \in File /\ g.clients = f.clients /\ g.maxPending = limit /\ g.window = window
  <2> HIDE DEF listen, api, base, poll, retry, mode, limit, window
  <2>1. g \in File
    BY <1>1, <1>3, <1>4, ZenonT(60) DEF File
  <2>2. g.clients = f.clients
    BY Zenon DEF File
  <2>3. g.maxPending = limit
    BY Zenon DEF File
  <2>4. g.window = window
    BY Zenon DEF File
  <2> QED  BY <2>1, <2>2, <2>3, <2>4
<1>6. ApplyDefaults(f) = g
  BY Zenon DEF ApplyDefaults
<1>7. limit = DefaultNumber(f.maxPending, 10000) /\ window = DefaultWindow(f.window)
  OBVIOUS
<1> HIDE DEF g, limit, window
<1> QED  BY <1>5, <1>6, <1>7

LEMMA ParsedIsUpdate ==
    ASSUME NEW raw \in Raw, Parses(raw)
    PROVE  ParseUpdate(raw) \in Update
<1>1. \E type \in String : raw.payloads = {type}
  BY DEF Parses
<1>2. (CHOOSE type \in String : raw.payloads = {type}) \in String
  BY <1>1
<1>3. raw.id \in Nat
  BY DEF Raw, Parses
<1>4. raw.data \in String \cup {Empty}
  BY DEF Raw
<1> QED  BY <1>2, <1>3, <1>4 DEF ParseUpdate, Update

LEMMA ListsFit ==
    ASSUME NEW f \in File, NEW ids \in Seq(Id), References(ids, f)
    PROVE  /\ ids # <<>> /\ Distinct(ids)
           /\ \A i \in DOMAIN ids : \E j \in DOMAIN f.clients : f.clients[j] = ids[i]
BY Zenon DEF References, Distinct, IsInjective, Range

(* Targets examines nothing: validation has.                               *)
LEMMA ValidatedTargetsFit ==
    ASSUME NEW f \in File, Validate(f), NEW u \in Update
    PROVE  /\ Targets(f, u) \in Seq(Id)
           /\ Targets(f, u) # <<>> /\ Distinct(Targets(f, u))
           /\ \A i \in DOMAIN Targets(f, u) :
                 \E j \in DOMAIN f.clients : f.clients[j] = Targets(f, u)[i]
<1>1. CASE f.mode = "broadcast"
  <2>1. f.clients \in Seq(Id)
    BY DEF File
  <2>2. f.clients # <<>> /\ Distinct(f.clients)
    BY Zenon DEF Validate, ValidClients, Distinct, IsInjective
  <2>3. Targets(f, u) = f.clients
    BY <1>1 DEF Targets
  <2> QED  BY <2>1, <2>2, <2>3, Zenon
<1>2. CASE f.mode # "broadcast"
  <2>1. ValidExclusive(f)
    BY <1>2 DEF Validate, ValidBroadcast
  <2>2. CASE Matching(f.rules, u) = {}
    <3>1. Targets(f, u) = f.fallback /\ f.fallback \in Seq(Id) /\ References(f.fallback, f)
      BY <1>2, <2>1, <2>2 DEF Targets, File, ValidExclusive
    <3> QED  BY <3>1, ListsFit
  <2>3. CASE Matching(f.rules, u) # {}
    <3> DEFINE i == FirstOf(Matching(f.rules, u))
    <3>1. i \in DOMAIN f.rules
      BY <2>3, MatchingIsFound
    <3>2. f.rules[i] \in Rule
      <4>1. f.rules \in Seq(Rule)
        BY DEF File
      <4> HIDE DEF i
      <4> QED  BY <3>1, <4>1
    <3>3. Targets(f, u) = f.rules[i].clients
      BY <1>2, <2>3 DEF Targets
    <3>4. f.rules[i].clients \in Seq(Id) /\ References(f.rules[i].clients, f)
      BY <2>1, <3>1, <3>2 DEF ValidExclusive, ValidRule, Rule
    <3> QED  BY <3>3, <3>4, ListsFit
  <2> QED  BY <2>2, <2>3
<1> QED  BY <1>1, <1>2
----------------------------------------------------------------------------
(* The machine *)

LEMMA InitEstablishes == Init => Inv
<1> SUFFICES ASSUME Init PROVE Inv
  OBVIOUS
<1>1. file \in File /\ loaded \in File
  BY PolicyAssumption DEF Init
<1> QED  BY <1>1 DEF Init, Inv, TypeOK

LEMMA StepKeeps == Inv /\ [Next]_vars => Inv'
<1> SUFFICES ASSUME Inv, [Next]_vars PROVE Inv'
  OBVIOUS
<1> USE DEF Inv
<1>1. CASE Load
  <2>1. loaded' = ApplyDefaults(file) /\ file' = file /\ routed' = routed /\ at = "load"
    BY <1>1 DEF Load
  <2>2. loaded' \in File
    BY <2>1, DefaultsKeepTypes DEF TypeOK
  <2>3. at' \in {"running", "refused"}
    BY <1>1 DEF Load
  <2>4. at' = "running" => Validate(loaded') /\ Credentials(file)
    BY <1>1, Zenon DEF Load
  <2>5. routed = Nothing
    BY <2>1
  <2> QED  BY <2>1, <2>2, <2>3, <2>4, <2>5, Zenon DEF TypeOK
<1>2. CASE Route
  <2>1. at = "running" /\ at' = at /\ file' = file /\ loaded' = loaded
    BY <1>2 DEF Route
  <2>2. PICK raw \in Raws :
           /\ Parses(raw)
           /\ routed' = [update |-> ParseUpdate(raw), targets |-> Targets(loaded, ParseUpdate(raw))]
    BY <1>2 DEF Route
  <2>3. ParseUpdate(raw) \in Update
    BY <2>2, PolicyAssumption, ParsedIsUpdate
  <2>4. Targets(loaded, ParseUpdate(raw)) \in Seq(Id)
    BY <2>1, <2>3, ValidatedTargetsFit DEF TypeOK
  <2>5. /\ routed'.update = ParseUpdate(raw)
        /\ routed'.targets = Targets(loaded, ParseUpdate(raw))
        /\ routed' \in [update : Update, targets : Seq(Id)]
    BY <2>2, <2>3, <2>4
  <2> QED  BY <2>1, <2>3, <2>5, Zenon DEF TypeOK
<1>3. CASE UNCHANGED vars
  BY <1>3, Zenon DEF vars, TypeOK
<1> QED  BY <1>1, <1>2, <1>3 DEF Next

(* The configuration in force is the one that was validated, and the last  *)
(* update was routed by it.                                                *)
LEMMA Invariant == Spec => []Inv
<1>1. Init => Inv
  BY InitEstablishes
<1>2. Inv /\ [Next]_vars => Inv'
  BY StepKeeps
<1> QED  BY <1>1, <1>2, PTL DEF Spec

(* Every variable has its type: defaults and routing stay in their domains *)
(* for every file an operator may write and every update that parses.      *)
THEOREM PolicyWellTyped == Spec => []TypeOK
<1>1. Inv => TypeOK
  BY DEF Inv
<1> QED  BY <1>1, Invariant, PTL

(* What an accepted configuration routes is never empty, never twice the   *)
(* same client and never a client that is not configured: the inserts of   *)
(* an ingest meet no duplicate key and no unknown client.                  *)
THEOREM TargetsAlwaysFit == Spec => []TargetsFit
<1>1. Inv => TargetsFit
  <2> SUFFICES ASSUME Inv, routed # Nothing
               PROVE  /\ routed.targets # <<>> /\ Distinct(routed.targets)
                      /\ \A i \in DOMAIN routed.targets :
                            \E j \in DOMAIN loaded.clients : loaded.clients[j] = routed.targets[i]
    BY Zenon DEF TargetsFit
  <2>1. loaded \in File /\ Validate(loaded)
    BY DEF Inv, TypeOK
  <2>2. routed.update \in Update /\ routed.targets = Targets(loaded, routed.update)
    BY DEF Inv
  <2> QED  BY <2>1, <2>2, ValidatedTargetsFit
<1> QED  BY <1>1, Invariant, PTL

(* Exclusive rules are tried in their order, with both conditions of each, *)
(* whatever the rules are.                                                 *)
THEOREM FirstRuleOwns == Spec => []OwnedByFirst
<1>1. Inv => OwnedByFirst
  <2> SUFFICES ASSUME Inv, routed # Nothing, loaded.mode = "exclusive"
               PROVE  OwnedByFirst
    BY Zenon DEF OwnedByFirst
  <2> DEFINE u == routed.update
             rules == loaded.rules
  <2>1. loaded \in File /\ u \in Update /\ routed.targets = Targets(loaded, u)
    BY DEF Inv, TypeOK
  <2>2. rules \in Seq(Rule)
    BY <2>1 DEF File
  <2>3. \A i \in DOMAIN rules : rules[i] \in Rule
    BY <2>2
  <2>4. \A i \in DOMAIN rules : Matches(rules[i], u) <=> Owns(rules[i], u)
    BY <2>1, <2>3, MatchesOwns
  <2>5. CASE Matching(rules, u) = {}
    <3>1. routed.targets = loaded.fallback
      BY <2>1, <2>5 DEF Targets
    <3>2. \A i \in DOMAIN rules : ~Owns(rules[i], u)
      BY <2>4, <2>5 DEF Matching
    <3> QED  BY <3>1, <3>2, Zenon DEF OwnedByFirst
  <2>6. CASE Matching(rules, u) # {}
    <3> DEFINE i == FirstOf(Matching(rules, u))
    <3>1. /\ i \in DOMAIN rules
          /\ Matches(rules[i], u)
          /\ \A j \in 1..i - 1 : ~Matches(rules[j], u)
      BY <2>1, <2>6, MatchingIsFound
    <3>2. routed.targets = rules[i].clients
      BY <2>1, <2>6 DEF Targets
    <3> HIDE DEF i
    <3>3. \A j \in 1..i - 1 : j \in DOMAIN rules
      BY <2>2, <3>1
    <3>4. Owns(rules[i], u) /\ \A j \in 1..i - 1 : ~Owns(rules[j], u)
      BY <2>4, <3>1, <3>3
    <3> QED  BY <3>1, <3>2, <3>4, Zenon DEF OwnedByFirst
  <2> QED  BY <2>5, <2>6
<1> QED  BY <1>1, Invariant, PTL

----------------------------------------------------------------------------
(* The first rule that an update matches *)

NoneFits(rules, u) == \A i \in 1..Len(rules) : ~Matches(rules[i], u)
FirstFits(rules, rule, u) ==
    \E i \in 1..Len(rules) :
        rules[i] = rule /\ Matches(rule, u) /\ \A j \in 1..i - 1 : ~Matches(rules[j], u)

LEMMA TargetsByFit ==
    ASSUME NEW f \in File, f.mode = "exclusive", NEW u
    PROVE  /\ NoneFits(f.rules, u) => Targets(f, u) = f.fallback
           /\ \A rule : FirstFits(f.rules, rule, u) => Targets(f, u) = rule.clients
<1>1. f.rules \in Seq(Rule) /\ DOMAIN f.rules = 1..Len(f.rules) /\ Len(f.rules) \in Nat
  <2>1. f.rules \in Seq(Rule)
    BY DEF File
  <2> QED BY <2>1
<1>2. ASSUME NoneFits(f.rules, u) PROVE Targets(f, u) = f.fallback
  <2>1. Matching(f.rules, u) = {}
    BY <1>1, <1>2, Zenon DEF Matching, NoneFits
  <2> QED BY <2>1, Zenon DEF Targets
<1>3. ASSUME NEW rule, FirstFits(f.rules, rule, u) PROVE Targets(f, u) = rule.clients
  <2>1. PICK i \in 1..Len(f.rules) :
           /\ f.rules[i] = rule /\ Matches(rule, u)
           /\ \A j \in 1..i - 1 : ~Matches(f.rules[j], u)
    BY <1>3, Zenon DEF FirstFits
  <2> DEFINE S == Matching(f.rules, u)
  <2>2. i \in S /\ S \subseteq 1..Len(f.rules)
    BY <1>1, <2>1, Zenon DEF Matching
  <2>3. \A j \in S : j \notin 1..i - 1
    BY <2>1, Zenon DEF Matching
  <2> HIDE DEF S
  <2>4. FirstOf(S) \in S /\ FirstOf(S) <= i
    BY <1>1, <2>2, FirstIsLeast
  <2>5. FirstOf(S) = i
    BY <1>1, <2>1, <2>2, <2>3, <2>4
  <2>6. Targets(f, u) = f.rules[FirstOf(S)].clients
    BY <2>2, Zenon DEF Targets, S
  <2> QED BY <2>1, <2>5, <2>6, Zenon
<1> QED BY <1>2, <1>3

(* A rule at the end decides about what no rule before it decides.         *)
LEMMA FitsAppend ==
    ASSUME NEW rules \in Seq(Rule), NEW x \in Rule, NEW u
    PROVE  /\ NoneFits(rules, u) /\ ~Matches(x, u) => NoneFits(Append(rules, x), u)
           /\ NoneFits(rules, u) /\ Matches(x, u) => FirstFits(Append(rules, x), x, u)
           /\ \A rule : FirstFits(rules, rule, u) => FirstFits(Append(rules, x), rule, u)
<1> DEFINE n == Len(rules)
           more == Append(rules, x)
<1>1. n \in Nat /\ Len(more) = n + 1 /\ more[n + 1] = x /\ \A i \in 1..n : more[i] = rules[i]
  OBVIOUS
<1>2. 1..n + 1 = (1..n) \cup {n + 1} /\ n + 1 - 1 = n /\ n + 1 \in 1..n + 1
  BY <1>1
<1>3. \A i \in 1..n : 1..i - 1 \subseteq 1..n
  BY <1>1
<1> HIDE DEF more
<1>4. ASSUME NoneFits(rules, u), ~Matches(x, u) PROVE NoneFits(more, u)
  BY <1>1, <1>2, <1>4, Zenon DEF NoneFits, n
<1>5. ASSUME NoneFits(rules, u), Matches(x, u) PROVE FirstFits(more, x, u)
  <2>1. \A j \in 1..n + 1 - 1 : ~Matches(more[j], u)
    BY <1>1, <1>2, <1>5, Zenon DEF NoneFits, n
  <2>2. n + 1 \in 1..Len(more) /\ more[n + 1] = x
    BY <1>1, <1>2
  <2>3. ASSUME NEW k \in 1..Len(more), more[k] = x, \A j \in 1..k - 1 : ~Matches(more[j], u)
        PROVE  FirstFits(more, x, u)
    BY <1>5, <2>3, Zenon DEF FirstFits
  <2> QED BY <2>1, <2>2, <2>3
<1>6. ASSUME NEW rule, FirstFits(rules, rule, u) PROVE FirstFits(more, rule, u)
  <2>1. PICK i \in 1..n : /\ rules[i] = rule /\ Matches(rule, u)
                          /\ \A j \in 1..i - 1 : ~Matches(rules[j], u)
    BY <1>6, Zenon DEF FirstFits, n
  <2>2. i \in 1..Len(more) /\ more[i] = rule
    BY <1>1, <1>2, <2>1, Zenon
  <2>3. \A j \in 1..i - 1 : ~Matches(more[j], u)
    BY <1>1, <1>3, <2>1, Zenon
  <2> QED BY <2>1, <2>2, <2>3, Zenon DEF FirstFits
<1> QED BY <1>4, <1>5, <1>6 DEF more

(* What a rule with prefixes that passed validation never matches. *)
LEMMA PrefixedNeedsData ==
    ASSUME NEW f \in File, NEW rule \in Rule, ValidRule(rule, f), rule.prefixes # <<>>,
           NEW u, u.data = Empty
    PROVE  ~Matches(rule, u)
<1>1. rule.prefixes \in Seq(String)
  BY DEF Rule
<1>2. ASSUME NEW i \in DOMAIN rule.prefixes PROVE ~IsPrefix(rule.prefixes[i], u.data)
  <2> DEFINE s == rule.prefixes[i]
  <2>1. s \in Seq(STRING) /\ s # <<>>
    <3>1. s \in String
      BY <1>1
    <3>2. Trimmed(s)
      BY Zenon DEF ValidRule, StringSet
    <3> QED BY <3>1, <3>2, RoutingAssumption DEF Trimmed, Empty
  <2> HIDE DEF s
  <2>2. Len(s) \in Nat /\ Len(s) # 0
    BY <2>1
  <2>3. Len(u.data) = 0
    BY DEF Empty
  <2>4. ~(Len(s) <= Len(u.data))
    BY <2>2, <2>3
  <2> QED BY <2>4 DEF IsPrefix, s
<1> QED BY <1>2, Zenon DEF Matches

(* Leaving the rules with prefixes out changes nothing for an update       *)
(* without data: along the list, both lists have the same first rule that  *)
(* fits, or none.                                                          *)
LEMMA UnprefixedDecides ==
    ASSUME NEW f \in File, \A i \in DOMAIN f.rules : ValidRule(f.rules[i], f),
           NEW u, u.data = Empty
    PROVE  LET kept == FoldLeft(Unprefixed, <<>>, f.rules) IN
           /\ kept \in Seq(Rule)
           /\ \/ NoneFits(f.rules, u) /\ NoneFits(kept, u)
              \/ \E rule : FirstFits(f.rules, rule, u) /\ FirstFits(kept, rule, u)
<1> DEFINE rules == f.rules
           part(n) == SubSeq(rules, 1, n)
<1>1. rules \in Seq(Rule) /\ Len(rules) \in Nat /\ DOMAIN rules = 1..Len(rules)
  <2>1. rules \in Seq(Rule)
    BY DEF File
  <2> QED BY <2>1
<1> HIDE DEF rules
<1>2. PICK g : /\ g[0] = <<>>
               /\ \A i \in 1..Len(rules) : g[i] = Unprefixed(g[i - 1], rules[i])
               /\ FoldLeft(Unprefixed, <<>>, rules) = g[Len(rules)]
  <2>1. \E g : /\ g[0] = <<>>
               /\ \A i \in 1..Len(rules) : g[i] = Unprefixed(g[i - 1], rules[i])
               /\ Filtering!FoldLeft(Unprefixed, <<>>, rules) = g[Len(rules)]
    BY <1>1, Filtering!FoldSteps, Zenon
  <2>2. FoldLeft(Unprefixed, <<>>, rules) = Filtering!FoldLeft(Unprefixed, <<>>, rules)
    BY Zenon DEF FoldLeft, Filtering!FoldLeft, MapThenFoldSet, Filtering!MapThenFoldSet,
       Max, Filtering!Max
  <2> QED BY <2>1, <2>2, Zenon
<1> DEFINE alike(n) == \/ NoneFits(part(n), u) /\ NoneFits(g[n], u)
                       \/ \E rule : FirstFits(part(n), rule, u) /\ FirstFits(g[n], rule, u)
           S == {n \in Nat : n <= Len(rules) => g[n] \in Seq(Rule) /\ alike(n)}
<1>3. 0 \in S
  <2>1. part(0) = <<>> /\ <<>> \in Seq(Rule)
    OBVIOUS
  <2>2. NoneFits(<<>>, u)
    <3>1. 1..Len(<<>>) = {}
      OBVIOUS
    <3> QED BY <3>1, Zenon DEF NoneFits
  <2>3. alike(0) /\ g[0] \in Seq(Rule)
    BY <1>2, <2>1, <2>2
  <2> QED BY <2>3
<1>4. ASSUME NEW n \in Nat, n \in S PROVE n + 1 \in S
  <2> SUFFICES ASSUME n + 1 <= Len(rules) PROVE g[n + 1] \in Seq(Rule) /\ alike(n + 1)
    OBVIOUS
  <2> DEFINE x == rules[n + 1]
  <2>1. n + 1 \in 1..Len(rules) /\ n + 1 - 1 = n
    OBVIOUS
  <2>2. g[n] \in Seq(Rule) /\ alike(n)
    BY <1>4, <2>1
  <2>3. x \in Rule /\ ValidRule(x, f)
    BY <1>1, <2>1 DEF rules
  <2>4. part(n) \in Seq(Rule) /\ part(n + 1) = Append(part(n), x)
    BY <1>1, <2>1
  <2>5. g[n + 1] = IF x.prefixes = <<>> THEN Append(g[n], x) ELSE g[n]
    <3>1. g[n + 1] = Unprefixed(g[n], x)
      BY <1>2, <2>1
    <3> QED BY <3>1, Zenon DEF Unprefixed
  <2> HIDE DEF x, part
  <2>6. x.prefixes # <<>> => ~Matches(x, u)
    BY <2>3, PrefixedNeedsData
  <2>7. g[n + 1] \in Seq(Rule)
    BY <2>2, <2>3, <2>5
  <2>8. CASE NoneFits(part(n), u) /\ NoneFits(g[n], u)
    <3>1. CASE Matches(x, u)
      <4>1. FirstFits(part(n + 1), x, u)
        BY <2>3, <2>4, <2>8, <3>1, FitsAppend
      <4>2. FirstFits(g[n + 1], x, u)
        BY <2>2, <2>3, <2>5, <2>6, <2>8, <3>1, FitsAppend
      <4> QED BY <2>7, <4>1, <4>2
    <3>2. CASE ~Matches(x, u)
      <4>1. NoneFits(part(n + 1), u)
        BY <2>3, <2>4, <2>8, <3>2, FitsAppend
      <4>2. NoneFits(g[n + 1], u)
        BY <2>2, <2>3, <2>5, <2>8, <3>2, FitsAppend
      <4> QED BY <2>7, <4>1, <4>2
    <3> QED BY <3>1, <3>2
  <2>9. ASSUME NEW rule, FirstFits(part(n), rule, u), FirstFits(g[n], rule, u)
        PROVE  alike(n + 1)
    <3>1. FirstFits(part(n + 1), rule, u)
      BY <2>3, <2>4, <2>9, FitsAppend
    <3>2. FirstFits(g[n + 1], rule, u)
      BY <2>2, <2>3, <2>5, <2>9, FitsAppend
    <3> QED BY <3>1, <3>2
  <2> QED BY <2>2, <2>7, <2>8, <2>9
<1>5. Len(rules) \in S
  <2>1. Nat \subseteq S
    <3> HIDE DEF S
    <3> QED BY <1>3, <1>4, Filtering!SetInduction
  <2> HIDE DEF S
  <2> QED BY <1>1, <2>1
<1>6. part(Len(rules)) = rules
  BY <1>1
<1>7. g[Len(rules)] \in Seq(Rule) /\ alike(Len(rules))
  BY <1>1, <1>5
<1> QED BY <1>2, <1>6, <1>7 DEF rules

(* Whatever rules are accepted, those with prefixes have no say about an   *)
(* update without callback data.                                           *)
THEOREM PrefixesAlwaysNeedData == Spec => []PrefixesNeedData
<1>1. Inv => PrefixesNeedData
  <2> SUFFICES ASSUME Inv, routed # Nothing, routed.update.data = Empty
               PROVE  routed.targets = Targets(WithoutPrefixes, routed.update)
    BY DEF PrefixesNeedData
  <2> DEFINE u == routed.update
             kept == FoldLeft(Unprefixed, <<>>, loaded.rules)
  <2>1. loaded \in File /\ Validate(loaded) /\ routed.targets = Targets(loaded, u)
    BY DEF Inv, TypeOK
  <2>2. WithoutPrefixes = [loaded EXCEPT !.rules = kept]
    BY DEF WithoutPrefixes
  <2> HIDE DEF kept, u
  <2>3. /\ WithoutPrefixes.mode = loaded.mode /\ WithoutPrefixes.clients = loaded.clients
        /\ WithoutPrefixes.fallback = loaded.fallback /\ WithoutPrefixes.rules = kept
        /\ kept \in Seq(Rule) => WithoutPrefixes \in File
    BY <2>1, <2>2 DEF File
  <2>4. CASE loaded.mode = "broadcast"
    BY <2>1, <2>3, <2>4 DEF Targets, u
  <2>5. CASE loaded.mode = "exclusive"
    <3>1. \A i \in DOMAIN loaded.rules : ValidRule(loaded.rules[i], loaded)
      BY <2>1, <2>5 DEF Validate, ValidBroadcast, ValidExclusive
    <3>2. /\ kept \in Seq(Rule)
          /\ \/ NoneFits(loaded.rules, u) /\ NoneFits(kept, u)
             \/ \E rule : FirstFits(loaded.rules, rule, u) /\ FirstFits(kept, rule, u)
      BY <2>1, <3>1, UnprefixedDecides DEF kept, u
    <3>3. WithoutPrefixes \in File /\ WithoutPrefixes.mode = "exclusive"
      BY <2>3, <2>5, <3>2
    <3>4. CASE NoneFits(loaded.rules, u) /\ NoneFits(kept, u)
      BY <2>1, <2>3, <2>5, <3>3, <3>4, TargetsByFit, Zenon DEF u
    <3>5. ASSUME NEW rule, FirstFits(loaded.rules, rule, u), FirstFits(kept, rule, u)
          PROVE  routed.targets = Targets(WithoutPrefixes, u)
      <4>1. Targets(loaded, u) = rule.clients
        BY <2>1, <2>5, <3>5, TargetsByFit, Zenon
      <4>2. Targets(WithoutPrefixes, u) = rule.clients
        BY <2>3, <3>3, <3>5, TargetsByFit, Zenon
      <4> QED BY <2>1, <4>1, <4>2, Zenon
    <3> QED BY <3>2, <3>4, <3>5, Zenon DEF u
  <2>6. loaded.mode \in {"broadcast", "exclusive"}
    BY <2>1 DEF Validate, ValidBroadcast, ValidExclusive
  <2> QED BY <2>4, <2>5, <2>6
<1> QED BY <1>1, Invariant, PTL

(* The tokens of a running process are as many different ones as it has    *)
(* clients, and none is the bot's.                                         *)
THEOREM TokensAlwaysTell == Spec => []TokensTell
<1>1. Inv => TokensTell
  <2> SUFFICES ASSUME Inv, at = "running",
                      NEW i \in DOMAIN loaded.clients, NEW j \in DOMAIN loaded.clients
               PROVE  /\ file.secrets[i] # file.botSecret
                      /\ file.secrets[i] = file.secrets[j] => loaded.clients[i] = loaded.clients[j]
    BY Zenon DEF TokensTell
  <2>1. file \in File /\ loaded.clients = file.clients
    BY DefaultsKeepTypes DEF Inv, TypeOK
  <2>2. file.secrets \in Seq(Token \cup {NoToken}) /\ file.clients \in Seq(Id)
    BY <2>1 DEF File
  <2>3. i \in DOMAIN file.secrets /\ j \in DOMAIN file.secrets
    BY <2>1, <2>2 DEF Inv
  <2>4. IsInjective(file.secrets) /\ file.botSecret \notin Range(file.secrets)
    BY DEF Inv, Credentials
  <2> QED  BY <2>3, <2>4, Zenon DEF IsInjective, Range
<1> QED  BY <1>1, Invariant, PTL

(* A file that passes the validation, with its defaults, is fit to run. *)
LEMMA AcceptedFits == Inv => FitToRun
<1> SUFFICES ASSUME Inv, at = "running"
             PROVE  FitToRun
  BY Zenon DEF FitToRun
<1>1. file \in File /\ loaded \in File /\ loaded = ApplyDefaults(file) /\ Validate(loaded)
  BY DEF Inv, TypeOK
<1>2. loaded.maxPending[1] >= 1 /\ loaded.window[1] >= 0 /\ loaded.maxRetry[1] \in 1..600
  BY <1>1 DEF Validate, ValidRetention, ValidTelegram
<1>3. \A s \in Number : Len(s) >= 1 => s[1] \in Int
  BY DEF Number
<1>4. file.window \in Number /\ file.maxPending \in Number
  BY <1>1 DEF File
<1>5. /\ loaded.maxPending = DefaultNumber(file.maxPending, 10000)
      /\ loaded.window = DefaultWindow(file.window)
  BY <1>1, DefaultsKeepTypes
<1>6. \A s \in Number : s = <<>> \/ Len(s) >= 1
  BY DEF Number
<1>7. loaded.maxPending[1] \in Int
  BY <1>3, <1>4, <1>5, <1>6 DEF DefaultNumber
<1>8. loaded.window[1] \in Int
  BY <1>3, <1>4, <1>5, <1>6 DEF DefaultWindow
<1>9. file.window = <<0>> => loaded.window = <<0>>
  BY <1>5 DEF DefaultWindow
<1> QED  BY <1>2, <1>7, <1>8, <1>9 DEF FitToRun

(* What Store, Poller and Pacing assume of their numbers holds of every    *)
(* configuration in force.                                                 *)
THEOREM AcceptedIsFit == Spec => []FitToRun
<1> QED  BY AcceptedFits, Invariant, PTL

(* What module Store assumes of a configuration: some client, a limit that *)
(* is positive, and for every update one or more clients of its own.       *)
Assumed(f) ==
    /\ Range(f.clients) # {}
    /\ f.maxPending[1] \in Nat \ {0} /\ f.window[1] \in Nat
    /\ \A u \in Update : /\ Range(Targets(f, u)) # {}
                         /\ Range(Targets(f, u)) \subseteq Range(f.clients)

(* A configuration that serve accepts is one the store may be opened with, *)
(* whatever updates arrive: StoreAssumption holds of every one of them.    *)
THEOREM StoreMayAssume == Spec => [](at = "running" => Assumed(loaded))
<1>1. Inv => (at = "running" => Assumed(loaded))
  <2> SUFFICES ASSUME Inv, at = "running" PROVE Assumed(loaded)
    OBVIOUS
  <2>1. loaded \in File /\ Validate(loaded)
    BY DEF Inv, TypeOK
  <2>2. loaded.clients \in Seq(Id) /\ loaded.clients # <<>>
    BY <2>1 DEF File, Validate, ValidClients
  <2>3. Range(loaded.clients) # {}
    <3>1. DOMAIN loaded.clients = 1..Len(loaded.clients) /\ Len(loaded.clients) \in Nat
      BY <2>2
    <3>2. Len(loaded.clients) # 0
      BY <2>2
    <3>3. 1 \in DOMAIN loaded.clients
      BY <3>1, <3>2
    <3> QED BY <3>3, Zenon DEF Range
  <2>4. ASSUME NEW u \in Update
        PROVE  /\ Range(Targets(loaded, u)) # {}
               /\ Range(Targets(loaded, u)) \subseteq Range(loaded.clients)
    <3> DEFINE t == Targets(loaded, u)
    <3>1. /\ t \in Seq(Id) /\ t # <<>>
          /\ \A i \in DOMAIN t : \E j \in DOMAIN loaded.clients : loaded.clients[j] = t[i]
      BY <2>1, ValidatedTargetsFit
    <3> HIDE DEF t
    <3>2. DOMAIN t = 1..Len(t) /\ Len(t) \in Nat /\ Len(t) # 0
      BY <3>1
    <3>3. 1 \in DOMAIN t
      BY <3>2
    <3>4. Range(t) # {}
      BY <3>3, Zenon DEF Range
    <3>5. ASSUME NEW x \in Range(t) PROVE x \in Range(loaded.clients)
      <4>1. PICK i \in DOMAIN t : x = t[i]
        BY Zenon DEF Range
      <4>2. PICK j \in DOMAIN loaded.clients : loaded.clients[j] = t[i]
        BY <3>1
      <4> QED BY <4>1, <4>2, Zenon DEF Range
    <3> QED BY <3>4, <3>5, Zenon DEF t
  <2>5. loaded.maxPending[1] \in Nat \ {0} /\ loaded.window[1] \in Nat
    BY AcceptedFits DEF FitToRun
  <2> QED BY <2>3, <2>4, <2>5 DEF Assumed
<1> QED BY <1>1, Invariant, PTL
=============================================================================
