------------------------------- MODULE Routing ------------------------------
(***************************************************************************)
(* What a configuration file says (internal/config/config.go) and where it *)
(* sends an update (internal/routing/routing.go): pure functions.          *)
(*                                                                         *)
(* A string in a list of conditions is a sequence of symbols, " " among    *)
(* them; an address, a URL or a path is the class the validation tells     *)
(* apart.  A number is <<>> when the file leaves it out and <<n>>          *)
(* otherwise; encoding/json makes a 0 of the first, unless the field is a  *)
(* pointer.                                                                *)
(***************************************************************************)
EXTENDS Integers, Sequences, SequencesExt

CONSTANTS
    Id,     \* what client lists may name
    GoodId, \* the ids among them that match clientIDPattern
    String, \* the strings of condition lists and callback data
    Token   \* what a secret file may hold

ASSUME RoutingAssumption == String \subseteq Seq(STRING)

Empty == <<>> \* the empty string
CallbackQuery == <<"callback_query">>

Rule == [clients : Seq(Id), updateTypes : Seq(String), prefixes : Seq(String)]

Listen == {"", "loopback", "other", "malformed"}
Base   == {"", "https", "http loopback", "http", "ftp", "malformed"}

(* A secret file: a token (one line, long enough, of a token's form, not   *)
(* accessible to others), or nothing of use.                               *)
NoToken == "no token"

Number == {s \in Seq(Int) : Len(s) <= 1}

(* decodes: one JSON value with known fields only; absolute: every path in *)
(* it is.                                                                  *)
File == [decodes : BOOLEAN, version : Int, absolute : BOOLEAN,
         listen : Listen, allowRemote : BOOLEAN,
         apiBase : Base, fileBase : Base, allowInsecure : BOOLEAN,
         pollTimeout : Number, maxRetry : Number, allowedUpdates : Seq(String),
         clients : Seq(Id), mode : {"", "broadcast", "exclusive", "other"},
         rules : Seq(Rule), fallback : Seq(Id),
         maxPending : Number, window : Number,
         botSecret : Token \cup {NoToken}, secrets : Seq(Token \cup {NoToken})]

----------------------------------------------------------------------------
(* Defaults *)

Default(value, absent, default) == IF value = absent THEN default ELSE value

DefaultNumber(n, default) == IF n \in {<<>>, <<0>>} THEN <<default>> ELSE n

(* Faulty: a window of 0 counts as left out. *)
FaultyWindow(n) == DefaultNumber(n, 1000)

(* RetentionConfig.AcknowledgedSafetyWindow is a pointer. *)
DefaultWindow(n) == IF n = <<>> THEN <<1000>> ELSE n

(* applyDefaults; file_base defaults to api_base as it is after its own.   *)
ApplyDefaults(f) ==
    LET api == Default(f.apiBase, "", "https") IN
    [f EXCEPT !.listen      = Default(@, "", "loopback"),
              !.apiBase     = api,
              !.fileBase    = Default(@, "", api),
              !.pollTimeout = DefaultNumber(@, 30),
              !.maxRetry    = DefaultNumber(@, 30),
              !.mode        = Default(@, "", "broadcast"),
              !.maxPending  = DefaultNumber(@, 10000),
              !.window      = DefaultWindow(@)]

----------------------------------------------------------------------------
(* Validation of a file with its defaults *)

(* Faulty: entries may be empty. *)
FaultyStringSet(values) == IsInjective(values)

Trimmed(s) == s # Empty /\ s[1] # " " /\ s[Len(s)] # " "

(* validateStringSet *)
StringSet(values) == (\A i \in DOMAIN values : Trimmed(values[i])) /\ IsInjective(values)

(* Faulty: a client may be named twice. *)
FaultyReferences(ids, f) == ids # <<>> /\ Range(ids) \subseteq Range(f.clients)

(* validateClientReferences; what is not trimmed is no client either. *)
References(ids, f) == ids # <<>> /\ IsInjective(ids) /\ Range(ids) \subseteq Range(f.clients)

ValidCore(f) ==
    /\ f.decodes
    /\ f.version = 1
    /\ f.absolute
    /\ f.listen = "loopback" \/ (f.listen = "other" /\ f.allowRemote)

ValidUpstream(base, f) == base \in {"https", "http loopback"} \/ (base = "http" /\ f.allowInsecure)

ValidTelegram(f) ==
    /\ ValidUpstream(f.apiBase, f) /\ ValidUpstream(f.fileBase, f)
    /\ f.pollTimeout[1] \in 1..50
    /\ f.maxRetry[1] \in 1..600
    /\ StringSet(f.allowedUpdates)

ValidClients(f) == f.clients # <<>> /\ Range(f.clients) \subseteq GoodId /\ IsInjective(f.clients)

ValidRule(rule, f) ==
    /\ References(rule.clients, f)
    /\ rule.updateTypes # <<>> \/ rule.prefixes # <<>>
    /\ StringSet(rule.updateTypes)
    /\ StringSet(rule.prefixes)

ValidBroadcast(f) == f.mode = "broadcast" /\ f.rules = <<>> /\ f.fallback = <<>>

ValidExclusive(f) ==
    /\ f.mode = "exclusive"
    /\ f.rules # <<>>
    /\ References(f.fallback, f)
    /\ \A i \in DOMAIN f.rules : ValidRule(f.rules[i], f)

ValidRetention(f) == f.maxPending[1] >= 1 /\ f.window[1] >= 0

Validate(f) ==
    /\ ValidCore(f)
    /\ ValidTelegram(f)
    /\ ValidClients(f)
    /\ ValidBroadcast(f) \/ ValidExclusive(f)
    /\ ValidRetention(f)

(* Faulty: only the clients are compared with each other. *)
FaultyCredentials(f) ==
    /\ f.botSecret # NoToken
    /\ NoToken \notin Range(f.secrets)
    /\ IsInjective(f.secrets)

(* LoadCredentials: the secret of the bot and one of each client *)
Credentials(f) ==
    /\ f.botSecret # NoToken
    /\ NoToken \notin Range(f.secrets)
    /\ IsInjective(f.secrets) /\ f.botSecret \notin Range(f.secrets)

----------------------------------------------------------------------------
(* Routing *)

(* A JSON object as Telegram sends it; an id below 0 stands for one that   *)
(* is missing or no integer, too.                                          *)
Raw == [id : Int, payloads : SUBSET String, readable : BOOLEAN, data : String \cup {Empty}]

Parses(raw) ==
    /\ raw.id >= 0
    /\ \E type \in String : raw.payloads = {type} /\ (type = CallbackQuery => raw.readable)

Update == [id : Nat, type : String, data : String \cup {Empty}]

(* ParseUpdate *)
ParseUpdate(raw) ==
    LET type == CHOOSE type \in String : raw.payloads = {type} IN
    [id |-> raw.id, type |-> type, data |-> IF type = CallbackQuery THEN raw.data ELSE Empty]

(* Faulty: either condition suffices. *)
FaultyMatches(rule, u) ==
    \/ u.type \in Range(rule.updateTypes)
    \/ \E i \in DOMAIN rule.prefixes : IsPrefix(rule.prefixes[i], u.data)

Matches(rule, u) ==
    /\ rule.updateTypes = <<>> \/ u.type \in Range(rule.updateTypes)
    /\ rule.prefixes = <<>> \/ \E i \in DOMAIN rule.prefixes : IsPrefix(rule.prefixes[i], u.data)

Matching(rules, u) == {i \in DOMAIN rules : Matches(rules[i], u)}

FirstOf(S) == CHOOSE i \in S : \A j \in S : i <= j

(* Targets *)
Targets(f, u) ==
    IF f.mode = "broadcast" THEN f.clients
    ELSE IF Matching(f.rules, u) = {} THEN f.fallback
    ELSE f.rules[FirstOf(Matching(f.rules, u))].clients
=============================================================================
