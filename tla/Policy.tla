------------------------------- MODULE Policy -------------------------------
(***************************************************************************)
(* A process loads its configuration and routes updates by it              *)
(* (loadRuntime in cmd/telegram-bot-mux/main.go, Load in config.go, and    *)
(* Router.Targets as the poller's ingests call it).                        *)
(***************************************************************************)
EXTENDS Routing

CONSTANTS
    Files, \* the files an operator may have written
    Raws   \* what Telegram may send

ASSUME PolicyAssumption == Files \subseteq File /\ Raws \subseteq Raw

VARIABLES
    at,     \* "load", "running", "refused"
    file,   \* the configuration file and the secrets
    loaded, \* the configuration in force
    routed  \* the last update and its targets

vars == <<at, file, loaded, routed>>

Nothing == [update |-> [id |-> -1, type |-> Empty, data |-> Empty], targets |-> <<>>]

Init ==
    /\ at = "load"
    /\ file \in {f \in Files : Len(f.secrets) = Len(f.clients)}
    /\ loaded = file
    /\ routed = Nothing

Load ==
    /\ at = "load"
    /\ loaded' = ApplyDefaults(file)
    /\ at' = IF Validate(loaded') /\ Credentials(file) THEN "running" ELSE "refused"
    /\ UNCHANGED <<file, routed>>

Route ==
    /\ at = "running"
    /\ \E raw \in Raws :
          /\ Parses(raw)
          /\ routed' = [update |-> ParseUpdate(raw), targets |-> Targets(loaded, ParseUpdate(raw))]
    /\ UNCHANGED <<at, file, loaded>>

Next == Load \/ Route

Spec == Init /\ [][Next]_vars

----------------------------------------------------------------------------
(* Properties *)

(* Every variable has its type. *)
TypeOK ==
    /\ at \in {"load", "running", "refused"}
    /\ file \in File /\ loaded \in File
    /\ routed # Nothing => routed \in [update : Update, targets : Seq(Id)]

Distinct(s) == \A i, j \in DOMAIN s : i # j => s[i] # s[j]

(* Every update has targets, and inserting its deliveries cannot fail:     *)
(* each target is a registered client, and none occurs twice, although     *)
(* Targets examines nothing and lists are validated one by one (the        *)
(* foreign key and the primary key of table deliveries).                   *)
TargetsFit ==
    routed # Nothing =>
        /\ routed.targets # <<>> /\ Distinct(routed.targets)
        /\ \A i \in DOMAIN routed.targets :
              \E j \in DOMAIN loaded.clients : loaded.clients[j] = routed.targets[i]

(* Prefixes match callback data only: without the rules that have prefixes *)
(* an update without callback data goes where it goes with them            *)
(* (CONFIGURATION.md, callback_data_prefixes).                             *)
Unprefixed(kept, rule) == IF rule.prefixes = <<>> THEN Append(kept, rule) ELSE kept
WithoutPrefixes == [loaded EXCEPT !.rules = FoldLeft(Unprefixed, <<>>, @)]

PrefixesNeedData ==
    routed # Nothing /\ routed.update.data = Empty =>
        routed.targets = Targets(WithoutPrefixes, routed.update)

(* An update of an exclusive configuration is owned by the first rule both *)
(* of whose conditions it meets, as far as the rule has them, and by the   *)
(* fallback if there is none (ARCHITECTURE.md, Routing).                   *)
Owns(rule, u) ==
    /\ rule.updateTypes # <<>> => \E k \in DOMAIN rule.updateTypes : rule.updateTypes[k] = u.type
    /\ rule.prefixes # <<>> =>
          \E k \in DOMAIN rule.prefixes, n \in 0..Len(u.data) : rule.prefixes[k] = SubSeq(u.data, 1, n)

OwnedByFirst ==
    routed # Nothing /\ loaded.mode = "exclusive" =>
        \/ /\ \A i \in DOMAIN loaded.rules : ~Owns(loaded.rules[i], routed.update)
           /\ routed.targets = loaded.fallback
        \/ \E i \in DOMAIN loaded.rules :
              /\ Owns(loaded.rules[i], routed.update)
              /\ \A j \in 1..i - 1 : ~Owns(loaded.rules[j], routed.update)
              /\ routed.targets = loaded.rules[i].clients

(* A running process tells its clients apart by their tokens, and none of  *)
(* them has the bot's own.                                                 *)
TokensTell ==
    at = "running" =>
        \A i, j \in DOMAIN loaded.clients :
            /\ file.secrets[i] # file.botSecret
            /\ file.secrets[i] = file.secrets[j] => loaded.clients[i] = loaded.clients[j]

(* What the other modules assume of a configuration in force: a backlog    *)
(* limit and a longest pause that are positive, a window that is not       *)
(* negative; and a window of zero that the file asks for is kept.          *)
FitToRun ==
    at = "running" =>
        /\ loaded.maxPending[1] \in Nat \ {0} /\ loaded.maxRetry[1] \in Nat \ {0}
        /\ loaded.window[1] \in Nat
        /\ file.window = <<0>> => loaded.window = <<0>>
=============================================================================
