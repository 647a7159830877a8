------------------------------ MODULE MCPolicy ------------------------------
(* Instances of configurations and updates for TLC. *)
EXTENDS Policy

m == <<"message">>
c == CallbackQuery
b == <<"b">>
bk == <<"b", "k">>

Strings == {Empty, m, c, b, bk, <<" ", "b">>}

Minimal ==
    [decodes |-> TRUE, version |-> 1, absolute |-> TRUE, listen |-> "", allowRemote |-> FALSE,
     apiBase |-> "", fileBase |-> "", allowInsecure |-> FALSE,
     pollTimeout |-> <<>>, maxRetry |-> <<>>, allowedUpdates |-> <<>>,
     clients |-> <<"openclaw", "unyolo">>, mode |-> "", rules |-> <<>>, fallback |-> <<>>,
     maxPending |-> <<>>, window |-> <<>>,
     botSecret |-> "t0", secrets |-> <<"t1", "t2">>]

Numbers == {<<>>, <<-1>>, <<0>>, <<1>>, <<50>>, <<51>>, <<601>>}

OneField ==
    {[Minimal EXCEPT !.decodes = FALSE], [Minimal EXCEPT !.version = 2], [Minimal EXCEPT !.absolute = FALSE]}
    \cup {[Minimal EXCEPT !.listen = l, !.allowRemote = r] : l \in Listen, r \in BOOLEAN}
    \cup {[Minimal EXCEPT !.apiBase = x, !.fileBase = y, !.allowInsecure = r] :
             x \in Base, y \in Base, r \in BOOLEAN}
    \cup {[Minimal EXCEPT !.pollTimeout = n] : n \in Numbers}
    \cup {[Minimal EXCEPT !.maxRetry = n] : n \in Numbers}
    \cup {[Minimal EXCEPT !.maxPending = n, !.window = w] : n \in Numbers, w \in Numbers}
    \cup {[Minimal EXCEPT !.clients = cs] : cs \in {<<"openclaw", "openclaw">>, <<"openclaw", "Bad Id">>}}
    \cup {[Minimal EXCEPT !.clients = <<>>, !.secrets = <<>>]}
    \cup {[Minimal EXCEPT !.allowedUpdates = a] : a \in {<<m>>, <<m, c>>, <<m, m>>, <<Empty>>}}
    \cup {[Minimal EXCEPT !.mode = x, !.fallback = fb] :
             x \in {"broadcast", "exclusive", "other"}, fb \in {<<>>, <<"unyolo">>}}
    \cup {[Minimal EXCEPT !.botSecret = t, !.secrets = <<s1, s2>>] :
             t \in Token \cup {NoToken}, s1 \in Token \cup {NoToken}, s2 \in Token \cup {NoToken}}

SomeRules ==
    [clients : {<<"openclaw">>, <<"unyolo", "openclaw">>, <<"unyolo", "unyolo">>, <<"gone">>, <<>>},
     updateTypes : {<<>>, <<m>>, <<c, m>>},
     prefixes : {<<>>, <<b>>, <<bk, Empty>>, <<bk>>}]

Exclusive ==
    {[Minimal EXCEPT !.mode = "exclusive", !.rules = <<r>>, !.fallback = fb] :
        r \in SomeRules, fb \in {<<>>, <<"unyolo">>, <<"unyolo", "unyolo">>, <<"gone">>}}
    \cup {[Minimal EXCEPT !.mode = "exclusive", !.rules = <<r, s>>, !.fallback = <<"unyolo">>] :
        r \in SomeRules, s \in SomeRules}

AllFiles == OneField \cup Exclusive

SomeRaws ==
    [id : {-1, 7}, payloads : {{m}, {c}, {m, c}, {}}, readable : BOOLEAN,
     data : {Empty, b, bk, <<" ", "b">>}]
=============================================================================
