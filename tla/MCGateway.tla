----------------------------- MODULE MCGateway ------------------------------
(* Instances of the gateway for TLC. *)
EXTENDS Gateway

CONSTANT r1

OneRequest  == {r1}

Tokens == [openclaw |-> "t1", unyolo |-> "t2"]

P(is, text) == [is |-> is, text |-> text]

BotPath(id, token, m) == <<Word("client"), Word(id), P("bot", token), m>>
FilePath(id, token, f) == <<Word("client"), Word(id), Word("file"), P("bot", token)>> \o f

Methods == {P("lower", "sendmessage"), P("mixed", "sendmessage"), P("mixed", "getupdates"),
            P("lower", "setwebhook"), P("mixed", "deletewebhook"), P("invalid", "?")}

Segment == {Word("a"), P("dot", "."), P("dotdot", ".."), P("empty", "")}

AllPaths ==
    {<<Word("healthz")>>, <<Word("client"), Word("openclaw")>>}
    \cup {BotPath("openclaw", "t1", m) : m \in Methods}
    \cup {BotPath(id, t, P("lower", "sendmessage")) :
             id \in {"openclaw", "unyolo", "nobody"}, t \in {"t1", "t2", "t3"}}
    \cup {FilePath("unyolo", "t2", f) : f \in {<<Word("a")>>} \cup {<<s, u>> : s \in Segment, u \in Segment}}
    \cup {FilePath("unyolo", "t1", <<Word("a")>>)}
=============================================================================
