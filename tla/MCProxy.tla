------------------------------- MODULE MCProxy -------------------------------
(***************************************************************************)
(* Proxy with two exchanges, three upstreams (one plain, one gateway that  *)
(* trusts a hop and leads back here, one Anthropic) and a request for      *)
(* every check and every kind of body.                                     *)
(***************************************************************************)
EXTENDS Proxy, TLC

Up(provider, credential, trusted, host) ==
    [provider |-> provider, credential |-> credential, trusted_proxy_hop |-> trusted, host |-> host]

MCUpstream ==
    ("openai" :> Up("OpenAi", FALSE, FALSE, "name")) @@ ("gateway" :> Up("OpenAi", TRUE, TRUE, "name"))
        @@ ("anthropic" :> Up("Anthropic", FALSE, FALSE, "remote"))

PartAt(kind, text, pointer) == [kind |-> kind, text |-> text, pointer |-> pointer]
P(kind, text) == PartAt(kind, text, 0)
Clean == <<P("string", {})>>
Dirty == <<P("string", {"secret"}), P("string", {"credential"})>>
DirtyElsewhere == <<PartAt("string", {"secret"}, 1)>>

Post == [upstream |-> "openai", method |-> "POST", path |-> "chat/completions", query |-> "none",
         upgrade |-> "none", hop |-> 0, meta |-> {}, declared |-> "small", large |-> FALSE,
         type |-> "json", body |-> Clean]
Socket == [Post EXCEPT !.method = "GET", !.path = "responses", !.upgrade = "websocket"]

MCRequests ==
    {[Post EXCEPT !.body = Dirty],
     [Post EXCEPT !.body = <<P("key", {"secret"})>>],
     [Post EXCEPT !.meta = {"secret"}],
     [Post EXCEPT !.upstream = "gateway", !.body = Dirty],
     [Post EXCEPT !.upstream = "gateway", !.hop = 1, !.meta = {"credential"}],
     [Post EXCEPT !.upstream = "anthropic", !.path = "messages", !.type = "sse"],
     [Post EXCEPT !.upstream = "anthropic", !.path = "messages"],
     [Post EXCEPT !.upstream = "anthropic", !.path = "", !.method = "HEAD"],
     [Post EXCEPT !.upstream = None],
     [Post EXCEPT !.upstream = "gateway", !.hop = 1],
     [Post EXCEPT !.large = TRUE],
     [Post EXCEPT !.declared = "large", !.hop = 2],
     Socket,
     [Socket EXCEPT !.upgrade = "malformed"],
     [Socket EXCEPT !.upstream = "anthropic"]}

Answer == [declared |-> "small", large |-> FALSE, type |-> "json", body |-> Clean]
MCResponses ==
    {[Answer EXCEPT !.body = DirtyElsewhere \o <<P("number", {})>>],
     [Answer EXCEPT !.type = "sse", !.body = <<P("comment", {"secret"}), P("done", {})>>],
     [Answer EXCEPT !.body = <<P("number", {"secret"})>>],
     [Answer EXCEPT !.type = "other"],
     [Answer EXCEPT !.declared = "large"],
     [Answer EXCEPT !.large = TRUE]}

F(kind, body) == [kind |-> kind, large |-> FALSE, body |-> body]
MCFrames == {F("text", Dirty), F("text", DirtyElsewhere), F("text", <<P("opaque", {"secret"})>>), F("binary", <<>>), F("close", <<>>)}

=============================================================================
