------------------------------- MODULE MCCli -------------------------------
(***************************************************************************)
(* Cli with up to three processes.  The scenarios put together the         *)
(* commands that meet in a file; a command that meets nobody runs alone.   *)
(***************************************************************************)
EXTENDS Cli, TLC

\* Texts.  A site, and the same at another place.
Key == [form |-> "pattern", kind |-> "OpenAiApiKey", from |-> 0, to |-> 40, raw |-> 1, min |-> 23,
        valid |-> TRUE, quote |-> "none", env |-> 0, cut |-> FALSE]
Site(form, kind, from, to, raw) ==
    [Key EXCEPT !.form = form, !.kind = kind, !.from = from, !.to = to, !.raw = raw, !.min = 12]

\* An e-mail address as the password of a URL, and on its own.
Twice == {Site("url", "none", 10, 25, 1), Site("email", "none", 10, 25, 1),
          [Site("email", "none", 40, 55, 1) EXCEPT !.env = 1]}
\* A bearer token that goes on behind a JWT and ends in a phone number.
Chain == {Site("pattern", "JsonWebToken", 7, 67, 2), Site("pattern", "BearerToken", 7, 80, 3),
          Site("phone", "none", 68, 80, 4)}
\* A dotenv file: two names of one key, and a second value.
Dotenv == {[Key EXCEPT !.env = 2], [Site("assignment", "api_key", 0, 40, 1) EXCEPT !.env = 2, !.quote = "closed"],
           [Key EXCEPT !.from = 50, !.to = 90, !.env = 1],
           [Site("assignment", "password", 100, 116, 5) EXCEPT !.env = 3]}
\* Nothing to find: too short, too uniform, unquoted, too long.
Harmless == {Site("assignment", "password", 0, 15, 6), [Site("assignment", "token", 20, 60, 7) EXCEPT !.valid = FALSE],
             [Site("assignment", "api_key", 70, 99, 8) EXCEPT !.quote = "open"],
             Site("assignment", "token", 100, 613, 9), Site("assignment", "color", 700, 740, 10)}
\* The injected secret, which no detector knows, and a value next to it.
Echo == {Site("exact", "BearerToken", 0, 20, 11), [Key EXCEPT !.from = 30, !.to = 70]}

Nobody == [name |-> "none", trace |-> FALSE]
Masks(text, to, force, trace) ==
    [name |-> "mask", text |-> text, to |-> to, force |-> force, trace |-> trace]
Redacts(text, mode, to, force, trace) ==
    [name |-> "redact", text |-> text, mode |-> mode, to |-> to, force |-> force, trace |-> trace]
Vaults(sub, trace) == [name |-> "vault", sub |-> sub, raw |-> 12, yes |-> TRUE, trace |-> trace]
Reads(name, sub, yes) == [name |-> name, sub |-> sub, yes |-> yes, trace |-> name = "audit"]
Changes(name, labels, spelling) ==
    [name |-> name, domain |-> [labels |-> labels, spelling |-> spelling], trace |-> spelling \in {"upper-case", "leading-dot"}]

Example == <<"example", "com">>
Internal == <<"internal">> \o Example
Pypi == <<"pypi", "org">>
OpenAI == <<"api", "openai", "com">>
Domain(labels) == [labels |-> labels, dot |-> FALSE]

NoBody == [text |-> {}, large |-> FALSE]
Calls(host, body, trace) == [name |-> "call", host |-> host, secret |-> 11, body |-> body, trace |-> trace]
Arguments == [agent |-> "codex", dangerous |-> FALSE, print |-> FALSE, overrides |-> FALSE, verb |-> "exec"]
Runs(args, conns, output, trace) ==
    [name |-> "run", args |-> args, conns |-> conns, output |-> output, trace |-> trace]
OneConn == {CHOOSE c \in Conn : TRUE}
\* The agent prints a key on one stream, or two on both, one of them across the cut of a stream
\* that goes over the limit beside one that does not.
Quiet == [text |-> {}, length |-> 0]
Spoken == [text |-> {Key}, length |-> 1000]
Short == [stdout |-> Quiet, stderr |-> Spoken]
Long == [stdout |-> [text |-> {Key, [Key EXCEPT !.from = 4193780, !.to = 4193820]}, length |-> 5000000],
         stderr |-> Spoken]

\* A tree: files beside a directory, an ignored one, a link, and a directory at the depth limit.
Node(kind, kids, len, text) ==
    [kind |-> kind, kids |-> kids, len |-> len, grown |-> len, binary |-> FALSE, text |-> text, ignored |-> FALSE]
Tree == <<Node("dir", <<2, 3, 4, 5>>, 0, {}), Node("file", <<>>, 3, Harmless), Node("dir", <<6, 7>>, 0, {}),
          [Node("dir", <<8>>, 0, {}) EXCEPT !.ignored = TRUE], Node("link", <<>>, 0, {}),
          Node("file", <<>>, 2, Chain), Node("dir", <<9>>, 0, {}), Node("file", <<>>, 1, Chain),
          Node("file", <<>>, 1, {})>>
Trees == {Tree, [Tree EXCEPT ![6].text = {}], [Tree EXCEPT ![6].grown = 5], [Tree EXCEPT ![6].len = 5],
          [Tree EXCEPT ![2].grown = 4, ![3].kids = <<6>>], [Tree EXCEPT ![6].binary = TRUE, ![7].kind = "other"]}
Scans(tree, trace) == [name |-> "scan", tree |-> tree, trace |-> trace]

Alone == {Redacts(Dotenv, mode, "stdout", FALSE, TRUE) : mode \in {"env-ref", "surrogate", "schema-only", "block"}}
    \cup {Redacts(Harmless, "block", "stdout", FALSE, FALSE), Masks(Dotenv, "stdout", FALSE, TRUE)}
    \cup {Scans(tree, tree = Tree) : tree \in Trees}
    \cup {[name |-> "mcp", direction |-> d, trace |-> d = "to-server"] : d \in {"to-agent", "to-server"}}
    \cup {Calls(OpenAI, NoBody, TRUE), Calls(Pypi, [text |-> Echo, large |-> FALSE], TRUE),
          Calls(Pypi, [text |-> {}, large |-> TRUE], TRUE), Calls(Pypi, NoBody, TRUE),
          Runs([Arguments EXCEPT !.verb = "resume"], {}, Short, FALSE), Runs(Arguments, Conn, Short, TRUE),
          [name |-> "diff-check", trace |-> FALSE]}
Pairs == {<<Masks(Twice, "file", FALSE, TRUE), Masks(Chain, "file", FALSE, FALSE)>>,
          <<Masks(Twice, "file", FALSE, FALSE), Redacts(Chain, "placeholder", "file", TRUE, FALSE)>>,
          <<Masks(Twice, "stdout", FALSE, FALSE), Vaults("clear", FALSE)>>,
          <<Vaults("put-env", TRUE), Vaults("clear", TRUE)>>,
          <<Vaults("put-env", FALSE), Vaults("list", FALSE)>>,
          <<Redacts(Chain, "placeholder", "stdout", FALSE, TRUE), Reads("trace", "tail", FALSE)>>,
          <<Redacts(Chain, "placeholder", "stdout", FALSE, TRUE), Reads("trace", "clear", TRUE)>>,
          <<Reads("trace", "clear", TRUE), Reads("trace", "list", FALSE)>>,
          <<Reads("audit", "list", FALSE), Reads("status", "none", FALSE)>>,
          <<Runs(Arguments, OneConn, Short, TRUE), Changes("deny", Pypi, "invalid")>>,
          <<Runs(Arguments, OneConn, Long, FALSE), Changes("deny", Pypi, "plain")>>,
          <<Runs(Arguments, OneConn, Long, FALSE), Changes("allow", Example, "plain")>>,
          <<Calls(Internal, NoBody, FALSE), Changes("allow", Example, "leading-dot")>>}
Triples == {<<Changes("allow", Example, "plain"), Changes("deny", Internal, "plain"), Calls(Internal, NoBody, TRUE)>>,
            <<Changes("allow", Example, "upper-case"), Changes("deny", Example, "plain"), Calls(Example, NoBody, FALSE)>>}
MCScenarios == {<<c, Nobody, Nobody>> : c \in Alone} \cup {pair \o <<Nobody>> : pair \in Pairs} \cup Triples

MCDefaultAllowed == {Domain(Pypi)}
MCProviders == {Domain(OpenAI)}
MCResponses == {[large |-> FALSE, ok |-> TRUE, text |-> Echo], [large |-> TRUE, ok |-> TRUE, text |-> {}],
                [large |-> FALSE, ok |-> FALSE, text |-> Chain]}
MCHosts == {Pypi, Internal, <<"eu">> \o OpenAI}
MCLineMarks == {{}, {"placeholder"}, {"assigned"}}

String(place, sensitive, is, text) == [place |-> place, sensitive |-> sensitive, is |-> is, text |-> text]
Message(method, strings) ==
    [form |-> "object", method |-> method, tool |-> TRUE, arguments |-> TRUE, keys |-> {}, strings |-> strings]
MCMessages ==
    {Message("tools/call", {String("arguments", FALSE, "text", Chain), String("meta", FALSE, "ref", {})}),
     Message("tools/call", {String("arguments", TRUE, "text", Echo)}),
     Message("tools/call", {String("arguments", TRUE, "empty", {}), String("arguments", FALSE, "text", Dotenv)}),
     Message("tools/call", {String("arguments", FALSE, "ref", {})}),
     Message("initialize", {String("meta", FALSE, "text", Chain)}),
     [Message("initialize", {String("meta", FALSE, "text", Harmless)}) EXCEPT !.keys = {{Key}}],
     Message("initialize", {String("meta", FALSE, "ref", {})}),
     [Message("tools/call", {}) EXCEPT !.tool = FALSE],
     [Message("none", {}) EXCEPT !.form = "blank"],
     [Message("none", {}) EXCEPT !.form = "large"]}

=============================================================================
