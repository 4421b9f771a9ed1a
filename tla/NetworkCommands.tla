-------------------------- MODULE NetworkCommands --------------------------
(***************************************************************************)
(* The project network policy: blindfold allow, deny and status, the       *)
(* decision the egress guard and blindfold call take from it, and          *)
(* blindfold call itself.                                                  *)
(*                                                                         *)
(* A host is the sequence of its labels, lower case and without a trailing *)
(* dot, which is what normalize_connect_host leaves of any spelling.  A    *)
(* domain of the policy has labels and may keep a leading dot.             *)
(***************************************************************************)
EXTENDS Project

CONSTANTS
    DefaultAllowed,   \* DEFAULT_ALLOWED_DOMAINS
    Providers,        \* the domains of is_blocked_llm_provider
    Responses         \* what the server of a brokered call may answer

\* normalize_policy_domain is Err.
InvalidDomain(input) == input.spelling = "invalid"

\* normalize_policy_domain: case and trailing dots go, a leading dot stays.
NormalizePolicyDomain(input) == [labels |-> input.labels, dot |-> input.spelling = "leading-dot"]

\* domain_matches: the domain itself or a name below it; no host ends in a dotted one.
DomainMatches(host, domain) ==
    LET n == Len(host) - Len(domain.labels)
    IN  ~domain.dot /\ n >= 0 /\ SubSeq(host, n + 1, Len(host)) = domain.labels

Covered(host, domains) == \E d \in domains : DomainMatches(host, d)

\* Mutant of Decision: an allowed domain is let through before the denied ones are looked at.
DecisionAllowFirst(policy, host) ==
    IF Covered(host, Providers) THEN "BlockKnownProvider"
    ELSE IF Covered(host, DefaultAllowed \cup policy.allow) THEN "Allow"
    ELSE IF Covered(host, policy.deny) THEN "BlockDenied" ELSE "BlockUnknown"

\* EgressNetworkPolicy::from_project and decision
Decision(policy, host) ==
    IF Covered(host, Providers) THEN "BlockKnownProvider"
    ELSE IF Covered(host, policy.deny) THEN "BlockDenied"
    ELSE IF Covered(host, DefaultAllowed \cup policy.allow) THEN "Allow" ELSE "BlockUnknown"

-----------------------------------------------------------------------------
\* What the user may rely on.  A deny stands once it is acknowledged, unless an allow of the same
\* domain follows or another allow or deny ran at the same time.
BeginsPolicyChange(p, domain) ==
    LET overlap == ack.busy # {}
    IN  ack' = [standing |-> IF overlap THEN {}
                             ELSE IF cmd[p].name = "allow" THEN ack.standing \ {domain} ELSE ack.standing,
                asked |-> IF cmd[p].name = "allow" THEN ack.asked \cup {domain} ELSE ack.asked,
                busy |-> ack.busy \cup {p},
                disputed |-> IF overlap THEN ack.disputed \cup ack.busy \cup {p} ELSE ack.disputed]

EndsPolicyChange(p, saved) ==
    ack' = [ack EXCEPT !.busy = @ \ {p},
                       !.standing = IF saved /\ cmd[p].name = "deny" /\ p \notin ack.disputed
                                    THEN @ \cup {loc[p].domain} ELSE @]

\* allow_command and deny_command up to load_project_network_policy.
LoadProjectPolicy(p) ==
    LET domain == NormalizePolicyDomain(cmd[p].domain)
    IN  /\ cmd[p].name \in {"allow", "deny"} /\ pc[p] = "start"
        /\ \/ /\ ~InvalidDomain(cmd[p].domain)
              /\ Set(p, [policy |-> netpol, domain |-> domain])
              /\ BeginsPolicyChange(p, domain)
              /\ Goto(p, "save") /\ UNCHANGED <<store, traces, netpol, out, shown>>
           \/ Refuse(p)

\* The policy with the domain moved to the named side.
Changed(policy, name, domain) ==
    IF name = "allow" THEN [allow |-> policy.allow \cup {domain}, deny |-> policy.deny \ {domain}]
    ELSE [allow |-> policy.allow \ {domain}, deny |-> policy.deny \cup {domain}]

\* save_project_network_policy replaces the file in one step, whatever it holds by now.
SaveProjectPolicy(p) ==
    /\ cmd[p].name \in {"allow", "deny"} /\ pc[p] = "save"
    /\ \/ /\ netpol' = Changed(loc[p].policy, cmd[p].name, loc[p].domain)
          /\ EndsPolicyChange(p, TRUE)
          /\ Finish(p, Success)
       \/ /\ EndsPolicyChange(p, FALSE)
          /\ Finish(p, Failure)
          /\ UNCHANGED netpol
    /\ UNCHANGED <<store, traces, out, shown>>

StatusCommand(p) ==
    /\ At(p, "status", "start")
    /\ \/ Finish(p, Success) /\ UNCHANGED <<store, traces, net, out, shown>>
       \/ Refuse(p)

-----------------------------------------------------------------------------
\* A process that reads the policy to act on it: the sides it saw, what stood then, and the
\* hosts it has reached.
Loaded == [policy |-> netpol, standing |-> ack.standing, reached |-> {}]

\* reject_call: the refusal is recorded before it is reported.
RejectCall(p, issue) ==
    /\ Exit(p, Failure)
    /\ \/ cmd[p].trace /\ AppendTrace(p, "call", "Unprotected", "Rejected", issue, {})
       \/ UNCHANGED traces
    /\ UNCHANGED <<loc, store, net, out, shown>>

\* optional_call_trace_store and call_secret
CallPrepare(p) ==
    /\ At(p, "call", "start")
    /\ \/ cmd[p].secret # 0 /\ Goto(p, "body") /\ UNCHANGED <<loc, store, traces, net, out, shown>>
       \/ Fail(p)

\* validate_call_body
CallBody(p) ==
    LET body == cmd[p].body
        sensitive == Detect(body.text) # {} \/ \E s \in body.text : s.raw = cmd[p].secret
    IN  /\ At(p, "call", "body")
        /\ \/ body.large /\ RejectCall(p, "RequestTooLarge")
           \/ ~body.large /\ sensitive /\ RejectCall(p, "InvalidPayload")
           \/ /\ ~body.large /\ ~sensitive
              /\ Goto(p, "url") /\ UNCHANGED <<loc, store, traces, net, out, shown>>

\* allowed_call_url: the policy is read at this moment.
CallUrl(p) ==
    /\ At(p, "call", "url")
    /\ \/ /\ Decision(netpol, cmd[p].host) = "Allow"
          /\ Set(p, Loaded)
          /\ Goto(p, "send") /\ UNCHANGED <<store, traces, net, out, shown>>
       \/ Decision(netpol, cmd[p].host) # "Allow" /\ RejectCall(p, "RouteNotAllowed")
       \/ Fail(p)

\* sanitize_call_response: the injected secret first, then what the detectors find in the rest.
SanitizeCallResponse(response) ==
    LET exact == {s \in response.text : s.form = "exact"}
        rest == {s \in response.text : \A e \in exact : ~Overlaps(s, e)}
    IN  Image(response.text,
              {[at |-> e, by |-> [form |-> "env", id |-> e.raw]] : e \in exact} \cup SanitizeText(rest).swaps)

\* The request with the secret is sent, and the answer read within CALL_RESPONSE_LIMIT.
CallSend(p) ==
    /\ At(p, "call", "send")
    /\ \E response \in Responses :
          /\ IF response.large
             THEN Exit(p, Failure) /\ Set(p, [loc[p] EXCEPT !.reached = {cmd[p].host}])
             ELSE /\ Set(p, [policy |-> loc[p].policy, standing |-> loc[p].standing, reached |-> {cmd[p].host},
                             ok |-> response.ok, image |-> SanitizeCallResponse(response)])
                  /\ Goto(p, "answered")
    /\ UNCHANGED <<store, traces, net, out, shown>>

\* No response: the request may have arrived all the same.
CallFails(p) ==
    /\ At(p, "call", "send")
    /\ Set(p, [loc[p] EXCEPT !.reached = {cmd[p].host}])
    /\ Exit(p, Failure)
    /\ UNCHANGED <<store, traces, net, out, shown>>

\* The record comes before the answer is printed, and its loss means nothing is printed.
CallAnswered(p) ==
    /\ At(p, "call", "answered")
    /\ \/ /\ IF cmd[p].trace
             THEN AppendTrace(p, "call", "Protected", IF loc[p].ok THEN "Succeeded" ELSE "Failed", "none",
                              Replacements({swap.at : swap \in loc[p].image.swaps}))
             ELSE UNCHANGED traces
          /\ Show(p, loc[p].image)
          /\ Exit(p, IF loc[p].ok THEN Success ELSE Failure)
          /\ UNCHANGED <<loc, store, net, out>>
       \/ cmd[p].trace /\ Fail(p)

CallCommand(p) ==
    CallPrepare(p) \/ CallBody(p) \/ CallUrl(p) \/ CallSend(p) \/ CallFails(p) \/ CallAnswered(p)

=============================================================================
