------------------------------- MODULE Policy -------------------------------
(***************************************************************************)
(* blindfold-policy: which action a request to disclose or to restore a    *)
(* value gets.  The operators are the pure decision procedure; the state   *)
(* machine is a host that builds a policy, rebuilds it when its            *)
(* configuration changes and evaluates one and the same request again and  *)
(* again while time passes.                                                *)
(***************************************************************************)
EXTENDS Integers, Sequences

CONSTANTS
    Requests,     \* the requests a host may evaluate
    DenyRules,    \* the deny rules a configuration may contain
    AllowRules,   \* the allow rules a configuration may contain
    Any,          \* None of an optional scope dimension: a wildcard
    Never,        \* None of expires_at
    NoRule,       \* None of rule_id and allow_reason
    MaxRules,     \* bound: rules in one policy
    MaxTime       \* bound: the clock

Presets == {"Chill", "Balanced", "Strict", "Ci"}
Operations == {"Disclose", "Restore"}
SourceContexts == {"Environment", "File", "StandardInput", "ProcessOutput", "Request",
                   "Response", "Tool", "Unknown", "Unsupported"}
Kinds == {"ApiKey", "Token", "Password", "PrivateKey", "Certificate", "CredentialUrl",
          "PersonallyIdentifiableInformation", "Other"}
Destinations == {"ModelProvider", "Agent", "Tool", "ChildProcess", "File", "Log", "Audit",
                 "User", "TrustedLocal"}
\* Sensitivity derives Ord: Public < Internal < Confidential < Secret < Restricted.
Public == 0
Internal == 1
Confidential == 2
Secret == 3
Restricted == 4
Sensitivities == Public .. Restricted

Actions == {"Allow", "Redact", "Warn", "Block", "Restore"}
AllowReasons == {"RequiredOperation", "Compatibility", "TestFixture", "IncidentResponse"}

Request == [operation : Operations, kind : Kinds, sensitivity : Sensitivities,
            source : SourceContexts, destination : Destinations]
Scope == [operation : Operations, destination : Destinations, kind : Kinds \cup {Any},
          sensitivity : Sensitivities \cup {Any}, source : SourceContexts \cup {Any}]
DenyRule == [id : Nat, scope : Scope]
AllowRule == [id : Nat, scope : Scope, reason : AllowReasons, expires_at : Nat \cup {Never}]

ASSUME PolicyAssumption ==
    /\ Requests \subseteq Request
    /\ DenyRules \subseteq DenyRule /\ AllowRules \subseteq AllowRule
    /\ Any \notin Kinds /\ Any \notin Sensitivities /\ Any \notin SourceContexts
    /\ Never \notin Nat /\ NoRule \notin Nat /\ NoRule \notin AllowReasons
    /\ MaxRules \in Nat /\ MaxTime \in Nat

VARIABLES
    preset, deny, allow,  \* the fields of the Policy in use, as given to Policy::new
    valid,                \* validation_error is None, as Policy::new computed it
    now,                  \* the instant evaluate_at is given
    req                   \* the request under evaluation

vars == <<preset, deny, allow, valid, now, req>>

-----------------------------------------------------------------------------
\* RuleScope::matches
Matches(scope, r) ==
    /\ scope.operation = r.operation
    /\ scope.destination = r.destination
    /\ scope.kind \in {Any, r.kind}
    /\ scope.sensitivity \in {Any, r.sensitivity}
    /\ scope.source \in {Any, r.source}

\* AllowRule::is_active
IsActive(rule, t) == rule.expires_at = Never \/ t < rule.expires_at

TrustedRestore == {"ChildProcess", "TrustedLocal"}

\* validate_rules and validate_scope return Ok.
ValidRules(d, a) ==
    LET rules == d \o a
    IN  /\ \A m, n \in DOMAIN rules : rules[m].id = rules[n].id => m = n
        /\ \A n \in DOMAIN rules : /\ rules[n].scope.destination \in Destinations
                                   /\ rules[n].scope.source # "Unsupported"
        /\ \A n \in DOMAIN a :
              LET scope == a[n].scope
              IN  /\ scope.kind # Any \/ scope.sensitivity # Any \/ scope.source # Any
                  /\ scope.operation = "Restore" => scope.destination \in TrustedRestore

\* Mutant of ViolatesInvariant: the threshold is above Secret instead of at it.
ViolatesInvariantAbove(r) ==
    \/ r.source = "Unsupported"
    \/ r.operation = "Restore" /\ r.destination \notin TrustedRestore
    \/ /\ r.operation = "Disclose"
       /\ r.sensitivity > Secret
       /\ r.destination \in {"ModelProvider", "Agent", "Tool", "Log", "Audit"}

\* What no rule and no preset can permit.
ViolatesInvariant(r) ==
    \/ r.destination \notin Destinations
    \/ r.source = "Unsupported"
    \/ r.sensitivity \notin Sensitivities
    \/ r.kind \notin Kinds
    \/ r.operation = "Restore" /\ r.destination \notin TrustedRestore
    \/ /\ r.operation = "Disclose"
       /\ r.sensitivity >= Secret
       /\ r.destination \in {"ModelProvider", "Agent", "Tool", "Log", "Audit"}

Local == {"ChildProcess", "File", "User", "TrustedLocal"}

ChillAction(s, d) ==
    IF s = Internal
    THEN IF d \in Local THEN "Allow" ELSE IF d \in {"Agent", "Tool"} THEN "Warn" ELSE "Redact"
    ELSE IF s = Confidential
    THEN IF d = "TrustedLocal" THEN "Allow" ELSE IF d \in Local THEN "Warn" ELSE "Redact"
    ELSE IF s = Secret /\ d \in Local THEN "Redact" ELSE "Block"

BalancedAction(s, d) ==
    IF s = Internal THEN IF d \in Local THEN "Allow" ELSE "Redact"
    ELSE IF s = Confidential THEN IF d = "TrustedLocal" THEN "Allow" ELSE "Redact"
    ELSE IF s = Secret /\ d \in Local THEN "Redact" ELSE "Block"

\* Mutant of StrictAction: confidential values to local destinations only warn.
StrictActionWarns(s, d) ==
    IF s \in {Internal, Confidential} /\ d \in Local THEN "Warn"
    ELSE IF s = Internal \/ (s = Secret /\ d \in Local) THEN "Redact" ELSE "Block"

StrictAction(s, d) ==
    IF s = Internal THEN IF d \in Local THEN "Warn" ELSE "Redact"
    ELSE IF s \in {Confidential, Secret} /\ d \in Local THEN "Redact" ELSE "Block"

CiAction(s, d) == IF s \in {Internal, Confidential} THEN "Redact" ELSE "Block"

PresetAction(p, r) ==
    LET s == r.sensitivity
        d == r.destination
    IN  IF r.operation = "Restore" THEN "Block"
        ELSE IF s = Public THEN "Allow"
        ELSE IF s = Restricted \/ (r.kind = "PrivateKey" /\ s >= Secret) THEN "Block"
        ELSE IF r.source = "Unknown"
        THEN IF p \in {"Chill", "Balanced"} THEN "Redact" ELSE "Block"
        ELSE IF r.source = "Environment" /\ s >= Confidential THEN "Redact"
        ELSE IF p = "Chill" THEN ChillAction(s, d)
        ELSE IF p = "Balanced" THEN BalancedAction(s, d)
        ELSE IF p = "Strict" THEN StrictAction(s, d)
        ELSE CiAction(s, d)

\* The rule min_by_key(id) picks among those at the positions S, which is not empty.
LowestId(rules, S) == rules[CHOOSE n \in S : \A m \in S : rules[n].id <= rules[m].id]

\* Mutant of MatchingDenies: the last deny rule replaces the earlier ones.
LastMatchingDeny(d, r) == {n \in DOMAIN d : n = Len(d) /\ Matches(d[n].scope, r)}

MatchingDenies(d, r) == {n \in DOMAIN d : Matches(d[n].scope, r)}

\* Mutant of LiveAllows: the scope of an allow rule is not compared.
LiveAllowsUnscoped(a, r, t) ==
    {n \in DOMAIN a : a[n].scope.operation = r.operation /\ IsActive(a[n], t)}

LiveAllows(a, r, t) == {n \in DOMAIN a : Matches(a[n].scope, r) /\ IsActive(a[n], t)}

Outcome(action, basis, id, reason) ==
    [action |-> action, basis |-> basis, rule_id |-> id, allow_reason |-> reason]

\* Mutant of EvaluateAt: allow rules are consulted before deny rules.
EvaluateAllowFirst(p, d, a, ok, r, t) ==
    IF ViolatesInvariant(r) THEN Outcome("Block", "Invariant", NoRule, NoRule)
    ELSE IF ~ok THEN Outcome("Block", "InvalidPolicy", NoRule, NoRule)
    ELSE IF LiveAllows(a, r, t) # {}
    THEN LET rule == LowestId(a, LiveAllows(a, r, t))
         IN  Outcome(IF r.operation = "Disclose" THEN "Allow" ELSE "Restore",
                     "ExplicitAllow", rule.id, rule.reason)
    ELSE IF MatchingDenies(d, r) # {} THEN Outcome("Block", "ExplicitDeny", 0, NoRule)
    ELSE Outcome(PresetAction(p, r), "Preset", NoRule, NoRule)

\* Policy::evaluate_at
EvaluateAt(p, d, a, ok, r, t) ==
    IF ViolatesInvariant(r) THEN Outcome("Block", "Invariant", NoRule, NoRule)
    ELSE IF ~ok THEN Outcome("Block", "InvalidPolicy", NoRule, NoRule)
    ELSE IF MatchingDenies(d, r) # {}
    THEN Outcome("Block", "ExplicitDeny", LowestId(d, MatchingDenies(d, r)).id, NoRule)
    ELSE IF LiveAllows(a, r, t) # {}
    THEN LET rule == LowestId(a, LiveAllows(a, r, t))
         IN  Outcome(IF r.operation = "Disclose" THEN "Allow" ELSE "Restore",
                     "ExplicitAllow", rule.id, rule.reason)
    ELSE Outcome(PresetAction(p, r), "Preset", NoRule, NoRule)

Decision == EvaluateAt(preset, deny, allow, valid, req, now)

-----------------------------------------------------------------------------
\* Policy::new: an invalid policy is kept, with its error.
New(p, d, a) ==
    /\ Len(d) + Len(a) <= MaxRules
    /\ preset' = p
    /\ deny' = d
    /\ allow' = a
    /\ valid' = ValidRules(d, a)
    /\ UNCHANGED <<now, req>>

\* SystemTime::now() of a later evaluate.
Tick ==
    /\ now < MaxTime
    /\ now' = now + 1
    /\ UNCHANGED <<preset, deny, allow, valid, req>>

Init ==
    /\ preset \in Presets
    /\ deny = <<>>
    /\ allow = <<>>
    /\ valid = TRUE
    /\ now = 0
    /\ req \in Requests

Next ==
    \/ \E p \in Presets \ {preset} : New(p, deny, allow)
    \/ \E rule \in DenyRules : New(preset, Append(deny, rule), allow)
    \/ \E rule \in AllowRules : New(preset, deny, Append(allow, rule))
    \/ Tick

Spec == Init /\ [][Next]_vars

-----------------------------------------------------------------------------
\* How much a decision withholds; Restore is Allow for the other operation.
Rank(action) ==
    IF action \in {"Allow", "Restore"} THEN 0
    ELSE IF action = "Warn" THEN 1
    ELSE IF action = "Redact" THEN 2 ELSE 3

\* Plaintext is restored only by a rule of a valid policy that is live at that
\* very instant, is the only one with its identifier, is bound to a trusted
\* destination and is contradicted by no deny rule; the explanation names it.
RestoreJustified ==
    Decision.action = "Restore" =>
        /\ req.destination \in TrustedRestore
        /\ MatchingDenies(deny, req) = {}
        /\ \E n \in DOMAIN allow :
              /\ allow[n].id = Decision.rule_id
              /\ allow[n].reason = Decision.allow_reason
              /\ Matches(allow[n].scope, req)
              /\ allow[n].expires_at = Never \/ now < allow[n].expires_at
              /\ \A m \in DOMAIN allow : allow[m].id = allow[n].id => m = n
              /\ \A m \in DOMAIN deny : deny[m].id # allow[n].id

\* Whatever rules a configuration accumulates, a secret is never disclosed as it
\* is to a model, an agent, a tool, a log or the audit trail.
SecretsStayIn ==
    (/\ req.operation = "Disclose"
     /\ req.sensitivity >= Secret
     /\ req.destination \notin Local) => Decision.action = "Block"

\* Strict withholds at least what balanced does and balanced what chill does,
\* whatever the rules; and without rules a preset never treats a more sensitive
\* value more freely.
PresetsMonotone ==
    LET withheld(p) == Rank(EvaluateAt(p, deny, allow, valid, req, now).action)
        bare(p, s) == Rank(EvaluateAt(p, <<>>, <<>>, TRUE, [req EXCEPT !.sensitivity = s], now).action)
    IN  /\ withheld("Chill") <= withheld("Balanced") /\ withheld("Balanced") <= withheld("Strict")
        /\ \A p \in Presets, s \in Sensitivities :
              req.sensitivity <= s => bare(p, req.sensitivity) <= bare(p, s)

\* As long as the preset and the allow rules stay, no step frees the request: not
\* the passing of time, not a further deny rule, not one that makes the policy invalid.
NeverLoosens ==
    [][(preset' = preset /\ allow' = allow) => Rank(Decision.action) <= Rank(Decision'.action)]_vars

\* A new allow rule frees only requests in its own scope; every other one keeps
\* its action or, when the rule makes the policy invalid, is blocked.
AllowIsNarrow ==
    [][(Len(allow') > Len(allow) /\ Rank(Decision'.action) < Rank(Decision.action)) =>
          Matches(allow'[Len(allow')].scope, req)]_vars

=============================================================================
