---------------------------- MODULE PolicyProofs ----------------------------
(***************************************************************************)
(* Theorems about Policy for every set of requests and rules, policies of  *)
(* any length and any clock.                                               *)
(***************************************************************************)
EXTENDS Policy, WellFoundedInduction, TLAPS

USE PolicyAssumption

-----------------------------------------------------------------------------
(* The decision procedure *)

\* Every set of naturals that is not empty has a least element.
LEMMA LeastNatural ==
    ASSUME NEW T, T \subseteq Nat, T # {}
    PROVE  \E x \in T : \A y \in T : x <= y
<1>1. PICK x \in T : \A y \in T : <<y, x>> \notin OpToRel(<, Nat)
  BY NatLessThanWellFounded, WFMin
<1>2. \A y \in T : ~(y < x)
  BY <1>1 DEF OpToRel
<1>. QED
  BY <1>2

\* min_by_key(id) finds a rule among a set of positions that is not empty.
LEMMA LowestIdIsOne ==
    ASSUME NEW rules, NEW S, S # {}, \A n \in S : rules[n].id \in Nat
    PROVE  \E n \in S : LowestId(rules, S) = rules[n]
<1>. DEFINE ids == {rules[n].id : n \in S}
<1>1. ids \subseteq Nat /\ ids # {}
  OBVIOUS
<1>2. PICK least \in ids : \A i \in ids : least <= i
  BY <1>1, LeastNatural
<1>3. PICK n \in S : rules[n].id = least
  BY <1>2
<1>4. \A m \in S : rules[n].id <= rules[m].id
  BY <1>2, <1>3
<1>. QED
  BY <1>3, <1>4 DEF LowestId

\* The fields of the policy in use: sequences of configured rules, and the
\* verdict of the validation on just these rules.
PolicyInv ==
    /\ preset \in Presets
    /\ deny \in Seq(DenyRules) /\ allow \in Seq(AllowRules)
    /\ valid \in BOOLEAN /\ (valid <=> ValidRules(deny, allow))
    /\ now \in Nat /\ req \in Requests

\* Policy::new and the passing of time keep it.
LEMMA PolicyInvariance == Spec => []PolicyInv
<1>1. Init => PolicyInv
  <2>. SUFFICES ASSUME Init PROVE PolicyInv
    OBVIOUS
  <2>1. ValidRules(<<>>, <<>>)
    BY DEF ValidRules
  <2>. QED BY <2>1 DEF Init, PolicyInv
<1>2. PolicyInv /\ [Next]_vars => PolicyInv'
  <2>. SUFFICES ASSUME PolicyInv, [Next]_vars PROVE PolicyInv'
    OBVIOUS
  <2>1. ASSUME NEW p \in Presets, NEW d \in Seq(DenyRules), NEW a \in Seq(AllowRules), New(p, d, a)
        PROVE  PolicyInv'
    <3>1. valid' \in BOOLEAN /\ (valid' <=> ValidRules(d, a))
      BY <2>1, Zenon DEF New, ValidRules
    <3>. QED BY <2>1, <3>1 DEF New, PolicyInv
  <2>2. ASSUME NEW p \in Presets \ {preset}, New(p, deny, allow) PROVE PolicyInv'
    BY <2>1, <2>2 DEF PolicyInv
  <2>3. ASSUME NEW rule \in DenyRules, New(preset, Append(deny, rule), allow) PROVE PolicyInv'
    BY <2>1, <2>3, Append(deny, rule) \in Seq(DenyRules) DEF PolicyInv
  <2>4. ASSUME NEW rule \in AllowRules, New(preset, deny, Append(allow, rule)) PROVE PolicyInv'
    BY <2>1, <2>4, Append(allow, rule) \in Seq(AllowRules) DEF PolicyInv
  <2>5. CASE Tick
    BY <2>5 DEF Tick, PolicyInv
  <2>6. CASE UNCHANGED vars
    BY <2>6 DEF vars, PolicyInv
  <2>. QED BY <2>2, <2>3, <2>4, <2>5, <2>6 DEF Next
<1>. QED BY <1>1, <1>2, PTL DEF Spec

-----------------------------------------------------------------------------
(* What a decision depends on *)

\* evaluate_at without the explanation.
ActionOf(p, d, a, ok, r, t) ==
    IF ViolatesInvariant(r) \/ ~ok \/ MatchingDenies(d, r) # {} THEN "Block"
    ELSE IF LiveAllows(a, r, t) # {} THEN IF r.operation = "Disclose" THEN "Allow" ELSE "Restore"
    ELSE PresetAction(p, r)

\* That is the action of the explained decision.
LEMMA ActionIs ==
    ASSUME NEW p, NEW d, NEW a, NEW ok, NEW r, NEW t
    PROVE  EvaluateAt(p, d, a, ok, r, t).action = ActionOf(p, d, a, ok, r, t)
BY DEF EvaluateAt, Outcome, ActionOf

\* A preset permits, warns, redacts or blocks; restoring is never its decision.
LEMMA PresetActionType ==
    ASSUME NEW p, NEW r
    PROVE  PresetAction(p, r) \in {"Allow", "Warn", "Redact", "Block"}
BY DEF PresetAction, ChillAction, BalancedAction, StrictAction, CiAction

\* The rank of whatever action is one of four.
LEMMA RankType ==
    ASSUME NEW action
    PROVE  Rank(action) \in 0 .. 3 /\ Rank("Block") = 3 /\ Rank("Allow") = 0 /\ Rank("Restore") = 0
BY DEF Rank

\* The verdict of the validation is lost by further rules and never regained.
LEMMA ValidShrinksDeny ==
    ASSUME NEW d \in Seq(DenyRules), NEW a \in Seq(AllowRules), NEW rule \in DenyRules,
           ValidRules(Append(d, rule), a)
    PROVE  ValidRules(d, a)
<1>. DEFINE old == d \o a
            new == Append(d, rule) \o a
            to(n) == IF n <= Len(d) THEN n ELSE n + 1
<1>1. \A n \in DOMAIN old : to(n) \in DOMAIN new /\ new[to(n)] = old[n]
  OBVIOUS
<1>2. \A m, n \in DOMAIN old : to(m) = to(n) => m = n
  OBVIOUS
<1>. HIDE DEF old, new, to
<1>3. /\ \A m, n \in DOMAIN new : new[m].id = new[n].id => m = n
      /\ \A n \in DOMAIN new : /\ new[n].scope.destination \in Destinations
                               /\ new[n].scope.source # "Unsupported"
  BY DEF ValidRules, new
<1>4. /\ \A m, n \in DOMAIN old : old[m].id = old[n].id => m = n
      /\ \A n \in DOMAIN old : /\ old[n].scope.destination \in Destinations
                               /\ old[n].scope.source # "Unsupported"
  BY <1>1, <1>2, <1>3
<1>. QED
  BY <1>4 DEF ValidRules, old

\* Likewise with further allow rules.
LEMMA ValidShrinksAllow ==
    ASSUME NEW d \in Seq(DenyRules), NEW a \in Seq(AllowRules), NEW rule \in AllowRules,
           ValidRules(d, Append(a, rule))
    PROVE  ValidRules(d, a)
<1>. DEFINE old == d \o a
            new == d \o Append(a, rule)
<1>1. \A n \in DOMAIN old : n \in DOMAIN new /\ new[n] = old[n]
  OBVIOUS
<1>2. \A n \in DOMAIN a : n \in DOMAIN Append(a, rule) /\ Append(a, rule)[n] = a[n]
  OBVIOUS
<1>. HIDE DEF old, new
<1>3. /\ \A m, n \in DOMAIN new : new[m].id = new[n].id => m = n
      /\ \A n \in DOMAIN new : /\ new[n].scope.destination \in Destinations
                               /\ new[n].scope.source # "Unsupported"
  BY DEF ValidRules, new
<1>4. /\ \A m, n \in DOMAIN old : old[m].id = old[n].id => m = n
      /\ \A n \in DOMAIN old : /\ old[n].scope.destination \in Destinations
                               /\ old[n].scope.source # "Unsupported"
  BY <1>1, <1>3
<1>5. \A n \in DOMAIN a :
         LET scope == a[n].scope
         IN  /\ scope.kind # Any \/ scope.sensitivity # Any \/ scope.source # Any
             /\ scope.operation = "Restore" => scope.destination \in TrustedRestore
  BY <1>2 DEF ValidRules
<1>. QED
  BY <1>4, <1>5 DEF ValidRules, old

-----------------------------------------------------------------------------
(* Invariants *)

\* Restoring is only ever the work of one live, matching allow rule.
THEOREM RestoreSafe == Spec => []RestoreJustified
<1>1. PolicyInv => RestoreJustified
  <2>. SUFFICES ASSUME PolicyInv, Decision.action = "Restore" PROVE RestoreJustified
    BY DEF RestoreJustified
  <2>. DEFINE live == LiveAllows(allow, req, now)
  <2>1. /\ ~ViolatesInvariant(req) /\ valid /\ MatchingDenies(deny, req) = {} /\ live # {}
        /\ req.operation = "Restore"
    <3>1. ActionOf(preset, deny, allow, valid, req, now) = "Restore"
      BY ActionIs DEF Decision
    <3>2. req.operation \in Operations
      BY DEF PolicyInv, Request
    <3>. QED BY <3>1, <3>2, PresetActionType DEF ActionOf, Operations
  <2>2. req.destination \in TrustedRestore
    BY <2>1 DEF ViolatesInvariant
  <2>3. \A n \in DOMAIN allow : allow[n] \in AllowRule
    BY DEF PolicyInv
  <2>4. PICK n \in live : LowestId(allow, live) = allow[n]
    <3>1. \A n \in live : allow[n].id \in Nat
      BY <2>3 DEF LiveAllows, AllowRule
    <3>. QED BY <2>1, <3>1, LowestIdIsOne
  <2>5. Decision = Outcome("Restore", "ExplicitAllow", allow[n].id, allow[n].reason)
    BY <2>1, <2>4 DEF Decision, EvaluateAt
  <2>6. /\ n \in DOMAIN allow /\ Matches(allow[n].scope, req)
        /\ allow[n].expires_at = Never \/ now < allow[n].expires_at
    BY <2>4 DEF LiveAllows, IsActive
  <2>7. /\ \A m \in DOMAIN allow : allow[m].id = allow[n].id => m = n
        /\ \A m \in DOMAIN deny : deny[m].id # allow[n].id
    <3>. DEFINE rules == deny \o allow
    <3>1. deny \in Seq(DenyRules) /\ allow \in Seq(AllowRules)
      BY DEF PolicyInv
    <3>2. \A l, m \in DOMAIN rules : rules[l].id = rules[m].id => l = m
      BY <2>1 DEF PolicyInv, ValidRules
    <3>3. \A m \in DOMAIN allow : Len(deny) + m \in DOMAIN rules /\ rules[Len(deny) + m] = allow[m]
      BY <3>1
    <3>4. \A m \in DOMAIN deny : m \in DOMAIN rules /\ rules[m] = deny[m] /\ m <= Len(deny)
      BY <3>1
    <3>5. \A m \in DOMAIN allow : m \in Nat /\ m > 0
      BY <3>1
    <3>. HIDE DEF rules
    <3>. QED BY <2>6, <3>1, <3>2, <3>3, <3>4, <3>5
  <2>. QED
    BY <2>1, <2>2, <2>5, <2>6, <2>7 DEF RestoreJustified, Outcome
<1>. QED BY <1>1, PolicyInvariance, PTL

\* No rule and no preset discloses a secret beyond the local machine.
THEOREM SecretsSafe == Spec => []SecretsStayIn
<1>1. PolicyInv => SecretsStayIn
  <2>. SUFFICES ASSUME PolicyInv, req.operation = "Disclose", req.sensitivity >= Secret,
                       req.destination \notin Local
                PROVE  Decision.action = "Block"
    BY DEF SecretsStayIn
  <2>1. req.destination \in Destinations
    BY DEF PolicyInv, Request
  <2>2. ViolatesInvariant(req)
    BY <2>1 DEF ViolatesInvariant, Destinations, Local
  <2>. QED BY <2>2, ActionIs DEF Decision, ActionOf
<1>. QED BY <1>1, PolicyInvariance, PTL

\* For one request the presets are ordered by what they withhold.
LEMMA PresetOrder ==
    ASSUME NEW r \in Request
    PROVE  /\ Rank(PresetAction("Chill", r)) <= Rank(PresetAction("Balanced", r))
           /\ Rank(PresetAction("Balanced", r)) <= Rank(PresetAction("Strict", r))
<1>1. r.sensitivity \in 0 .. 4 /\ r.destination \in Destinations
  BY DEF Request, Sensitivities, Public, Restricted
<1>. QED
  BY <1>1 DEF PresetAction, ChillAction, BalancedAction, StrictAction, Rank, Public, Internal,
              Confidential, Secret, Restricted, Local, Destinations

\* A preset withholds more of a more sensitive value.
LEMMA SensitivityOrder ==
    ASSUME NEW p \in Presets, NEW r \in Request, NEW s \in Sensitivities, r.sensitivity <= s
    PROVE  Rank(PresetAction(p, r)) <= Rank(PresetAction(p, [r EXCEPT !.sensitivity = s]))
<1>. DEFINE q == [r EXCEPT !.sensitivity = s]
<1>1. r.sensitivity \in 0 .. 4 /\ s \in 0 .. 4 /\ r.destination \in Destinations
  BY DEF Request, Sensitivities, Public, Restricted
<1>2. /\ q.sensitivity = s /\ q.operation = r.operation /\ q.kind = r.kind
      /\ q.source = r.source /\ q.destination = r.destination
  BY DEF Request
<1>. HIDE DEF q
<1>3. Rank(PresetAction(p, r)) <= Rank(PresetAction(p, q))
  BY <1>1, <1>2 DEF PresetAction, ChillAction, BalancedAction, StrictAction, CiAction, Rank, Public,
              Internal, Confidential, Secret, Restricted, Local, Destinations, Presets
<1>. QED BY <1>3 DEF q

\* Whatever the rules, the presets keep their order; without rules, so do the sensitivities.
THEOREM PresetsOrdered == Spec => []PresetsMonotone
<1>1. PolicyInv => PresetsMonotone
  <2>. SUFFICES ASSUME PolicyInv PROVE PresetsMonotone
    OBVIOUS
  <2>0. req \in Request
    BY DEF PolicyInv
  <2>1. \A p : EvaluateAt(p, deny, allow, valid, req, now).action =
                 ActionOf(p, deny, allow, valid, req, now)
    BY ActionIs
  <2>2. /\ Rank(ActionOf("Chill", deny, allow, valid, req, now)) <=
             Rank(ActionOf("Balanced", deny, allow, valid, req, now))
        /\ Rank(ActionOf("Balanced", deny, allow, valid, req, now)) <=
             Rank(ActionOf("Strict", deny, allow, valid, req, now))
    BY <2>0, PresetOrder, RankType DEF ActionOf
  <2>3. ASSUME NEW p \in Presets, NEW s \in Sensitivities, req.sensitivity <= s
        PROVE  Rank(EvaluateAt(p, <<>>, <<>>, TRUE, [req EXCEPT !.sensitivity = req.sensitivity], now).action)
                 <= Rank(EvaluateAt(p, <<>>, <<>>, TRUE, [req EXCEPT !.sensitivity = s], now).action)
    <3>. DEFINE q == [req EXCEPT !.sensitivity = s]
    <3>1. [req EXCEPT !.sensitivity = req.sensitivity] = req
      BY <2>0 DEF Request
    <3>2. \A r : EvaluateAt(p, <<>>, <<>>, TRUE, r, now).action =
                   IF ViolatesInvariant(r) THEN "Block" ELSE PresetAction(p, r)
      <4>. TAKE r
      <4>1. MatchingDenies(<<>>, r) = {} /\ LiveAllows(<<>>, r, now) = {}
        BY DEF MatchingDenies, LiveAllows
      <4>2. EvaluateAt(p, <<>>, <<>>, TRUE, r, now).action = ActionOf(p, <<>>, <<>>, TRUE, r, now)
        BY ActionIs
      <4>. QED BY <4>1, <4>2 DEF ActionOf
    <3>3. ViolatesInvariant(req) => ViolatesInvariant(q)
      BY <2>0, <2>3 DEF ViolatesInvariant, Request, Sensitivities, Public, Restricted, Secret
    <3>4. Rank(PresetAction(p, req)) <= Rank(PresetAction(p, q))
      BY <2>0, <2>3, SensitivityOrder
    <3>. HIDE DEF q
    <3>5. Rank(IF ViolatesInvariant(req) THEN "Block" ELSE PresetAction(p, req)) <=
            Rank(IF ViolatesInvariant(q) THEN "Block" ELSE PresetAction(p, q))
      BY <3>3, <3>4, RankType
    <3>. QED BY <3>1, <3>2, <3>5 DEF q
  <2>4. /\ Rank(EvaluateAt("Chill", deny, allow, valid, req, now).action) <=
             Rank(EvaluateAt("Balanced", deny, allow, valid, req, now).action)
        /\ Rank(EvaluateAt("Balanced", deny, allow, valid, req, now).action) <=
             Rank(EvaluateAt("Strict", deny, allow, valid, req, now).action)
    BY <2>1, <2>2
  <2>. QED BY <2>3, <2>4, Zenon DEF PresetsMonotone
<1>. QED BY <1>1, PolicyInvariance, PTL

-----------------------------------------------------------------------------
(* Action properties *)

\* Time and further deny rules only ever withhold more.
THEOREM Tightening == Spec => NeverLoosens
<1>1. PolicyInv /\ [Next]_vars =>
        [(preset' = preset /\ allow' = allow) => Rank(Decision.action) <= Rank(Decision'.action)]_vars
  <2>. SUFFICES ASSUME PolicyInv, Next, preset' = preset, allow' = allow
                PROVE  Rank(Decision.action) <= Rank(Decision'.action)
    OBVIOUS
  <2>1. /\ Decision.action = ActionOf(preset, deny, allow, valid, req, now)
        /\ Decision'.action = ActionOf(preset, deny', allow, valid', req', now')
    BY ActionIs DEF Decision
  <2>2. ASSUME req' = req, valid' => valid,
               MatchingDenies(deny, req) # {} => MatchingDenies(deny', req) # {},
               LiveAllows(allow, req, now') \subseteq LiveAllows(allow, req, now)
        PROVE  Rank(Decision.action) <= Rank(Decision'.action)
    BY <2>1, <2>2, RankType DEF ActionOf
  <2>3. ASSUME NEW rule \in DenyRules, New(preset, Append(deny, rule), allow)
        PROVE  Rank(Decision.action) <= Rank(Decision'.action)
    <3>1. deny \in Seq(DenyRules) /\ allow \in Seq(AllowRules)
      BY DEF PolicyInv
    <3>2. deny' = Append(deny, rule) /\ (valid' <=> ValidRules(Append(deny, rule), allow)) /\ req' = req /\ now' = now
      BY <2>3 DEF New
    <3>3. valid' => valid
      BY <3>1, <3>2, ValidShrinksDeny DEF PolicyInv
    <3>4. \A n \in DOMAIN deny : n \in DOMAIN deny' /\ deny'[n] = deny[n]
      BY <3>1, <3>2
    <3>5. MatchingDenies(deny, req) # {} => MatchingDenies(deny', req) # {}
      BY <3>4 DEF MatchingDenies
    <3>. QED BY <2>2, <3>2, <3>3, <3>5
  <2>4. CASE Tick
    <3>1. now \in Nat /\ now' = now + 1 /\ deny' = deny /\ valid' = valid /\ req' = req
      BY <2>4 DEF Tick, PolicyInv
    <3>2. \A n \in DOMAIN allow : allow[n] \in AllowRule
      BY DEF PolicyInv
    <3>3. LiveAllows(allow, req, now') \subseteq LiveAllows(allow, req, now)
      BY <3>1, <3>2 DEF LiveAllows, IsActive, AllowRule
    <3>. QED BY <2>2, <3>1, <3>3
  <2>5. ASSUME NEW p \in Presets \ {preset}, New(p, deny, allow) PROVE FALSE
    BY <2>5 DEF New
  <2>6. ASSUME NEW rule \in AllowRules, New(preset, deny, Append(allow, rule)) PROVE FALSE
    <3>1. allow \in Seq(AllowRules) /\ allow' = Append(allow, rule)
      BY <2>6 DEF New, PolicyInv
    <3>2. Len(allow') = Len(allow) + 1 /\ Len(allow) \in Nat
      BY <3>1
    <3>. QED BY <3>2
  <2>. QED BY <2>3, <2>4, <2>5, <2>6 DEF Next
<1>. QED BY <1>1, PolicyInvariance, PTL DEF Spec, NeverLoosens

\* A new allow rule frees nothing outside its scope.
THEOREM Narrowness == Spec => AllowIsNarrow
<1>1. PolicyInv /\ [Next]_vars =>
        [(Len(allow') > Len(allow) /\ Rank(Decision'.action) < Rank(Decision.action)) =>
            Matches(allow'[Len(allow')].scope, req)]_vars
  <2>. SUFFICES ASSUME PolicyInv, Next, Len(allow') > Len(allow),
                       ~Matches(allow'[Len(allow')].scope, req)
                PROVE  ~(Rank(Decision'.action) < Rank(Decision.action))
    OBVIOUS
  <2>0. deny \in Seq(DenyRules) /\ allow \in Seq(AllowRules) /\ Len(allow) \in Nat
    BY DEF PolicyInv
  <2>1. PICK rule \in AllowRules : New(preset, deny, Append(allow, rule))
    BY <2>0 DEF Next, New, Tick
  <2>2. /\ preset' = preset /\ deny' = deny /\ allow' = Append(allow, rule) /\ req' = req /\ now' = now
        /\ valid' <=> ValidRules(deny, Append(allow, rule))
    BY <2>1 DEF New
  <2>3. valid' => valid
    BY <2>0, <2>2, ValidShrinksAllow DEF PolicyInv
  <2>4. LiveAllows(allow', req, now) = LiveAllows(allow, req, now)
    <3>1. /\ DOMAIN allow = 1 .. Len(allow) /\ DOMAIN allow' = 1 .. Len(allow) + 1
          /\ Len(allow') = Len(allow) + 1
          /\ \A n \in 1 .. Len(allow) : allow'[n] = allow[n]
      BY <2>0, <2>2
    <3>. QED BY <2>0, <3>1 DEF LiveAllows
  <2>5. /\ Decision.action = ActionOf(preset, deny, allow, valid, req, now)
        /\ Decision'.action = ActionOf(preset, deny, allow', valid', req, now)
    BY <2>2, ActionIs DEF Decision
  <2>. QED BY <2>3, <2>4, <2>5, RankType DEF ActionOf
<1>. QED BY <1>1, PolicyInvariance, PTL DEF Spec, AllowIsNarrow
=============================================================================
