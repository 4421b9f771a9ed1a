----------------------------- MODULE Detection -----------------------------
(***************************************************************************)
(* blindfold-detectors on one text: what DetectorSet::detect finds, how    *)
(* overlapping findings are resolved and what the redactor leaves.         *)
(*                                                                         *)
(* A text is a set of sites, the places where some expression matches.     *)
(* A site is a record with                                                 *)
(*   form   "pattern", "url", "email", "phone" or "assignment"             *)
(*   kind   the SecretKind of a pattern; of an assignment, what the        *)
(*          assigned name contains                                         *)
(*   from, to, raw   the span of the value and its bytes                   *)
(*   min    length of the shortest prefix that still has the form          *)
(*   valid  what the parser behind the expression says of it; of an        *)
(*          assigned value, that it has the variety and the entropy        *)
(*   quote  "none", "closed" or "open", of an assigned value               *)
(*   env    rank of the dotenv variable the line assigns, 0 if none        *)
(*   cut    the text ends inside the value                                 *)
(***************************************************************************)
EXTENDS Integers, FiniteSets

Contextual == 1
High == 2
Certain == 3

\* SecretKind derives Ord in the order of declaration.
SecretKind ==
    <<"OpenAiApiKey", "AnthropicApiKey", "GitHubToken", "StripeKey", "SlackToken", "AwsAccessKeyId",
      "AwsSecretAccessKey", "BearerToken", "JsonWebToken", "OAuthToken", "PemPrivateKey",
      "CredentialUrl", "EmailAddress", "PhoneNumber", "Password", "ApiKey", "Token">>
KindRank(kind) == CHOOSE n \in DOMAIN SecretKind : SecretKind[n] = kind

\* What the expressions of the detectors can match: a pattern is of a known kind and no match is
\* shorter than its fixed part; a value that only its place gives away ("exact") is not empty.
IsText(text) ==
    /\ IsFiniteSet(text)
    /\ \A s \in text :
          /\ DOMAIN s = {"form", "kind", "from", "to", "raw", "min", "valid", "quote", "env", "cut"}
          /\ s.from \in Nat /\ s.to \in Nat /\ s.min \in Nat \ {0}
          /\ s.form = "pattern" => \E n \in DOMAIN SecretKind : SecretKind[n] = s.kind
          /\ s.form = "exact" => s.from < s.to

Length(s) == s.to - s.from
Overlaps(a, b) == a.from < b.to /\ b.from < a.to
Finding(s, kind, confidence) ==
    [kind |-> kind, from |-> s.from, to |-> s.to, confidence |-> confidence, raw |-> s.raw, env |-> s.env]

-----------------------------------------------------------------------------
KnownFormats(text) ==
    {Finding(s, s.kind, IF s.kind = "BearerToken" THEN High ELSE Certain) :
        s \in {s \in text : s.form = "pattern" /\ Length(s) >= s.min /\ ~(s.kind = "PemPrivateKey" /\ s.cut)}}

\* The password of a URL is found by the '@' behind it: a cut one is not.
CredentialUrls(text) ==
    {Finding(s, "CredentialUrl", Certain) :
        s \in {s \in text : s.form = "url" /\ s.valid /\ ~s.cut /\ Length(s) > 0}}

EmailsAndPhones(text) ==
    {Finding(s, IF s.form = "email" THEN "EmailAddress" ELSE "PhoneNumber", High) :
        s \in {s \in text : s.form \in {"email", "phone"} /\ s.valid /\ Length(s) >= s.min}}

\* classify_context: the first group of names that fits decides.
Classes == [aws_secret_access_key |-> <<"AwsSecretAccessKey", High>>,
            password |-> <<"Password", Contextual>>,
            api_key |-> <<"ApiKey", Contextual>>,
            token |-> <<"Token", Contextual>>]
MinimumContextLength(kind) ==
    IF kind = "Password" THEN 16 ELSE IF kind = "AwsSecretAccessKey" THEN 32 ELSE 20
MaxContextLength == 512

\* assignment_value_span is Some: an open quote has no value, nor has an empty one.
HasValueSpan(s) == Length(s) > 0 /\ s.quote # "open" /\ ~(s.quote = "closed" /\ s.cut)

ContextualDetector(text) ==
    {Finding(s, Classes[s.kind][1], Classes[s.kind][2]) :
        s \in {s \in text : /\ s.form = "assignment"
                            /\ s.kind \in DOMAIN Classes
                            /\ HasValueSpan(s)
                            /\ Length(s) <= MaxContextLength
                            /\ Length(s) >= MinimumContextLength(Classes[s.kind][1])
                            /\ s.valid}}

Candidates(text) ==
    KnownFormats(text) \cup CredentialUrls(text) \cup EmailsAndPhones(text) \cup ContextualDetector(text)

-----------------------------------------------------------------------------
\* The sort key of resolve_overlaps: a comes before b.
Before(a, b) ==
    \/ a.confidence > b.confidence
    \/ /\ a.confidence = b.confidence
       /\ \/ Length(a) > Length(b)
          \/ /\ Length(a) = Length(b)
             /\ \/ a.from < b.from
                \/ a.from = b.from /\ KindRank(a.kind) < KindRank(b.kind)

\* Mutant of ResolveOverlaps: a finding loses against any better one it overlaps, selected or not.
ResolveAgainstAll(found) == {f \in found : \A g \in found : Before(g, f) => ~Overlaps(g, f)}

\* The greedy selection: a finding is taken unless a better one that was taken overlaps it.
ResolveOverlaps(found) ==
    CHOOSE selected \in SUBSET found :
        \A f \in found : f \in selected <=> \A g \in selected : Before(g, f) => ~Overlaps(g, f)

Detect(text) == ResolveOverlaps(Candidates(text))

-----------------------------------------------------------------------------
\* What a transformation leaves: how much of the text, what stands in place of which findings, and
\* whether the text was only passed on.
Unbounded == 10^9
Image(text, swaps) == [text |-> text, swaps |-> swaps, end |-> Unbounded, passed |-> FALSE]

\* Finding f of the text is still there, whole.
Survives(f, image) == f.to <= image.end /\ \A swap \in image.swaps : ~Overlaps(f, swap.at)

\* DotenvCatalog::parse: of the names of one value the smallest.
DotenvCatalog(text) ==
    [raw \in {s.raw : s \in {s \in text : s.env > 0}} |->
        CHOOSE n \in {s.env : s \in {s \in text : s.raw = raw /\ s.env > 0}} :
            \A s \in text : s.raw = raw /\ s.env > 0 => n <= s.env]

\* write_replacement
Replacement(f, mode, catalog) ==
    IF mode = "env-ref" /\ f.raw \in DOMAIN catalog THEN [form |-> "env", id |-> catalog[f.raw]]
    ELSE IF mode = "surrogate" THEN [form |-> "surrogate", id |-> f.raw]
    ELSE IF mode = "schema-only" THEN [form |-> "label", id |-> KindRank(f.kind)]
    ELSE [form |-> "placeholder", id |-> KindRank(f.kind)]

\* Redactor::redact returns Err(Blocked).
Blocked(text, mode) == mode = "block" /\ Detect(text) # {}

Redact(text, mode) ==
    LET catalog == IF mode = "env-ref" THEN DotenvCatalog(text) ELSE <<>>
    IN  Image(text, {[at |-> f, by |-> Replacement(f, mode, catalog)] : f \in Detect(text)})

\* DetectorSanitizer::sanitize_text
SanitizeText(text) == Redact(text, "placeholder")

\* The first n bytes of a text.
Truncate(text, n) ==
    {IF s.to <= n THEN s ELSE [s EXCEPT !.to = n, !.cut = TRUE] : s \in {s \in text : s.from < n}}

=============================================================================
