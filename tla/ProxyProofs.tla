----------------------------- MODULE ProxyProofs -----------------------------
(***************************************************************************)
(* Theorems about Proxy for every set of exchanges, upstreams, requests,   *)
(* responses and messages, and every bound.                                *)
(***************************************************************************)
EXTENDS Proxy, FiniteSetTheorems, WellFoundedInduction, TLAPS

-----------------------------------------------------------------------------
(* Sanitization *)

\* The number of positions of a body with some property is a number.
LEMMA CountType ==
    ASSUME NEW parts \in Seq(Part), NEW S \in SUBSET DOMAIN parts
    PROVE  Cardinality(S) \in Nat
<1>1. IsFiniteSet(DOMAIN parts)
  <2>1. DOMAIN parts = 1 .. Len(parts) /\ Len(parts) \in Int
    OBVIOUS
  <2>. QED BY <2>1, FS_Interval
<1>. QED BY <1>1, FS_Subset, FS_CardinalityType

\* Observations are what was replaced, with its pointer.
LEMMA ObservedType ==
    ASSUME NEW u, NEW parts \in Seq(Part)
    PROVE  Observed(u, parts) \in SUBSET (Taint \X Nat)
<1>1. \A n \in DOMAIN parts : parts[n].text \subseteq Taint /\ parts[n].pointer \in Nat
  <2>1. \A n \in DOMAIN parts : parts[n] \in Part
    OBVIOUS
  <2>2. \A part \in Part : part.text \subseteq Taint /\ part.pointer \in Nat
    BY DEF Part, Text
  <2>. QED BY <2>1, <2>2
<1>2. \A n \in DOMAIN parts :
         (parts[n].text \ Sanitize(u, parts[n].text)) \X {parts[n].pointer} \subseteq Taint \X Nat
  BY <1>1
<1>. QED BY <1>2 DEF Observed

\* One part: only its text changes.
LEMMA SanitizedPart ==
    ASSUME NEW u, NEW part \in Part
    PROVE  /\ [part EXCEPT !.text = Sanitize(u, @)].text = Sanitize(u, part.text)
           /\ part.text \subseteq Taint
BY DEF Part, Text

\* What SanitizeParts lets through holds nothing the sanitizer would still remove.
LEMMA SanitizedParts ==
    ASSUME NEW u, NEW sse, NEW parts \in Seq(Part), SanitizeParts(u, sse, parts) # None
    PROVE  /\ Content(SanitizeParts(u, sse, parts)) \in Text
           /\ Untouched(u, Content(SanitizeParts(u, sse, parts)))
           /\ Cardinality(DOMAIN SanitizeParts(u, sse, parts)) \in Nat
<1>. DEFINE kept == {m \in DOMAIN parts : parts[m].kind # "comment"}
            new(part) == [part EXCEPT !.text = Sanitize(u, @)]
            safe == [n \in kept |-> new(parts[n])]
            removed == IF u.credential THEN Taint ELSE {"secret"}
<1>1. SanitizeParts(u, sse, parts) = safe
  BY DEF SanitizeParts
<1>2. \A n \in kept : parts[n] \in Part
  OBVIOUS
<1>3. \A part \in Part : new(part).text = part.text \ removed /\ part.text \subseteq Taint
  BY SanitizedPart DEF Sanitize
<1>4. kept \in SUBSET DOMAIN parts
  OBVIOUS
<1>. HIDE DEF new, kept, removed
<1>5. DOMAIN safe = kept /\ \A n \in kept : safe[n] = new(parts[n])
  OBVIOUS
<1>6. Cardinality(DOMAIN safe) \in Nat
  BY <1>4, <1>5, CountType
<1>. HIDE DEF safe
<1>7. \A n \in DOMAIN safe : safe[n].text \subseteq Taint /\ safe[n].text \cap removed = {}
  BY <1>2, <1>3, <1>5
<1>8. Content(safe) \subseteq Taint
  BY <1>7 DEF Content
<1>9. Content(safe) \ removed = Content(safe)
  <2>1. \A n \in DOMAIN safe : \A c \in safe[n].text : c \notin removed
    BY <1>7
  <2>2. \A c \in Content(safe) : \E n \in DOMAIN safe : c \in safe[n].text
    BY DEF Content
  <2>. QED BY <2>1, <2>2
<1>. QED
  BY <1>1, <1>6, <1>8, <1>9 DEF Untouched, Sanitize, Text, removed

\* Likewise of a whole body; a refused body has an error code.
LEMMA SanitizedBody ==
    ASSUME NEW u, NEW source, NEW path, NEW type, NEW parts \in Seq(Part)
    PROVE  LET safe == SanitizeBody(u, source, path, type, parts)
           IN  /\ safe.code \in ErrorCode \cup {"Ok"}
               /\ safe.code = "Ok" => /\ Content(safe.parts) \in Text
                                      /\ Untouched(u, Content(safe.parts))
                                      /\ Cardinality(DOMAIN safe.parts) \in Nat
<1>. DEFINE sse == type = "sse" /\ SseRoute(u, source, path)
            safe == SanitizeBody(u, source, path, type, parts)
<1>1. ASSUME safe.code = "Ok"
      PROVE  SanitizeParts(u, sse, parts) # None /\ safe.parts = SanitizeParts(u, sse, parts)
  BY <1>1 DEF SanitizeBody
<1>2. safe.code \in ErrorCode \cup {"Ok"}
  <2>1. \/ safe = [code |-> "InvalidJson", parts |-> <<>>]
        \/ safe = [code |-> "Ok", parts |-> SanitizeParts(u, sse, parts)]
        \/ safe = [code |-> "InvalidRequest", parts |-> <<>>]
        \/ safe = [code |-> "UpstreamFailure", parts |-> <<>>]
    BY DEF SanitizeBody
  <2>. HIDE DEF safe
  <2>. QED BY <2>1 DEF ErrorCode
<1>3. safe.code = "Ok" => /\ Content(safe.parts) \in Text
                          /\ Untouched(u, Content(safe.parts))
                          /\ Cardinality(DOMAIN safe.parts) \in Nat
  <2>. HIDE DEF sse, safe
  <2>. QED BY <1>1, SanitizedParts
<1>. QED BY <1>2, <1>3

-----------------------------------------------------------------------------
(* Admission *)

\* Every set of naturals that is not empty has its minimum.
LEMMA MinNatural ==
    ASSUME NEW T, T \subseteq Nat, T # {}
    PROVE  Min(T) \in T
<1>1. PICK x \in T : \A y \in T : <<y, x>> \notin OpToRel(<, Nat)
  BY NatLessThanWellFounded, WFMin
<1>2. \A y \in T : ~(y < x)
  BY <1>1 DEF OpToRel
<1>3. \A y \in T : x <= y
  BY <1>2
<1>. QED
  BY <1>3 DEF Min

\* A request that is let through failed none of the checks.
LEMMA NoFailure ==
    ASSUME NEW checks, NEW k \in Nat, DOMAIN checks = 1 .. k, \A n \in 1 .. k : checks[n][2] # "Ok",
           FirstFailure(checks) = "Ok"
    PROVE  \A n \in 1 .. k : ~checks[n][1]
<1>. DEFINE failed == {n \in DOMAIN checks : checks[n][1]}
<1>1. failed \subseteq Nat
  OBVIOUS
<1>2. failed # {} => Min(failed) \in failed
  BY <1>1, MinNatural
<1>3. failed = {}
  BY <1>2 DEF FirstFailure
<1>. QED BY <1>3

\* The verdict of a list of checks is the code of one of them, or Ok.
LEMMA SomeCode ==
    ASSUME NEW checks, NEW k \in Nat, DOMAIN checks = 1 .. k, \A n \in 1 .. k : checks[n][2] \in ErrorCode
    PROVE  FirstFailure(checks) \in ErrorCode \cup {"Ok"}
<1>. DEFINE failed == {n \in DOMAIN checks : checks[n][1]}
<1>1. failed # {} => Min(failed) \in failed
  <2>1. failed \subseteq Nat
    OBVIOUS
  <2>. QED BY <2>1, MinNatural
<1>. QED BY <1>1 DEF FirstFailure

\* Every exchange past its checks has a marker its upstream accepts.
LEMMA Admission ==
    ASSUME NEW u, NEW r
    PROVE  /\ CheckRequest(u, r) = "Ok" => ~RefusesHop(u, r)
           /\ CheckUpgrade(u, r) = "Ok" => ~RefusesHop(u, r)
<1>1. ASSUME CheckRequest(u, r) = "Ok" PROVE ~RefusesHop(u, r)
  <2>. DEFINE checks == << <<RefusesHop(u, r), "ProxyLoop">>,
                    <<RefusesPath(u, r), "InvalidRequest">>,
                    <<r.upgrade # "none", "UnsupportedTransport">>,
                    <<r.method # "POST", "InvalidRequest">>,
                    <<r.declared = "large", "RequestTooLarge">>,
                    <<RefusesMetadata(u, r), "SensitiveMetadata">> >>
  <2>1. FirstFailure(checks) = "Ok"
    BY <1>1 DEF CheckRequest
  <2>2. DOMAIN checks = 1 .. 6 /\ \A n \in 1 .. 6 : checks[n][2] # "Ok"
    OBVIOUS
  <2>3. RefusesHop(u, r) => checks[1][1]
    OBVIOUS
  <2>. HIDE DEF checks
  <2>4. \A n \in 1 .. 6 : ~checks[n][1]
    BY <2>1, <2>2, 6 \in Nat, NoFailure
  <2>. QED BY <2>3, <2>4
<1>2. ASSUME CheckUpgrade(u, r) = "Ok" PROVE ~RefusesHop(u, r)
  <2>. DEFINE checks == << <<RefusesHop(u, r), "ProxyLoop">>,
                    <<\/ u.provider # "OpenAi" \/ r.path # "responses"
                      \/ r.method # "GET" \/ r.query # "none", "UnsupportedTransport">>,
                    <<RefusesMetadata(u, r), "SensitiveMetadata">>,
                    <<r.upgrade = "malformed", "UnsupportedTransport">> >>
  <2>1. FirstFailure(checks) = "Ok"
    BY <1>2 DEF CheckUpgrade
  <2>2. DOMAIN checks = 1 .. 4 /\ \A n \in 1 .. 4 : checks[n][2] # "Ok"
    OBVIOUS
  <2>3. RefusesHop(u, r) => checks[1][1]
    OBVIOUS
  <2>. HIDE DEF checks
  <2>4. \A n \in 1 .. 4 : ~checks[n][1]
    BY <2>1, <2>2, 4 \in Nat, NoFailure
  <2>. QED BY <2>3, <2>4
<1>. QED BY <1>1, <1>2

\* The checks give an error code or let the request through.
LEMMA CheckedCode ==
    ASSUME NEW u, NEW r
    PROVE  /\ CheckRequest(u, r) \in ErrorCode \cup {"Ok"}
           /\ CheckUpgrade(u, r) \in ErrorCode \cup {"Ok"}
<1>1. CheckRequest(u, r) \in ErrorCode \cup {"Ok"}
  <2>. DEFINE checks == << <<RefusesHop(u, r), "ProxyLoop">>,
                    <<RefusesPath(u, r), "InvalidRequest">>,
                    <<r.upgrade # "none", "UnsupportedTransport">>,
                    <<r.method # "POST", "InvalidRequest">>,
                    <<r.declared = "large", "RequestTooLarge">>,
                    <<RefusesMetadata(u, r), "SensitiveMetadata">> >>
  <2>1. DOMAIN checks = 1 .. 6 /\ \A n \in 1 .. 6 : checks[n][2] \in ErrorCode
    BY DEF ErrorCode
  <2>2. CheckRequest(u, r) = FirstFailure(checks)
    BY DEF CheckRequest
  <2>. HIDE DEF checks
  <2>. QED BY <2>1, <2>2, 6 \in Nat, SomeCode
<1>2. CheckUpgrade(u, r) \in ErrorCode \cup {"Ok"}
  <2>. DEFINE checks == << <<RefusesHop(u, r), "ProxyLoop">>,
                    <<\/ u.provider # "OpenAi" \/ r.path # "responses"
                      \/ r.method # "GET" \/ r.query # "none", "UnsupportedTransport">>,
                    <<RefusesMetadata(u, r), "SensitiveMetadata">>,
                    <<r.upgrade = "malformed", "UnsupportedTransport">> >>
  <2>1. DOMAIN checks = 1 .. 4 /\ \A n \in 1 .. 4 : checks[n][2] \in ErrorCode
    BY DEF ErrorCode
  <2>2. CheckUpgrade(u, r) = FirstFailure(checks)
    BY DEF CheckUpgrade
  <2>. HIDE DEF checks
  <2>. QED BY <2>1, <2>2, 4 \in Nat, SomeCode
<1>. QED BY <1>1, <1>2

-----------------------------------------------------------------------------
(* The invariant *)

Record == [coverage : {"Protected", "Degraded", "Unprotected"},
           outcome : {"Succeeded", "TimedOut", "Failed", "Rejected"},
           issue : Issue \cup {None}]

ProxyType ==
    /\ st \in [Exch -> States]
    /\ req \in [Exch -> Request \cup {None}]
    /\ resp \in [Exch -> Response \cup {None}]
    /\ depth \in [Exch -> Nat]
    /\ trace \in [Exch -> RequestTrace]
    /\ sent \in [Exch -> Text \cup {None}]
    /\ released \in [Exch -> Text \cup {None}]
    /\ frames \in [Exch -> Nat]
    /\ records \in [Exch -> Seq(Record)]

\* The exchange passed its checks.
Admitted(r, d) ==
    /\ r \in Request /\ r.upstream \in DOMAIN Upstream
    /\ d = 1 + r.hop
    /\ ~RefusesHop(Upstream[r.upstream], r)

\* A record tells what was sent to the upstream and given to the client.
Truthful(rec, r, o, i) ==
    /\ rec.coverage = "Protected" => IsProbe(r) \/ (o # None /\ i # None)
    /\ rec.coverage = "Degraded" => Inspected(r) /\ i = None
    /\ rec.coverage = "Unprotected" => o = None /\ i = None
    /\ rec.outcome = "Succeeded" <=> rec.coverage = "Protected"

\* One exchange in state s with its request, response, depth, trace, what it
\* sent and released, and its records.
ExchangeInv(s, r, p, d, t, o, i, e) ==
    /\ s \in {"idle", "reading", "connecting"} => t = NewTrace /\ o = None /\ i = None
    /\ s \in {"reading", "connecting", "sending", "waiting", "collecting", "bridge"} => Admitted(r, d)
    /\ s \in {"sending", "waiting", "collecting"} =>
          /\ t.request_after = 1 /\ t.response_after = 0 /\ t.issue = None
          /\ Inspected(r) /\ i = None
    /\ s = "sending" => o = None
    /\ s \in {"waiting", "collecting"} => o # None
    /\ s = "collecting" => p \in Response
    /\ o # None => Admitted(r, d) /\ Untouched(Upstream[r.upstream], o)
    /\ i # None => Admitted(r, d) /\ Untouched(Upstream[r.upstream], i)
    /\ IF s \in {"answered", "closed"} /\ Cardinality(t.observations) <= MaxReplacements
       THEN \E rec \in Record : e = <<rec>> /\ (s = "answered" => Truthful(rec, r, o, i))
       ELSE e = <<>>

Exchange(x) ==
    ExchangeInv(st[x], req[x], resp[x], depth[x], trace[x], sent[x], released[x], records[x])

ProxyInv == ProxyType /\ \A x \in Exch : Exchange(x)

\* A step of one exchange disturbs no other.
LEMMA OneExchange ==
    ASSUME ProxyInv, ProxyType', NEW x \in Exch, Exchange(x)',
           \A z \in Exch \ {x} :
              /\ st'[z] = st[z] /\ req'[z] = req[z] /\ resp'[z] = resp[z] /\ depth'[z] = depth[z]
              /\ trace'[z] = trace[z] /\ sent'[z] = sent[z] /\ released'[z] = released[z]
              /\ records'[z] = records[z]
    PROVE  ProxyInv'
<1>1. \A z \in Exch \ {x} : Exchange(z)'
  <2>. TAKE z \in Exch \ {x}
  <2>1. Exchange(z)
    BY DEF ProxyInv
  <2>. QED BY <2>1 DEF Exchange
<1>. QED BY <1>1 DEF ProxyInv

\* What a record says, by the trace and the error code it is made of.
LEMMA RecordTruth ==
    ASSUME NEW t \in RequestTrace, NEW code \in ErrorCode \cup {"Ok"}, NEW r, NEW o, NEW i,
           o # None => t.request_after > 0,
           t.request_after > 0 \/ t.response_after > 0 => Inspected(r),
           code = "Ok" => t.issue = None /\ (IsProbe(r) \/ (o # None /\ i # None)),
           code # "Ok" => i = None
    PROVE  RecordOf(t, code) \in Record /\ Truthful(RecordOf(t, code), r, o, i)
<1>. DEFINE rec == RecordOf(t, code)
<1>1. rec \in Record
  BY DEF RecordOf, Record, IssueFor, ErrorCode, Issue, RequestTrace
<1>2. rec.outcome = "Succeeded" <=> code = "Ok"
  BY DEF RecordOf
<1>3. rec.coverage = "Protected" <=> code = "Ok"
  <2>1. code # "Ok" => IssueFor(code, "Request") # None
    <3>1. code # "Ok" => IssueFor(code, "Request") \in Issue
      BY DEF IssueFor, ErrorCode, Issue
    <3>. QED BY <3>1, IssueAssumption
  <2>. QED BY <2>1 DEF RecordOf
<1>4. rec.coverage = "Unprotected" => code # "Ok" /\ ~(t.request_after > 0)
  BY <1>3 DEF RecordOf
<1>5. rec.coverage = "Degraded" => code # "Ok" /\ (t.request_after > 0 \/ t.response_after > 0)
  BY <1>3 DEF RecordOf
<1>. HIDE DEF rec
<1>6. Truthful(rec, r, o, i)
  BY <1>2, <1>3, <1>4, <1>5 DEF Truthful
<1>. QED BY <1>1, <1>6 DEF rec

\* Emit and the answer: the one record of an exchange that has none yet.
LEMMA Finishing ==
    ASSUME ProxyInv, NEW x \in Exch, st[x] \notin Ended,
           NEW t \in RequestTrace, NEW code \in ErrorCode \cup {"Ok"}, Finish(x, t, code),
           sent'[x] # None => Admitted(req'[x], depth'[x]) /\ Untouched(Upstream[req'[x].upstream], sent'[x]),
           released'[x] # None => Admitted(req'[x], depth'[x]) /\ Untouched(Upstream[req'[x].upstream], released'[x]),
           sent'[x] # None => t.request_after > 0,
           t.request_after > 0 \/ t.response_after > 0 => Inspected(req'[x]),
           code = "Ok" => t.issue = None /\ (IsProbe(req'[x]) \/ (sent'[x] # None /\ released'[x] # None)),
           code # "Ok" => released'[x] = None
    PROVE  /\ Exchange(x)'
           /\ st' \in [Exch -> States] /\ trace' \in [Exch -> RequestTrace]
           /\ records' \in [Exch -> Seq(Record)]
           /\ \A z \in Exch \ {x} : st'[z] = st[z] /\ trace'[z] = trace[z] /\ records'[z] = records[z]
<1>. DEFINE rec == RecordOf(t, code)
<1>1. rec \in Record /\ Truthful(rec, req'[x], sent'[x], released'[x])
  BY RecordTruth
<1>2. ProxyType /\ records[x] = <<>>
  BY DEF ProxyInv, Exchange, ExchangeInv, Ended
<1>3. /\ st' \in [Exch -> States] /\ trace' \in [Exch -> RequestTrace]
      /\ st'[x] = "answered" /\ trace'[x] = t
      /\ \A z \in Exch \ {x} : st'[z] = st[z] /\ trace'[z] = trace[z]
  BY <1>2 DEF Finish, ProxyType, States, Ended
<1>4. Append(records[x], rec) = <<rec>> /\ <<rec>> \in Seq(Record)
  BY <1>1, <1>2
<1>. HIDE DEF rec
<1>. DEFINE fits == Cardinality(t.observations) <= MaxReplacements
<1>5. records' = IF fits THEN [records EXCEPT ![x] = <<rec>>] ELSE records
  BY <1>4 DEF Finish, Emit, rec
<1>6. /\ records' \in [Exch -> Seq(Record)]
      /\ \A z \in Exch \ {x} : records'[z] = records[z]
      /\ records'[x] = IF fits THEN <<rec>> ELSE <<>>
  <2>. HIDE DEF fits
  <2>. QED BY <1>2, <1>4, <1>5 DEF ProxyType
<1>8. IF fits
      THEN \E q \in Record : records'[x] = <<q>> /\ Truthful(q, req'[x], sent'[x], released'[x])
      ELSE records'[x] = <<>>
  <2>. HIDE DEF fits
  <2>. QED BY <1>1, <1>6
<1>9. Exchange(x)'
  BY <1>3, <1>8 DEF Exchange, ExchangeInv
<1>. QED BY <1>3, <1>6, <1>9

\* The same for an exchange that sends and releases nothing as it ends.
LEMMA Ending ==
    ASSUME ProxyInv, NEW x \in Exch, st[x] \in {"reading", "connecting", "sending", "waiting", "collecting"},
           NEW t \in RequestTrace, NEW code \in ErrorCode, Finish(x, t, code),
           t.request_after = trace[x].request_after, t.response_after = trace[x].response_after,
           UNCHANGED <<req, resp, depth, sent, released, frames>>
    PROVE  ProxyInv'
<1>1. ProxyType /\ Exchange(x)
  BY DEF ProxyInv
<1>2. /\ sent'[x] # None => Admitted(req'[x], depth'[x]) /\ Untouched(Upstream[req'[x].upstream], sent'[x])
      /\ sent'[x] # None => t.request_after > 0
      /\ t.request_after > 0 \/ t.response_after > 0 => Inspected(req'[x])
      /\ released'[x] = None
  BY <1>1 DEF Exchange, ExchangeInv, NewTrace
<1>3. code # "Ok"
  BY DEF ErrorCode
<1>4. st[x] \notin Ended
  BY DEF Ended
<1>5. /\ Exchange(x)'
      /\ st' \in [Exch -> States] /\ trace' \in [Exch -> RequestTrace] /\ records' \in [Exch -> Seq(Record)]
      /\ \A z \in Exch \ {x} : st'[z] = st[z] /\ trace'[z] = trace[z] /\ records'[z] = records[z]
  BY <1>2, <1>3, <1>4, Finishing
<1>6. ProxyType'
  BY <1>1, <1>5 DEF ProxyType
<1>. QED BY <1>5, <1>6, OneExchange

\* A trace with a new count and more observations is a trace.
Asked(t, m, n) == [t EXCEPT !.request_after = m, !.observations = @ \cup n]
Answered(t, m, n) == [t EXCEPT !.response_after = m, !.observations = @ \cup n]

LEMMA Counted ==
    ASSUME NEW t \in RequestTrace, NEW m \in Nat, NEW n \in SUBSET (Taint \X Nat)
    PROVE  /\ Asked(t, m, n) \in RequestTrace
           /\ Asked(t, m, n).request_after = m
           /\ Asked(t, m, n).response_after = t.response_after
           /\ Asked(t, m, n).issue = t.issue
           /\ Answered(t, m, n) \in RequestTrace
           /\ Answered(t, m, n).response_after = m
           /\ Answered(t, m, n).request_after = t.request_after
           /\ Answered(t, m, n).issue = t.issue
<1>. DEFINE all == t.observations \cup n
<1>1. all \in SUBSET (Taint \X Nat)
  BY DEF RequestTrace
<1>2. /\ Asked(t, m, n) = [t EXCEPT !.request_after = m, !.observations = all]
      /\ Answered(t, m, n) = [t EXCEPT !.response_after = m, !.observations = all]
  BY DEF Asked, Answered
<1>. HIDE DEF all
<1>. QED BY <1>1, <1>2 DEF RequestTrace

-----------------------------------------------------------------------------
(* The steps *)

\* The router takes a request to an exchange that is idle.
LEMMA AcceptStep ==
    ASSUME ProxyInv, NEW x \in Exch, NEW r \in Request, NEW d \in Nat, d = 1 + r.hop, Accept(x, r, d)
    PROVE  ProxyInv'
<1>1. ProxyType /\ Exchange(x) /\ st[x] = "idle"
  BY DEF ProxyInv, Accept, AcceptUnknown, AcceptProbe, AcceptUpgrade, AcceptRequest, Arrive
<1>2. /\ req' = [req EXCEPT ![x] = r] /\ depth' = [depth EXCEPT ![x] = d]
      /\ UNCHANGED <<resp, sent, released, frames>>
  BY DEF Accept, AcceptUnknown, AcceptProbe, AcceptUpgrade, AcceptRequest, Arrive
<1>3. /\ req' \in [Exch -> Request \cup {None}] /\ req'[x] = r /\ \A z \in Exch \ {x} : req'[z] = req[z]
      /\ depth' \in [Exch -> Nat] /\ depth'[x] = d /\ \A z \in Exch \ {x} : depth'[z] = depth[z]
  BY <1>1, <1>2 DEF ProxyType
<1>4. trace[x] = NewTrace /\ sent[x] = None /\ released[x] = None /\ records[x] = <<>>
  BY <1>1 DEF Exchange, ExchangeInv
<1>5. NewTrace \in RequestTrace
  BY DEF NewTrace, RequestTrace
<1>6. ASSUME NEW code \in ErrorCode \cup {"Ok"}, Finish(x, NewTrace, code),
             code = "Ok" => IsProbe(r)
      PROVE  ProxyInv'
  <2>1. /\ sent'[x] = None /\ released'[x] = None /\ req'[x] = r
        /\ NewTrace.request_after = 0 /\ NewTrace.response_after = 0 /\ NewTrace.issue = None
        /\ st[x] \notin Ended
    BY <1>1, <1>2, <1>3, <1>4 DEF NewTrace, Ended
  <2>2. /\ Exchange(x)'
        /\ st' \in [Exch -> States] /\ trace' \in [Exch -> RequestTrace]
        /\ records' \in [Exch -> Seq(Record)]
        /\ \A z \in Exch \ {x} : st'[z] = st[z] /\ trace'[z] = trace[z] /\ records'[z] = records[z]
    BY <1>5, <1>6, <2>1, Finishing
  <2>3. ProxyType'
    BY <1>1, <1>2, <1>3, <2>2 DEF ProxyType
  <2>. QED BY <1>2, <1>3, <2>2, <2>3, OneExchange
<1>7. ASSUME NEW s \in {"connecting", "reading"}, st' = [st EXCEPT ![x] = s], UNCHANGED <<trace, records>>,
             r.upstream # None, ~RefusesHop(Upstream[r.upstream], r)
      PROVE  ProxyInv'
  <2>1. Admitted(r, d)
    BY <1>7 DEF Admitted, Request
  <2>2. st' \in [Exch -> States] /\ st'[x] = s /\ \A z \in Exch \ {x} : st'[z] = st[z]
    BY <1>1, <1>7 DEF ProxyType, States, InForward
  <2>3. Exchange(x)'
    BY <1>2, <1>3, <1>4, <1>7, <2>1, <2>2 DEF Exchange, ExchangeInv
  <2>4. ProxyType'
    BY <1>1, <1>2, <1>3, <1>7, <2>2 DEF ProxyType
  <2>. QED BY <1>2, <1>3, <1>7, <2>2, <2>3, <2>4, OneExchange
<1>8. CASE AcceptUnknown(x, r, d)
  BY <1>6, <1>8 DEF AcceptUnknown, ErrorCode
<1>9. CASE AcceptProbe(x, r, d)
  BY <1>6, <1>9 DEF AcceptProbe
<1>10. CASE AcceptUpgrade(x, r, d)
  <2>. DEFINE code == CheckUpgrade(Upstream[r.upstream], r)
  <2>1. CASE code = "Ok"
    BY <1>7, <1>10, <2>1, Admission DEF AcceptUpgrade
  <2>2. CASE code # "Ok"
    BY <1>6, <1>10, <2>2, CheckedCode DEF AcceptUpgrade
  <2>. QED BY <2>1, <2>2
<1>11. CASE AcceptRequest(x, r, d)
  <2>. DEFINE code == CheckRequest(Upstream[r.upstream], r)
  <2>1. CASE code = "Ok"
    BY <1>7, <1>11, <2>1, Admission DEF AcceptRequest
  <2>2. CASE code # "Ok"
    BY <1>6, <1>11, <2>2, CheckedCode DEF AcceptRequest
  <2>. QED BY <2>1, <2>2
<1>. QED BY <1>8, <1>9, <1>10, <1>11 DEF Accept

\* The body of the request is inspected, or the exchange ends.
LEMMA ReadBodyStep ==
    ASSUME ProxyInv, NEW x \in Exch, ReadBody(x)
    PROVE  ProxyInv'
<1>. DEFINE r == req[x]
            u == Upstream[r.upstream]
            safe == SanitizeBody(u, "Request", r.path, r.type, r.body)
<1>1. /\ ProxyType /\ Exchange(x) /\ st[x] = "reading"
      /\ UNCHANGED <<req, resp, depth, sent, released, frames>>
  BY DEF ProxyInv, ReadBody
<1>2. /\ trace[x] = NewTrace /\ sent[x] = None /\ released[x] = None /\ records[x] = <<>>
      /\ Admitted(r, depth[x]) /\ trace[x] \in RequestTrace
  BY <1>1 DEF Exchange, ExchangeInv, ProxyType
<1>3. r.body \in Seq(Part)
  BY <1>2 DEF Admitted, Request
<1>4. safe.code \in ErrorCode \cup {"Ok"} /\ Observed(u, r.body) \in SUBSET (Taint \X Nat)
  BY <1>3, SanitizedBody, ObservedType
<1>5. CASE safe.code = "Ok"
  <2>. DEFINE t == [trace[x] EXCEPT !.request_after = 1, !.observations = @ \cup Observed(u, r.body)]
  <2>1. Inspected(r)
    BY <1>5 DEF Inspected
  <2>2. /\ st' = [st EXCEPT ![x] = "sending"]
        /\ trace' = [trace EXCEPT ![x] = t] /\ UNCHANGED records
    BY <1>1, <1>5 DEF ReadBody, ProxyType
  <2>3. t \in RequestTrace /\ t.request_after = 1 /\ t.response_after = 0 /\ t.issue = None
    <3>1. trace[x].response_after = 0 /\ trace[x].issue = None
      BY <1>2 DEF NewTrace
    <3>. DEFINE n == Observed(u, r.body)
    <3>2. n \in SUBSET (Taint \X Nat) /\ 1 \in Nat /\ trace[x] \in RequestTrace
      BY <1>2, <1>4
    <3>3. t = Asked(trace[x], 1, n)
      BY DEF Asked
    <3>. HIDE DEF n, t, safe
    <3>. QED BY <3>1, <3>2, <3>3, Counted
  <2>. HIDE DEF t, safe
  <2>4. /\ st' \in [Exch -> States] /\ st'[x] = "sending" /\ \A z \in Exch \ {x} : st'[z] = st[z]
        /\ trace' \in [Exch -> RequestTrace] /\ trace'[x] = t /\ \A z \in Exch \ {x} : trace'[z] = trace[z]
    BY <1>1, <2>2, <2>3 DEF ProxyType, States, InForward
  <2>5. Exchange(x)'
    BY <1>1, <1>2, <2>1, <2>2, <2>3, <2>4 DEF Exchange, ExchangeInv
  <2>6. ProxyType'
    BY <1>1, <2>2, <2>4 DEF ProxyType
  <2>. QED BY <1>1, <2>2, <2>4, <2>5, <2>6, OneExchange
<1>6. CASE safe.code # "Ok"
  <2>. DEFINE t == [trace[x] EXCEPT !.issue = IssueFor(safe.code, "Request")]
  <2>1. Finish(x, t, safe.code)
    BY <1>6 DEF ReadBody
  <2>2. IssueFor(safe.code, "Request") \in Issue
    BY <1>4, <1>6 DEF IssueFor, ErrorCode, Issue
  <2>. HIDE DEF safe
  <2>3. t \in RequestTrace /\ t.request_after = trace[x].request_after /\ t.response_after = trace[x].response_after
    BY <1>1, <2>2 DEF ProxyType, RequestTrace
  <2>. QED BY <1>1, <1>4, <1>6, <2>1, <2>3, Ending
<1>. QED BY <1>5, <1>6

\* What was inspected goes out sanitized.
LEMMA SendStep ==
    ASSUME ProxyInv, NEW x \in Exch, Send(x)
    PROVE  ProxyInv'
<1>. DEFINE r == req[x]
            u == Upstream[r.upstream]
            safe == SanitizeBody(u, "Request", r.path, r.type, r.body)
            text == Content(safe.parts)
<1>1. /\ ProxyType /\ Exchange(x) /\ st[x] = "sending"
      /\ st' = [st EXCEPT ![x] = "waiting"] /\ sent' = [sent EXCEPT ![x] = text]
      /\ UNCHANGED <<req, resp, depth, trace, released, frames, records>>
  BY DEF ProxyInv, Send
<1>2. Admitted(r, depth[x]) /\ safe.code = "Ok"
  BY <1>1 DEF Exchange, ExchangeInv, Inspected
<1>3. r.body \in Seq(Part)
  BY <1>2 DEF Admitted, Request
<1>4. text \in Text /\ Untouched(u, text)
  BY <1>2, <1>3, SanitizedBody
<1>5. text # None
  BY <1>4, ProxyAssumption
<1>. HIDE DEF text, safe
<1>6. /\ st' \in [Exch -> States] /\ st'[x] = "waiting" /\ \A z \in Exch \ {x} : st'[z] = st[z]
      /\ sent' \in [Exch -> Text \cup {None}] /\ sent'[x] = text /\ \A z \in Exch \ {x} : sent'[z] = sent[z]
  BY <1>1, <1>4 DEF ProxyType, States, InForward
<1>7. Exchange(x)'
  BY <1>1, <1>2, <1>4, <1>5, <1>6 DEF Exchange, ExchangeInv
<1>8. ProxyType'
  BY <1>1, <1>6 DEF ProxyType
<1>. QED BY <1>1, <1>6, <1>7, <1>8, OneExchange

\* The headers of the answer arrive, or announce too much.
LEMMA RespondStep ==
    ASSUME ProxyInv, NEW x \in Exch, NEW s \in Responses, Respond(x, s)
    PROVE  ProxyInv'
<1>1. /\ ProxyType /\ Exchange(x) /\ st[x] = "waiting"
      /\ UNCHANGED <<req, depth, sent, released, frames>>
  BY DEF ProxyInv, Respond
<1>2. CASE s.declared = "large"
  <2>1. Finish(x, trace[x], "ResponseTooLarge") /\ UNCHANGED resp
    BY <1>2 DEF Respond
  <2>2. trace[x] \in RequestTrace /\ "ResponseTooLarge" \in ErrorCode
    BY <1>1 DEF ProxyType, ErrorCode
  <2>. QED BY <1>1, <2>1, <2>2, Ending
<1>3. CASE s.declared # "large"
  <2>1. st' = [st EXCEPT ![x] = "collecting"] /\ resp' = [resp EXCEPT ![x] = s] /\ UNCHANGED <<trace, records>>
    BY <1>3 DEF Respond
  <2>2. s \in Response
    BY ProxyAssumption
  <2>3. /\ st' \in [Exch -> States] /\ st'[x] = "collecting" /\ \A z \in Exch \ {x} : st'[z] = st[z]
        /\ resp' \in [Exch -> Response \cup {None}] /\ resp'[x] = s /\ \A z \in Exch \ {x} : resp'[z] = resp[z]
    BY <1>1, <2>1, <2>2 DEF ProxyType, States, InForward
  <2>4. Exchange(x)'
    BY <1>1, <2>1, <2>2, <2>3 DEF Exchange, ExchangeInv
  <2>5. ProxyType'
    BY <1>1, <2>1, <2>3 DEF ProxyType
  <2>. QED BY <1>1, <2>1, <2>3, <2>4, <2>5, OneExchange
<1>. QED BY <1>2, <1>3

\* The collected answer is released sanitized, or not at all.
LEMMA CollectStep ==
    ASSUME ProxyInv, NEW x \in Exch, Collect(x)
    PROVE  ProxyInv'
<1>. DEFINE u == Upstream[req[x].upstream]
            s == resp[x]
            safe == SanitizeBody(u, "Response", req[x].path, s.type, s.body)
<1>1. /\ ProxyType /\ Exchange(x) /\ st[x] = "collecting"
      /\ UNCHANGED <<req, resp, depth, sent, frames>>
  BY DEF ProxyInv, Collect
<1>2. /\ trace[x].request_after = 1 /\ trace[x].issue = None /\ sent[x] # None /\ Inspected(req[x])
      /\ Untouched(u, sent[x]) /\ Admitted(req[x], depth[x]) /\ s \in Response
  BY <1>1 DEF Exchange, ExchangeInv
<1>3. s.body \in Seq(Part)
  BY <1>2 DEF Response
<1>4. safe.code \in ErrorCode \cup {"Ok"} /\ Observed(u, s.body) \in SUBSET (Taint \X Nat)
  BY <1>3, SanitizedBody, ObservedType
<1>5. CASE s.large
  <2>1. Finish(x, trace[x], "ResponseTooLarge") /\ UNCHANGED released
    BY <1>5 DEF Collect
  <2>2. trace[x] \in RequestTrace /\ "ResponseTooLarge" \in ErrorCode
    BY <1>1 DEF ProxyType, ErrorCode
  <2>. QED BY <1>1, <2>1, <2>2, Ending
<1>6. CASE ~s.large /\ safe.code # "Ok"
  <2>. DEFINE t == [trace[x] EXCEPT !.issue = IssueFor(safe.code, "Response")]
  <2>1. Finish(x, t, safe.code) /\ UNCHANGED released
    BY <1>6 DEF Collect
  <2>2. IssueFor(safe.code, "Response") \in Issue
    BY <1>4, <1>6 DEF IssueFor, ErrorCode, Issue
  <2>. HIDE DEF safe
  <2>3. t \in RequestTrace /\ t.request_after = trace[x].request_after /\ t.response_after = trace[x].response_after
    BY <1>1, <2>2 DEF ProxyType, RequestTrace
  <2>. QED BY <1>1, <1>4, <1>6, <2>1, <2>3, Ending
<1>7. CASE ~s.large /\ safe.code = "Ok"
  <2>. DEFINE text == Content(safe.parts)
              t == [trace[x] EXCEPT !.response_after = Cardinality(DOMAIN safe.parts),
                                    !.observations = @ \cup Observed(u, s.body)]
  <2>1. text \in Text /\ Untouched(u, text) /\ Cardinality(DOMAIN safe.parts) \in Nat
    BY <1>3, <1>7, SanitizedBody
  <2>2. Finish(x, t, "Ok") /\ released' = [released EXCEPT ![x] = text]
    BY <1>7 DEF Collect
  <2>3. t \in RequestTrace /\ t.request_after > 0 /\ t.issue = None
    <3>1. trace[x] \in RequestTrace /\ trace[x].request_after = 1 /\ trace[x].issue = None
      BY <1>1, <1>2 DEF ProxyType
    <3>2. t \in RequestTrace /\ t.request_after = 1 /\ t.issue = None
      <4>. DEFINE m == Cardinality(DOMAIN safe.parts)
                  n == Observed(u, s.body)
      <4>1. n \in SUBSET (Taint \X Nat) /\ m \in Nat
        BY <1>4, <2>1
      <4>2. t = Answered(trace[x], m, n)
        BY DEF Answered
      <4>. HIDE DEF m, n, t, safe
      <4>. QED BY <3>1, <4>1, <4>2, Counted
    <3>. QED BY <3>2
  <2>. HIDE DEF t, text, safe
  <2>4. released' \in [Exch -> Text \cup {None}] /\ released'[x] = text /\ \A z \in Exch \ {x} : released'[z] = released[z]
    BY <1>1, <2>1, <2>2 DEF ProxyType
  <2>5. text # None
    BY <2>1, ProxyAssumption
  <2>6. /\ Exchange(x)'
        /\ st' \in [Exch -> States] /\ trace' \in [Exch -> RequestTrace] /\ records' \in [Exch -> Seq(Record)]
        /\ \A z \in Exch \ {x} : st'[z] = st[z] /\ trace'[z] = trace[z] /\ records'[z] = records[z]
    <3>1. st[x] \notin Ended
      BY <1>1 DEF Ended
    <3>. QED BY <1>1, <1>2, <2>1, <2>2, <2>3, <2>4, <2>5, <3>1, Finishing
  <2>7. ProxyType'
    BY <1>1, <2>4, <2>6 DEF ProxyType
  <2>. QED BY <1>1, <2>4, <2>6, <2>7, OneExchange
<1>. QED BY <1>5, <1>6, <1>7

\* The ends of an exchange that neither send nor release anything.
LEMMA EndSteps ==
    ASSUME ProxyInv, NEW x \in Exch,
           ReadFails(x) \/ UpstreamFails(x) \/ Timeout(x) \/ ConnectFails(x)
    PROVE  ProxyInv'
<1>1. ProxyType
  BY DEF ProxyInv
<1>2. trace[x] \in RequestTrace /\ {"RequestTooLarge", "UpstreamFailure", "Timeout"} \subseteq ErrorCode
  BY <1>1 DEF ProxyType, ErrorCode
<1>3. CASE ReadFails(x)
  BY <1>2, <1>3, Ending DEF ReadFails
<1>4. CASE UpstreamFails(x)
  BY <1>2, <1>4, Ending DEF UpstreamFails
<1>5. CASE ConnectFails(x)
  BY <1>2, <1>5, Ending DEF ConnectFails
<1>6. CASE Timeout(x)
  <2>. DEFINE t == [trace[x] EXCEPT !.issue = "Timeout"]
  <2>1. t \in RequestTrace /\ t.request_after = trace[x].request_after /\ t.response_after = trace[x].response_after
    BY <1>2 DEF RequestTrace, Issue
  <2>2. Finish(x, t, "Timeout") /\ UNCHANGED <<req, resp, depth, sent, released, frames>> /\ st[x] \in InForward
    BY <1>6 DEF Timeout
  <2>. HIDE DEF t
  <2>. QED BY <1>2, <2>1, <2>2, Ending DEF InForward
<1>. QED BY <1>3, <1>4, <1>5, <1>6

\* The client goes away, or the handshake ends: no record.
LEMMA QuietSteps ==
    ASSUME ProxyInv, NEW x \in Exch, Disconnect(x) \/ UpgradeFails(x) \/ Connected(x)
    PROVE  ProxyInv'
<1>1. ProxyType /\ Exchange(x)
  BY DEF ProxyInv
<1>2. PICK s \in {"dropped", "bridge"} :
        /\ st' = [st EXCEPT ![x] = s] /\ st[x] \in {"reading", "sending", "waiting", "collecting", "connecting", "bridge"}
        /\ UNCHANGED <<req, resp, depth, trace, sent, released, frames, records>>
  BY DEF Disconnect, UpgradeFails, Connected, InForward
<1>3. st' \in [Exch -> States] /\ st'[x] = s /\ \A z \in Exch \ {x} : st'[z] = st[z]
  BY <1>1, <1>2 DEF ProxyType, States, Ended
<1>4. ProxyType'
  BY <1>1, <1>2, <1>3 DEF ProxyType
<1>5. Exchange(x)'
  BY <1>1, <1>2, <1>3 DEF Exchange, ExchangeInv
<1>. QED BY <1>2, <1>3, <1>4, <1>5, OneExchange

\* The bridge relays a message that passes, sanitized, or drops it with the bridge.
LEMMA RelayStep ==
    ASSUME ProxyInv, NEW x \in Exch, NEW f \in Frames, NEW toUpstream \in BOOLEAN, Relay(x, f, toUpstream)
    PROVE  ProxyInv'
<1>. DEFINE u == Upstream[req[x].upstream]
            parts == IF f.kind = "text" THEN f.body ELSE <<>>
            safe == SanitizeParts(u, FALSE, parts)
            text == Content(safe)
            seen(was) == IF was = None THEN text ELSE was \cup text
            obs == Observed(u, parts)
            len == Cardinality(DOMAIN safe)
            asked == [trace[x] EXCEPT !.request_after = @ + len, !.observations = @ \cup obs]
            answered == [trace[x] EXCEPT !.response_after = @ + len, !.observations = @ \cup obs]
<1>1. /\ ProxyType /\ Exchange(x) /\ st[x] = "bridge"
      /\ frames' = [frames EXCEPT ![x] = @ + 1] /\ Passes(u, f)
      /\ UNCHANGED <<st, req, resp, depth, records>>
  BY DEF ProxyInv, Relay
<1>2. parts \in Seq(Part)
  <2>1. f \in Frame /\ <<>> \in Seq(Part)
    BY ProxyAssumption
  <2>. QED BY <2>1 DEF Frame
<1>3. text \in Text /\ Untouched(u, text) /\ len \in Nat /\ obs \in SUBSET (Taint \X Nat)
  <2>1. obs \in SUBSET (Taint \X Nat)
    BY <1>2, ObservedType
  <2>2. CASE f.kind = "text"
    <3>1. safe # None
      BY <1>1, <2>2 DEF Passes
    <3>. QED BY <1>2, <2>1, <3>1, SanitizedParts
  <2>3. CASE f.kind # "text"
    <3>1. parts = <<>> /\ DOMAIN parts = {}
      BY <2>3
    <3>2. safe = [n \in {} |-> [parts[n] EXCEPT !.text = Sanitize(u, @)]]
      BY <3>1 DEF SanitizeParts
    <3>3. DOMAIN safe = {} /\ text = {}
      BY <3>2 DEF Content
    <3>. HIDE DEF safe, text
    <3>. QED BY <2>1, <3>3, FS_EmptySet DEF Text, Untouched, Sanitize
  <2>. QED BY <2>2, <2>3
<1>4. /\ toUpstream => /\ sent' = [sent EXCEPT ![x] = seen(sent[x])] /\ released' = released
                       /\ trace' = [trace EXCEPT ![x] = asked]
      /\ ~toUpstream => /\ released' = [released EXCEPT ![x] = seen(released[x])] /\ sent' = sent
                        /\ trace' = [trace EXCEPT ![x] = answered]
  BY <1>1 DEF Relay, ProxyType
<1>5. /\ trace[x] \in RequestTrace /\ frames[x] \in Nat
      /\ trace[x].request_after \in Nat /\ trace[x].response_after \in Nat
  BY <1>1 DEF ProxyType, RequestTrace
<1>. HIDE DEF parts, safe, text, obs, len
<1>6. asked \in RequestTrace /\ answered \in RequestTrace
  <2>1. trace[x].request_after + len \in Nat /\ trace[x].response_after + len \in Nat
    BY <1>3, <1>5
  <2>2. /\ asked = Asked(trace[x], trace[x].request_after + len, obs)
        /\ answered = Answered(trace[x], trace[x].response_after + len, obs)
    BY DEF Asked, Answered
  <2>. HIDE DEF asked, answered
  <2>. QED BY <1>3, <1>5, <2>1, <2>2, Counted
<1>7. ASSUME NEW was \in Text \cup {None}, was # None => Untouched(u, was)
      PROVE  seen(was) \in Text /\ Untouched(u, seen(was)) /\ seen(was) # None
  <2>1. seen(was) \in Text
    BY <1>3 DEF Text
  <2>2. Untouched(u, seen(was))
    BY <1>3, <1>7 DEF Untouched, Sanitize
  <2>. QED BY <2>1, <2>2, ProxyAssumption
<1>8. /\ Admitted(req[x], depth[x]) /\ records[x] = <<>>
      /\ sent[x] \in Text \cup {None} /\ released[x] \in Text \cup {None}
      /\ sent[x] # None => Untouched(u, sent[x])
      /\ released[x] # None => Untouched(u, released[x])
  BY <1>1 DEF ProxyType, Exchange, ExchangeInv
<1>. HIDE DEF seen
<1>9. /\ seen(sent[x]) \in Text /\ Untouched(u, seen(sent[x]))
      /\ seen(released[x]) \in Text /\ Untouched(u, seen(released[x]))
  BY <1>7, <1>8
<1>. DEFINE o == seen(sent[x])
            i == seen(released[x])
<1>. HIDE DEF o, i, asked, answered
<1>10. ProxyType'
  <2>1. frames' \in [Exch -> Nat]
    BY <1>1 DEF ProxyType
  <2>2. sent' \in [Exch -> Text \cup {None}] /\ released' \in [Exch -> Text \cup {None}] /\ trace' \in [Exch -> RequestTrace]
    <3>1. CASE toUpstream
      BY <1>1, <1>4, <1>6, <1>9, <3>1 DEF ProxyType, o, i
    <3>2. CASE ~toUpstream
      BY <1>1, <1>4, <1>6, <1>9, <3>2 DEF ProxyType, o, i
    <3>. QED BY <3>1, <3>2
  <2>. QED BY <1>1, <2>1, <2>2 DEF ProxyType
<1>11. Exchange(x)'
  <2>1. st'[x] = "bridge" /\ req'[x] = req[x] /\ depth'[x] = depth[x] /\ records'[x] = <<>>
    BY <1>1, <1>8
  <2>2. sent'[x] \in {sent[x], seen(sent[x])} /\ released'[x] \in {released[x], seen(released[x])}
    BY <1>1, <1>4 DEF ProxyType
  <2>3. /\ sent'[x] # None => Untouched(u, sent'[x])
        /\ released'[x] # None => Untouched(u, released'[x])
    BY <1>8, <1>9, <2>2
  <2>. QED BY <1>8, <2>1, <2>3 DEF Exchange, ExchangeInv
<1>12. \A z \in Exch \ {x} : trace'[z] = trace[z] /\ sent'[z] = sent[z] /\ released'[z] = released[z]
  BY <1>1, <1>4 DEF ProxyType
<1>. QED BY <1>1, <1>10, <1>11, <1>12, OneExchange

\* The bridge ends with its one record.
LEMMA BridgeEndsStep ==
    ASSUME ProxyInv, NEW x \in Exch, BridgeEnds(x)
    PROVE  ProxyInv'
<1>. DEFINE rec == RecordOf(trace[x], "Ok")
<1>1. /\ ProxyType /\ Exchange(x) /\ st[x] = "bridge"
      /\ st' = [st EXCEPT ![x] = "closed"] /\ Emit(x, trace[x], "Ok")
      /\ UNCHANGED <<req, resp, depth, trace, sent, released, frames>>
  BY DEF ProxyInv, BridgeEnds
<1>2. trace[x] \in RequestTrace /\ records[x] = <<>>
  BY <1>1 DEF ProxyType, Exchange, ExchangeInv
<1>3. rec \in Record
  BY <1>2 DEF RecordOf, Record, RequestTrace
<1>. HIDE DEF rec
<1>4. Append(records[x], rec) = <<rec>> /\ <<rec>> \in Seq(Record)
  BY <1>2, <1>3
<1>. DEFINE fits == Cardinality(trace[x].observations) <= MaxReplacements
<1>5. records' = IF fits THEN [records EXCEPT ![x] = <<rec>>] ELSE records
  BY <1>1, <1>4 DEF Emit, rec
<1>6. /\ records' \in [Exch -> Seq(Record)]
      /\ \A z \in Exch \ {x} : records'[z] = records[z]
      /\ records'[x] = IF fits THEN <<rec>> ELSE <<>>
      /\ st' \in [Exch -> States] /\ st'[x] = "closed" /\ \A z \in Exch \ {x} : st'[z] = st[z]
  <2>. HIDE DEF fits
  <2>. QED BY <1>1, <1>2, <1>4, <1>5 DEF ProxyType, States, Ended
<1>8. IF Cardinality(trace'[x].observations) <= MaxReplacements
      THEN \E q \in Record : records'[x] = <<q>>
      ELSE records'[x] = <<>>
  BY <1>1, <1>3, <1>6
<1>9. Exchange(x)'
  BY <1>1, <1>6, <1>8 DEF Exchange, ExchangeInv
<1>10. ProxyType'
  BY <1>1, <1>6 DEF ProxyType
<1>. QED BY <1>1, <1>6, <1>9, <1>10, OneExchange

\* A request that comes back carries the marker of its depth.
LEMMA LoopBackStep ==
    ASSUME ProxyInv, NEW x \in Exch, NEW y \in Exch, LoopBack(x, y)
    PROVE  ProxyInv'
<1>. DEFINE h == NextHop(req[x])
            b == Forwarded(x)
<1>1. ProxyType /\ Exchange(x) /\ st[x] \in {"waiting", "connecting"}
  BY DEF ProxyInv, LoopBack
<1>2. PICK v \in DOMAIN Upstream \cup {None} :
        Accept(y, [req[x] EXCEPT !.upstream = v, !.hop = h, !.body = b], depth[x] + 1)
  BY DEF LoopBack
<1>3. Admitted(req[x], depth[x])
  BY <1>1 DEF Exchange, ExchangeInv
<1>4. req[x].hop \in {0, 1}
  BY <1>3 DEF Admitted, RefusesHop, Request
<1>5. h \in 0 .. 2 /\ h = req[x].hop + 1
  BY <1>4 DEF NextHop
<1>6. b \in Seq(Part)
  <2>1. CASE sent[x] = None
    BY <2>1 DEF Forwarded
  <2>2. CASE sent[x] # None
    <3>. DEFINE part == [kind |-> "string", text |-> sent[x], pointer |-> 0]
    <3>1. sent[x] \in Text
      BY <1>1, <2>2 DEF ProxyType
    <3>2. part \in Part
      BY <3>1 DEF Part
    <3>3. b = <<part>>
      BY <2>2 DEF Forwarded
    <3>. HIDE DEF part, b
    <3>. QED BY <3>2, <3>3
  <2>. QED BY <2>1, <2>2
<1>. DEFINE q == [req[x] EXCEPT !.upstream = v, !.hop = h, !.body = b]
<1>. HIDE DEF h, b
<1>7. q \in Request /\ q.hop = h
  BY <1>3, <1>5, <1>6 DEF Admitted, Request
<1>8. depth[x] + 1 = 1 + q.hop /\ depth[x] + 1 \in Nat
  BY <1>3, <1>4, <1>5, <1>7 DEF Admitted
<1>9. Accept(y, q, depth[x] + 1)
  BY <1>2
<1>. HIDE DEF q
<1>. QED BY <1>7, <1>8, <1>9, AcceptStep

-----------------------------------------------------------------------------
(* Invariants *)

\* Every behaviour of the proxy keeps the invariant.
THEOREM ProxyInvariance == Spec => []ProxyInv
<1>1. Init => ProxyInv
  BY DEF Init, ProxyInv, ProxyType, Exchange, ExchangeInv, NewTrace, RequestTrace, States
<1>2. ProxyInv /\ [Next]_vars => ProxyInv'
  <2>. SUFFICES ASSUME ProxyInv, [Next]_vars PROVE ProxyInv'
    OBVIOUS
  <2>1. ASSUME NEW x \in Exch, NEW r \in Requests, Accept(x, r, 1 + r.hop) PROVE ProxyInv'
    <3>1. r \in Request
      BY ProxyAssumption
    <3>2. r.hop \in 0 .. 2
      BY <3>1 DEF Request
    <3>3. 1 + r.hop \in Nat
      BY <3>2
    <3>. QED BY <2>1, <3>1, <3>3, AcceptStep
  <2>2. ASSUME NEW x \in Exch, NEW y \in Exch, LoopBack(x, y) PROVE ProxyInv'
    BY <2>2, LoopBackStep
  <2>3. ASSUME NEW x \in Exch, Step(x) PROVE ProxyInv'
    <3>1. CASE Connect(x) \/ Leave(x) \/ Delivered(x)
      BY <3>1 DEF Connect, Leave, Delivered, ProxyInv, ProxyType, Exchange
    <3>. QED BY <2>3, <3>1, ReadBodyStep, SendStep, RespondStep, CollectStep, EndSteps, QuietSteps, RelayStep, BridgeEndsStep DEF Step
  <2>4. ASSUME UNCHANGED perExchange PROVE ProxyInv'
    BY <2>4 DEF perExchange, ProxyInv, ProxyType, Exchange
  <2>5. Cancel \/ Drained \/ Stopped \/ UNCHANGED vars => UNCHANGED perExchange
    BY DEF Cancel, Drained, Stopped, vars
  <2>. QED BY <2>1, <2>2, <2>3, <2>4, <2>5 DEF Next
<1>. QED BY <1>1, <1>2, PTL DEF Spec

\* Upstreams and clients receive sanitized texts only.
THEOREM RawSafe == Spec => []NothingRawCrosses
<1>1. ProxyInv => NothingRawCrosses
  BY DEF ProxyInv, Exchange, ExchangeInv, NothingRawCrosses
<1>. QED BY <1>1, ProxyInvariance, PTL

\* One record for each exchange that was not abandoned, none for the others.
THEOREM RecordsOnce == Spec => []RecordedOnce
<1>1. ProxyInv => RecordedOnce
  <2>. SUFFICES ASSUME ProxyInv, NEW x \in Exch
                PROVE  Len(records[x]) =
                         IF st[x] \in {"answered", "closed"} /\ Cardinality(trace[x].observations) <= MaxReplacements
                         THEN 1 ELSE 0
    BY DEF RecordedOnce
  <2>1. Exchange(x)
    BY DEF ProxyInv
  <2>2. CASE st[x] \in {"answered", "closed"} /\ Cardinality(trace[x].observations) <= MaxReplacements
    <3>1. PICK rec \in Record : records[x] = <<rec>>
      BY <2>1, <2>2 DEF Exchange, ExchangeInv
    <3>. QED BY <2>2, <3>1
  <2>3. CASE ~(st[x] \in {"answered", "closed"} /\ Cardinality(trace[x].observations) <= MaxReplacements)
    <3>1. records[x] = <<>>
      BY <2>1, <2>3 DEF Exchange, ExchangeInv
    <3>. QED BY <2>3, <3>1
  <2>. QED BY <2>2, <2>3
<1>. QED BY <1>1, ProxyInvariance, PTL

\* The record of an HTTP exchange tells what crossed: both directions if it says "protected", no
\* answer if it says "degraded", nothing if it says "unprotected".
THEOREM TraceTrue == Spec => []TraceTruthful
<1>1. ProxyInv => TraceTruthful
  <2>. SUFFICES ASSUME ProxyInv, NEW x \in Exch, NEW n \in DOMAIN records[x], st[x] = "answered"
                PROVE  Truthful(records[x][n], req[x], sent[x], released[x])
    BY DEF TraceTruthful, Truthful
  <2>1. Exchange(x)
    BY DEF ProxyInv
  <2>2. records[x] # <<>>
    OBVIOUS
  <2>3. PICK rec \in Record : records[x] = <<rec>> /\ Truthful(rec, req[x], sent[x], released[x])
    BY <2>1, <2>2 DEF Exchange, ExchangeInv
  <2>4. n = 1
    BY <2>3
  <2>. QED BY <2>3, <2>4
<1>. QED BY <1>1, ProxyInvariance, PTL

\* What left the proxy passed it at most twice, the second time by trust.
THEOREM LoopSafe == Spec => []LoopStops
<1>1. ProxyInv => LoopStops
  <2>. SUFFICES ASSUME ProxyInv, NEW x \in Exch, sent[x] # None
                PROVE  depth[x] <= 2 /\ (depth[x] = 2 => Upstream[req[x].upstream].trusted_proxy_hop)
    BY DEF LoopStops
  <2>1. Admitted(req[x], depth[x])
    BY DEF ProxyInv, Exchange, ExchangeInv
  <2>2. req[x].hop \in 0 .. 2
    BY <2>1 DEF Admitted, Request
  <2>3. req[x].hop = 0 \/ (req[x].hop = 1 /\ Upstream[req[x].upstream].trusted_proxy_hop)
    BY <2>1, <2>2 DEF Admitted, RefusesHop
  <2>. QED BY <2>1, <2>3 DEF Admitted
<1>. QED BY <1>1, ProxyInvariance, PTL

-----------------------------------------------------------------------------
(* Refinement: the proxy is a traced proxy *)

\* An exchange that ends closes with the number of records it left.
LEMMA Closes ==
    ASSUME ProxyInv, ProxyInv', NEW x \in Exch, st[x] \notin Ended, NEW s \in Ended,
           st' = [st EXCEPT ![x] = s], \A z \in Exch \ {x} : records'[z] = records[z]
    PROVE  Traced!Next
<1>1. ProxyType /\ ProxyType' /\ Exchange(x)'
  BY DEF ProxyInv
<1>2. Len(records'[x]) \in {0, 1}
  <2>1. records'[x] = <<>> \/ \E rec \in Record : records'[x] = <<rec>>
    BY <1>1 DEF Exchange, ExchangeInv
  <2>2. CASE records'[x] = <<>>
    BY <2>2
  <2>3. ASSUME NEW rec \in Record, records'[x] = <<rec>> PROVE Len(records'[x]) \in {0, 1}
    BY <2>3
  <2>. QED BY <2>1, <2>2, <2>3
<1>3. st'[x] = s /\ \A z \in Exch \ {x} : st'[z] = st[z]
  BY <1>1 DEF ProxyType
<1>4. Phase(x) # "closed" /\ Phase(x)' = "closed" /\ \A z \in Exch \ {x} : Phase(z)' = Phase(z)
  BY <1>3 DEF Phase, Ended
<1>5. [z \in Exch |-> Phase(z)]' = [[z \in Exch |-> Phase(z)] EXCEPT ![x] = "closed"]
  BY <1>4
<1>6. PICK n \in {0, 1} : n = Len(records'[x])
  BY <1>2
<1>7. [z \in Exch |-> Len(records[z])]' = [[z \in Exch |-> Len(records[z])] EXCEPT ![x] = n]
  BY <1>6
<1>8. Traced!Close(x, n)
  BY <1>4, <1>5, <1>7 DEF Traced!Close
<1>. QED BY <1>8 DEF Traced!Next

\* So does one that is answered.
LEMMA Finishes ==
    ASSUME ProxyInv, ProxyInv', NEW x \in Exch, st[x] \notin Ended, NEW t, NEW code, Finish(x, t, code)
    PROVE  Traced!Next
<1>1. ProxyType
  BY DEF ProxyInv
<1>2. st' = [st EXCEPT ![x] = "answered"] /\ "answered" \in Ended
  BY DEF Finish, Ended
<1>3. \A z \in Exch \ {x} : records'[z] = records[z]
  BY <1>1 DEF Finish, Emit, ProxyType
<1>. QED BY <1>2, <1>3, Closes

\* A request that passes its checks opens the exchange.
LEMMA Opens ==
    ASSUME ProxyInv, NEW x \in Exch, st[x] = "idle", NEW s \in {"reading", "connecting"},
           st' = [st EXCEPT ![x] = s], records' = records
    PROVE  Traced!Next
<1>1. ProxyType
  BY DEF ProxyInv
<1>2. st'[x] = s /\ \A z \in Exch \ {x} : st'[z] = st[z]
  BY <1>1 DEF ProxyType
<1>3. Phase(x) = "idle" /\ Phase(x)' = "open" /\ \A z \in Exch \ {x} : Phase(z)' = Phase(z)
  BY <1>2 DEF Phase, Ended
<1>4. [z \in Exch |-> Phase(z)]' = [[z \in Exch |-> Phase(z)] EXCEPT ![x] = "open"]
  BY <1>3
<1>5. Traced!Open(x)
  BY <1>3, <1>4 DEF Traced!Open
<1>. QED BY <1>5 DEF Traced!Next

\* Steps of an exchange that goes on are not visible.
LEMMA Stays ==
    ASSUME ProxyInv, records' = records, \A z \in Exch : Phase(z)' = Phase(z)
    PROVE  UNCHANGED Traced!vars
BY DEF Traced!vars

\* A refused request opens and closes its exchange at once; an accepted one opens it.
LEMMA AcceptMaps ==
    ASSUME ProxyInv, ProxyInv', NEW x \in Exch, NEW r, NEW d, Accept(x, r, d)
    PROVE  Traced!Next
<1>1. st[x] = "idle" /\ st[x] \notin Ended
  BY DEF Accept, AcceptUnknown, AcceptProbe, AcceptUpgrade, AcceptRequest, Arrive, Ended
<1>2. \/ \E code : Finish(x, NewTrace, code)
      \/ \E s \in {"reading", "connecting"} : st' = [st EXCEPT ![x] = s] /\ records' = records
  BY DEF Accept, AcceptUnknown, AcceptProbe, AcceptUpgrade, AcceptRequest
<1>3. ASSUME NEW code, Finish(x, NewTrace, code) PROVE Traced!Next
  BY <1>1, <1>3, Finishes
<1>. QED BY <1>1, <1>2, <1>3, Opens

\* The detailed proxy implements ExchangeTrace: whatever it does to an exchange is
\* to open it, to close it with its record, or invisible.
THEOREM ProxyRefines == Spec => ImplementsTrace
<1>1. Init => Traced!Init
  <2>. SUFFICES ASSUME Init PROVE Traced!Init
    OBVIOUS
  <2>1. \A x \in Exch : Phase(x) = "idle" /\ Len(records[x]) = 0
    BY DEF Init, Phase
  <2>. QED BY <2>1 DEF Traced!Init
<1>2. ProxyInv /\ ProxyInv' /\ [Next]_vars => [Traced!Next]_(Traced!vars)
  <2>. SUFFICES ASSUME ProxyInv, ProxyInv', [Next]_vars PROVE Traced!Next \/ UNCHANGED Traced!vars
    OBVIOUS
  <2>0. ProxyType
    BY DEF ProxyInv
  <2>1. ASSUME NEW x \in Exch, NEW r \in Requests, Accept(x, r, 1 + r.hop) PROVE Traced!Next
    BY <2>1, AcceptMaps
  <2>2. ASSUME NEW x \in Exch, NEW y \in Exch, LoopBack(x, y) PROVE Traced!Next
    BY <2>2, AcceptMaps DEF LoopBack
  <2>3. ASSUME NEW x \in Exch, Step(x) PROVE Traced!Next \/ UNCHANGED Traced!vars
    <3>1. ASSUME NEW t, NEW code, Finish(x, t, code), st[x] \notin Ended PROVE Traced!Next
      BY <3>1, Finishes
    <3>2. ASSUME NEW s \in Ended, st' = [st EXCEPT ![x] = s], st[x] \notin Ended, records' = records
          PROVE  Traced!Next
      BY <3>2, Closes
    <3>3. ASSUME NEW s \in {"sending", "waiting", "collecting", "bridge"}, st' = [st EXCEPT ![x] = s],
                 st[x] \in {"reading", "sending", "waiting", "connecting", "bridge"}, records' = records
          PROVE  UNCHANGED Traced!vars
      <4>1. st'[x] = s /\ \A z \in Exch \ {x} : st'[z] = st[z]
        BY <2>0, <3>3 DEF ProxyType
      <4>2. \A z \in Exch : Phase(z)' = Phase(z)
        BY <3>3, <4>1 DEF Phase, Ended
      <4>. QED BY <3>3, <4>2, Stays
    <3>4. CASE ReadFails(x) \/ UpstreamFails(x) \/ Timeout(x) \/ ConnectFails(x)
      BY <3>1, <3>4 DEF ReadFails, UpstreamFails, Timeout, ConnectFails, InForward, Ended
    <3>5. CASE Disconnect(x) \/ UpgradeFails(x)
      BY <3>2, <3>5 DEF Disconnect, UpgradeFails, InForward, Ended
    <3>6. CASE ReadBody(x)
      <4>1. st[x] = "reading" /\ st[x] \notin Ended
        BY <3>6 DEF ReadBody, Ended
      <4>2. \/ st' = [st EXCEPT ![x] = "sending"] /\ records' = records
            \/ \E t, code : Finish(x, t, code)
        BY <3>6 DEF ReadBody
      <4>. QED BY <3>1, <3>3, <4>1, <4>2
    <3>7. CASE Collect(x)
      <4>1. st[x] \notin Ended /\ \E t, code : Finish(x, t, code)
        BY <3>7 DEF Collect, Ended
      <4>. QED BY <3>1, <4>1
    <3>8. ASSUME NEW s \in Responses, Respond(x, s) PROVE Traced!Next \/ UNCHANGED Traced!vars
      <4>1. st[x] = "waiting" /\ st[x] \notin Ended
        BY <3>8 DEF Respond, Ended
      <4>2. \/ st' = [st EXCEPT ![x] = "collecting"] /\ records' = records
            \/ \E t, code : Finish(x, t, code)
        BY <3>8 DEF Respond
      <4>. QED BY <3>1, <3>3, <4>1, <4>2
    <3>9. CASE Connected(x)
      BY <3>3, <3>9 DEF Connected
    <3>10. ASSUME NEW f \in Frames, NEW toUpstream \in BOOLEAN, Relay(x, f, toUpstream)
           PROVE  UNCHANGED Traced!vars
      <4>1. st' = st /\ records' = records
        BY <3>10 DEF Relay
      <4>2. \A z \in Exch : Phase(z)' = Phase(z)
        BY <4>1 DEF Phase
      <4>. QED BY <4>1, <4>2, Stays
    <3>11. CASE BridgeEnds(x)
      <4>1. st[x] \notin Ended /\ st' = [st EXCEPT ![x] = "closed"] /\ "closed" \in Ended
        BY <3>11 DEF BridgeEnds, Ended
      <4>2. \A z \in Exch \ {x} : records'[z] = records[z]
        BY <2>0, <3>11 DEF BridgeEnds, Emit, ProxyType
      <4>. QED BY <4>1, <4>2, Closes
    <3>12. CASE Send(x)
      BY <3>3, <3>12 DEF Send
    <3>13. CASE Connect(x) \/ Leave(x) \/ Delivered(x)
      <4>1. st' = st /\ records' = records
        BY <3>13 DEF Connect, Leave, Delivered
      <4>2. \A z \in Exch : Phase(z)' = Phase(z)
        BY <4>1 DEF Phase
      <4>. QED BY <4>1, <4>2, Stays
    <3>. QED BY <2>3, <3>4, <3>5, <3>6, <3>7, <3>8, <3>9, <3>10, <3>11, <3>12, <3>13 DEF Step
  <2>4. ASSUME UNCHANGED perExchange PROVE UNCHANGED Traced!vars
    <3>1. st' = st /\ records' = records
      BY <2>4 DEF perExchange
    <3>2. \A z \in Exch : Phase(z)' = Phase(z)
      BY <3>1 DEF Phase
    <3>. QED BY <3>1, <3>2, Stays
  <2>5. Cancel \/ Drained \/ Stopped \/ UNCHANGED vars => UNCHANGED perExchange
    BY DEF Cancel, Drained, Stopped, vars
  <2>. QED BY <2>1, <2>2, <2>3, <2>4, <2>5 DEF Next
<1>. QED BY <1>1, <1>2, ProxyInvariance, PTL DEF Spec, ImplementsTrace, Traced!Spec

=============================================================================
