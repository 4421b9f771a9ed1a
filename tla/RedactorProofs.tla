--------------------------- MODULE RedactorProofs ---------------------------
(***************************************************************************)
(* Theorems about StreamingRedactor for every finite set of secrets, every *)
(* stream, every cut of it into chunks and every output limit.             *)
(***************************************************************************)
EXTENDS StreamingRedactor, SequenceTheorems, FiniteSetTheorems, TLAPS

-----------------------------------------------------------------------------
(* Patterns *)

\* Every set of naturals that is not empty has a least element: what stands in for
\* induction over positions.
LEMMA LeastPosition ==
    ASSUME NEW T, T \subseteq Nat, T # {}
    PROVE  \E x \in T : \A y \in T : x <= y
<1>1. PICK x \in T : \A y \in T : <<y, x>> \notin OpToRel(<, Nat)
  BY NatLessThanWellFounded, WFMin
<1>2. \A y \in T : ~(y < x)
  BY <1>1 DEF OpToRel
<1>. QED BY <1>2

\* A set of patterns has a longest one.
LEMMA LongestPattern ==
    ASSUME NEW T \in SUBSET Patterns, T # {}
    PROVE  \E p \in T : \A q \in T : Len(q) <= Len(p)
<1>. DEFINE bad == {F \in SUBSET Patterns : F # {} /\ \A p \in F : \E q \in F : Len(q) > Len(p)}
<1>1. SUFFICES ASSUME bad # {} PROVE FALSE
  <2>1. \A p \in Patterns : Len(p) \in Nat
    BY RedactorAssumption
  <2>2. T \notin bad
    BY <1>1
  <2>. QED BY <2>1, <2>2
<1>2. IsWellFoundedOn(StrictSubsetOrdering(Patterns), SUBSET Patterns)
  BY FS_StrictSubsetOrderingWellFounded, FS_FiniteSubsetsOfFinite, RedactorAssumption
<1>3. PICK F \in bad : \A G \in bad : <<G, F>> \notin StrictSubsetOrdering(Patterns)
  BY <1>1, <1>2, WFMin
<1>4. ASSUME NEW G \in bad PROVE ~(G \subseteq F /\ G # F)
  BY <1>3, <1>4 DEF StrictSubsetOrdering
<1>5. PICK x : x \in F
  BY <1>3
<1>6. F \ {x} \notin bad
  BY <1>4, <1>5
<1>7. \A p \in F : Len(p) \in Nat
  BY <1>3, RedactorAssumption
<1>8. F \subseteq Patterns /\ \A p \in F : \E q \in F : Len(q) > Len(p)
  BY <1>3
<1>. HIDE DEF bad
<1>9. CASE F \ {x} = {}
  BY <1>5, <1>7, <1>8, <1>9
<1>10. CASE F \ {x} # {}
  <2>1. PICK p \in F \ {x} : \A q \in F \ {x} : ~(Len(q) > Len(p))
    BY <1>6, <1>8, <1>10 DEF bad
  <2>2. PICK q \in F : Len(q) > Len(p)
    BY <1>8, <2>1
  <2>3. q = x
    BY <2>1, <2>2
  <2>4. PICK r \in F : Len(r) > Len(x)
    BY <1>5, <1>8
  <2>. QED BY <1>5, <1>7, <2>1, <2>2, <2>3, <2>4
<1>. QED BY <1>9, <1>10

\* maximum_pattern_length bounds them all.
LEMMA MaximumIs ==
    /\ MaximumPatternLength \in Nat \ {0}
    /\ \A p \in Patterns : Len(p) \in 1 .. MaximumPatternLength
<1>1. CASE Patterns = {}
  BY <1>1 DEF MaximumPatternLength
<1>2. CASE Patterns # {}
  <2>1. \A p \in Patterns : Len(p) \in Nat \ {0}
    BY RedactorAssumption, EmptySeq
  <2>2. PICK p \in Patterns : \A q \in Patterns : Len(q) <= Len(p)
    BY <1>2, LongestPattern
  <2>3. MaximumPatternLength \in {Len(q) : q \in Patterns} /\ \A q \in Patterns : Len(q) <= MaximumPatternLength
    BY <1>2, <2>2 DEF MaximumPatternLength
  <2>. QED BY <2>1, <2>3
<1>. QED BY <1>1, <1>2

\* A pattern starts where its bytes stand one after the other.
LEMMA StartsIs ==
    ASSUME NEW E, NEW s \in Seq(E), NEW p \in Seq(E), NEW offset \in 0 .. Len(s)
    PROVE  StartsWith(s, offset, p) <=>
              offset + Len(p) <= Len(s) /\ \A k \in 1 .. Len(p) : s[offset + k] = p[k]
<1>. DEFINE part == SubSeq(s, offset + 1, offset + Len(p))
<1>1. Len(s) \in Nat /\ Len(p) \in Nat /\ offset \in Nat /\ p \in [1 .. Len(p) -> E]
  BY LenProperties
<1>2. ASSUME offset + Len(p) <= Len(s)
      PROVE  part \in Seq(E) /\ Len(part) = Len(p) /\ \A k \in 1 .. Len(p) : part[k] = s[offset + k]
  <2>1. \A i \in offset + 1 .. offset + Len(p) : s[i] \in E
    BY <1>1, <1>2, ElementOfSeq
  <2>. HIDE DEF part
  <2>2. /\ part \in Seq(E)
        /\ Len(part) = IF offset + 1 <= offset + Len(p) THEN (offset + Len(p)) - (offset + 1) + 1 ELSE 0
        /\ \A i \in 1 .. (offset + Len(p)) - (offset + 1) + 1 : part[i] = s[(offset + 1) + i - 1]
    BY <1>1, <2>1, SubSeqProperties DEF part
  <2>. QED BY <1>1, <2>2
<1>3. ASSUME offset + Len(p) <= Len(s), \A k \in 1 .. Len(p) : s[offset + k] = p[k]
      PROVE  part = p
  BY <1>2, <1>3, SeqEqual
<1>4. ASSUME offset + Len(p) <= Len(s), part = p
      PROVE  \A k \in 1 .. Len(p) : s[offset + k] = p[k]
  BY <1>2, <1>4
<1>. QED BY <1>3, <1>4 DEF StartsWith

\* match_length is the length of the longest pattern that starts at the offset.
LEMMA MatchLengthIs ==
    ASSUME NEW s \in Seq(Byte), NEW offset \in 0 .. Len(s)
    PROVE  LET n == MatchLength(s, offset) IN
           /\ n \in 0 .. Len(s) - offset
           /\ n = 0 <=> \A p \in Patterns : ~StartsWith(s, offset, p)
           /\ n # 0 => \E p \in Patterns : StartsWith(s, offset, p) /\ Len(p) = n
           /\ \A p \in Patterns : StartsWith(s, offset, p) => Len(p) <= n
<1>. DEFINE here == {q \in Patterns : StartsWith(s, offset, q)}
            found == {Len(p) : p \in here}
<1>1. MatchLength(s, offset) = IF found = {} THEN 0 ELSE CHOOSE n \in found : \A m \in found : m <= n
  BY DEF MatchLength
<1>2. \A p \in Patterns : Len(p) \in Nat \ {0}
  BY MaximumIs
<1>3. \A p \in here : Len(p) <= Len(s) - offset
  BY <1>2, LenProperties DEF StartsWith
<1>4. CASE here = {}
  BY <1>1, <1>4, LenProperties
<1>5. CASE here # {}
  <2>1. PICK p \in here : \A q \in here : Len(q) <= Len(p)
    BY <1>5, LongestPattern
  <2>2. \E n \in found : \A m \in found : m <= n
    BY <2>1
  <2>3. MatchLength(s, offset) \in found /\ \A m \in found : m <= MatchLength(s, offset)
    BY <1>1, <2>2
  <2>. QED BY <1>2, <1>3, <2>3
<1>. QED BY <1>4, <1>5

-----------------------------------------------------------------------------
(* The loop of process() *)

\* One turn of the loop at the cursor, g being what the turns after it give.
Turn(s, before, g, cursor) ==
    IF cursor >= before THEN [bytes |-> <<>>, hits |-> 0, cursor |-> cursor]
    ELSE LET n == MatchLength(s, cursor)
             rest == g[IF n = 0 THEN cursor + 1 ELSE cursor + n]
         IN IF n = 0
            THEN [bytes |-> <<s[cursor + 1]>> \o rest.bytes, hits |-> rest.hits, cursor |-> rest.cursor]
            ELSE [bytes |-> Redaction \o rest.bytes, hits |-> rest.hits + 1, cursor |-> rest.cursor]

\* A turn looks only at what comes after it.
LEMMA TurnLooksAhead ==
    ASSUME NEW s \in Seq(Byte), NEW before \in 0 .. Len(s), NEW cursor \in 0 .. Len(s), NEW g, NEW h,
           \A c \in cursor + 1 .. Len(s) : g[c] = h[c]
    PROVE  Turn(s, before, g, cursor) = Turn(s, before, h, cursor)
<1>. DEFINE n == MatchLength(s, cursor)
<1>1. n \in 0 .. Len(s) - cursor /\ Len(s) \in Nat
  BY MatchLengthIs, LenProperties
<1>2. CASE cursor >= before
  BY <1>2 DEF Turn
<1>3. CASE cursor < before
  <2>. DEFINE next == IF n = 0 THEN cursor + 1 ELSE cursor + n
  <2>1. next \in cursor + 1 .. Len(s)
    BY <1>1, <1>3
  <2>2. g[next] = h[next]
    BY <2>1
  <2>. QED BY <1>3, <2>2 DEF Turn
<1>. QED BY <1>2, <1>3

\* So the turns from any cursor on fit together.
LEMMA TurnsExist ==
    ASSUME NEW s \in Seq(Byte), NEW before \in 0 .. Len(s)
    PROVE  \E g : g = [c \in 0 .. Len(s) |-> Turn(s, before, g, c)]
<1>. DEFINE Fits(k) == \E g : g = [c \in Len(s) - k .. Len(s) |-> Turn(s, before, g, c)]
            bad == {k \in 0 .. Len(s) : ~Fits(k)}
<1>1. Len(s) \in Nat
  BY LenProperties
<1>2. SUFFICES ASSUME bad # {} PROVE FALSE
  <2>1. Fits(Len(s))
    BY <1>1, <1>2
  <2>2. Len(s) - Len(s) = 0
    BY <1>1
  <2>. QED BY <2>1, <2>2
<1>. HIDE DEF Fits
<1>3. PICK k \in bad : \A j \in bad : k <= j
  <2>1. bad \subseteq Nat
    BY <1>1
  <2>. QED BY <1>2, <2>1, LeastPosition
<1>4. k \in 0 .. Len(s) /\ ~Fits(k)
  BY <1>3
<1>5. CASE k = 0
  <2>. DEFINE g == [c \in Len(s) - k .. Len(s) |-> [bytes |-> <<>>, hits |-> 0, cursor |-> c]]
  <2>1. ASSUME NEW c \in Len(s) - k .. Len(s) PROVE g[c] = Turn(s, before, g, c)
    <3>1. c = Len(s) /\ c >= before
      BY <1>1, <1>5
    <3>. QED BY <3>1 DEF Turn
  <2>2. g = [c \in Len(s) - k .. Len(s) |-> Turn(s, before, g, c)]
    BY <2>1
  <2>. QED BY <1>4, <2>2 DEF Fits
<1>6. CASE k > 0
  <2>1. k - 1 \in 0 .. Len(s) /\ k - 1 \notin bad
    BY <1>1, <1>3, <1>4, <1>6
  <2>2. PICK h : h = [c \in Len(s) - (k - 1) .. Len(s) |-> Turn(s, before, h, c)]
    BY <2>1 DEF Fits
  <2>. DEFINE first == Len(s) - k
              g == [c \in first .. Len(s) |-> IF c = first THEN Turn(s, before, h, c) ELSE h[c]]
  <2>3. first \in Int /\ first >= 0 /\ Len(s) - (k - 1) = first + 1
    BY <1>1, <1>4
  <2>4. ASSUME NEW c \in first .. Len(s) PROVE g[c] = Turn(s, before, g, c)
    <3>1. \A d \in c + 1 .. Len(s) : g[d] = h[d]
      BY <1>1, <2>3
    <3>2. c \in 0 .. Len(s)
      BY <1>1, <2>3
    <3>3. g[c] = Turn(s, before, h, c)
      <4>1. CASE c = first
        BY <4>1
      <4>2. CASE c # first
        <5>1. c \in Len(s) - (k - 1) .. Len(s)
          BY <1>1, <2>3, <4>2
        <5>2. h[c] = Turn(s, before, h, c)
          BY <2>2, <5>1
        <5>. QED BY <4>2, <5>2
      <4>. QED BY <4>1, <4>2
    <3>. HIDE DEF g
    <3>. QED BY <3>1, <3>2, <3>3, TurnLooksAhead
  <2>5. g = [c \in first .. Len(s) |-> Turn(s, before, g, c)]
    BY <2>4
  <2>. QED BY <1>4, <2>5 DEF Fits
<1>. QED BY <1>1, <1>4, <1>5, <1>6

\* The scan is its first turn.
LEMMA ScanIs ==
    ASSUME NEW s \in Seq(Byte), NEW before \in 0 .. Len(s)
    PROVE  \E g : /\ Scan(s, before) = g[0]
                  /\ \A c \in 0 .. Len(s) : g[c] = Turn(s, before, g, c)
<1>. DEFINE from == CHOOSE g : g = [c \in 0 .. Len(s) |-> Turn(s, before, g, c)]
<1>1. from = [c \in 0 .. Len(s) |-> Turn(s, before, from, c)]
  BY TurnsExist
<1>2. Scan(s, before) = from[0]
  BY DEF Scan, Turn
<1>. HIDE DEF from
<1>3. \A c \in 0 .. Len(s) : from[c] = Turn(s, before, from, c)
  BY <1>1
<1>. QED BY <1>2, <1>3

-----------------------------------------------------------------------------
(* What has been done with the first bytes of a text *)

Elem == Byte \cup {Redaction[n] : n \in DOMAIN Redaction}

\* The two halves of the reference's equation: a secret starts at i, and no earlier match covers i.
Starts(t, i) == \E p \in Patterns : StartsWith(t, i, p)
Clears(t, S, i) == \A j \in S : j < i => \A p \in Patterns : StartsWith(t, j, p) => j + Len(p) <= i

\* S are the matches among the first m positions, none of which goes on beyond them; and this
\* will not change with what comes after the first `known` bytes, since no secret that
\* matters reaches further.
Marked(t, m, S, known) ==
    /\ S \subseteq 0 .. m - 1
    /\ \A i \in 0 .. m - 1 : i \in S <=> Starts(t, i) /\ Clears(t, S, i)
    /\ Clears(t, S, m)
    /\ \A j \in S : j + MaximumPatternLength <= known
    /\ \A i \in 0 .. m - 1 : i + MaximumPatternLength <= known \/ ~Clears(t, S, i)

\* f[k] is what stands for the first k positions.
Covered(t, S, i) == \E j \in S : j <= i /\ \E p \in Patterns : StartsWith(t, j, p) /\ i < j + Len(p)
Piece(t, S, i) == IF i \in S THEN Redaction ELSE IF Covered(t, S, i) THEN <<>> ELSE <<t[i + 1]>>
Written(t, m, S, f) ==
    /\ f \in [0 .. m -> Seq(Elem)] /\ f[0] = <<>>
    /\ \A k \in 1 .. m : f[k] = f[k - 1] \o Piece(t, S, k - 1)

\* The n last elements of the sequence are the n first of the secret.
EndsWith(out, p, n) == n <= Len(out) /\ \A k \in 1 .. n : out[Len(out) - n + k] = p[k]

\* No secret is in what was written, and the beginning of one at its end comes from bytes of the
\* text that stand side by side and were kept.
Unseen(t, m, S, out) ==
    /\ \A p \in Patterns : ~Occurs(p, out)
    /\ \A p \in Patterns : \A n \in 1 .. Len(p) : EndsWith(out, p, n) =>
          n <= m /\ \A k \in 1 .. n : ~Covered(t, S, m - n + k - 1) /\ t[m - n + k] = p[k]

Done(t, m, S, f, known) ==
    /\ Marked(t, m, S, known) /\ Written(t, m, S, f)
    /\ ApartFromRedaction => Unseen(t, m, S, f[m])

\* The marks after a position where no secret starts.
LEMMA MarkedPlain ==
    ASSUME NEW t \in Seq(Byte), NEW m \in 0 .. Len(t) - 1, NEW S, NEW known \in Nat, Marked(t, m, S, known),
           ~Starts(t, m), m + MaximumPatternLength <= known
    PROVE  Marked(t, m + 1, S, known)
<1>1. m \in Nat /\ Len(t) \in Nat /\ MaximumPatternLength \in Nat
  BY MaximumIs, LenProperties
<1>2. \A i \in 0 .. (m + 1) - 1 : i \in 0 .. m - 1 \/ i = m
  BY <1>1
<1>3. S \subseteq 0 .. (m + 1) - 1 /\ m \notin S
  BY <1>1 DEF Marked
<1>4. ASSUME NEW j \in S, NEW p \in Patterns, StartsWith(t, j, p) PROVE j + Len(p) <= m + 1
  BY <1>1, <1>4, MaximumIs DEF Marked, Clears
<1>5. Clears(t, S, m + 1)
  BY <1>4 DEF Clears
<1>. QED BY <1>1, <1>2, <1>3, <1>5 DEF Marked

\* The marks after a secret.
LEMMA MarkedMatch ==
    ASSUME NEW t \in Seq(Byte), NEW m \in 0 .. Len(t) - 1, NEW S, NEW known \in Nat, Marked(t, m, S, known),
           MatchLength(t, m) # 0, m + MaximumPatternLength <= known
    PROVE  Marked(t, m + MatchLength(t, m), S \cup {m}, known)
<1>. DEFINE n == MatchLength(t, m)
            T == S \cup {m}
<1>1. m \in Nat /\ Len(t) \in Nat /\ MaximumPatternLength \in Nat
  BY MaximumIs, LenProperties
<1>2. m \in 0 .. Len(t)
  BY <1>1
<1>3. /\ n \in Nat \ {0} /\ \A p \in Patterns : StartsWith(t, m, p) => Len(p) <= n
      /\ \E p \in Patterns : StartsWith(t, m, p) /\ Len(p) = n
  BY <1>1, <1>2, MatchLengthIs
<1>. HIDE DEF n, T
<1>4. \A i \in 0 .. (m + n) - 1 : i \in 0 .. m - 1 \/ i = m \/ i \in m + 1 .. (m + n) - 1
  BY <1>1, <1>3
<1>5. \A j \in S : j \in 0 .. m - 1
  BY DEF Marked
<1>6. ASSUME NEW i \in 0 .. m PROVE Clears(t, T, i) <=> Clears(t, S, i)
  BY <1>1, <1>5 DEF Clears, T
<1>7. ASSUME NEW i \in m + 1 .. (m + n) - 1 PROVE i \notin T /\ ~Clears(t, T, i)
  <2>1. m \in T /\ m < i /\ i < m + n /\ i \notin T
    BY <1>1, <1>3, <1>5 DEF T
  <2>2. PICK p \in Patterns : StartsWith(t, m, p) /\ Len(p) = n
    BY <1>3
  <2>3. ~(m + Len(p) <= i)
    BY <1>1, <1>3, <2>1, <2>2
  <2>. QED BY <2>1, <2>2, <2>3 DEF Clears
<1>8. Clears(t, T, m + n)
  <2>. SUFFICES ASSUME NEW j \in T, NEW p \in Patterns, StartsWith(t, j, p) PROVE j + Len(p) <= m + n
    BY DEF Clears
  <2>1. CASE j = m
    BY <1>1, <1>3, <2>1, MaximumIs
  <2>2. CASE j \in S
    <3>1. j + Len(p) <= m /\ j \in Nat /\ Len(p) \in Nat
      BY <1>1, <1>5, <2>2, MaximumIs DEF Marked, Clears
    <3>. QED BY <1>1, <1>3, <3>1
  <2>. QED BY <2>1, <2>2 DEF T
<1>9. Starts(t, m) /\ Clears(t, S, m)
  BY <1>3 DEF Starts, Marked
<1>10. T \subseteq 0 .. (m + n) - 1
  BY <1>1, <1>3, <1>5 DEF T
<1>11. ASSUME NEW i \in 0 .. (m + n) - 1 PROVE i \in T <=> Starts(t, i) /\ Clears(t, T, i)
  <2>1. CASE i \in 0 .. m - 1
    <3>1. i \in T <=> i \in S
      BY <1>1, <2>1 DEF T
    <3>2. Clears(t, T, i) <=> Clears(t, S, i)
      <4>1. i \in 0 .. m
        BY <1>1, <2>1
      <4>. QED BY <1>6, <4>1
    <3>. QED BY <2>1, <3>1, <3>2 DEF Marked
  <2>2. CASE i = m
    <3>1. m \in 0 .. m /\ m \in T
      BY <1>1 DEF T
    <3>2. Clears(t, T, m)
      BY <1>6, <1>9, <3>1
    <3>. QED BY <1>9, <2>2, <3>1, <3>2
  <2>. QED BY <1>4, <1>7, <2>1, <2>2
<1>12. ASSUME NEW i \in 0 .. (m + n) - 1 PROVE i + MaximumPatternLength <= known \/ ~Clears(t, T, i)
  <2>1. CASE i \in 0 .. m - 1
    <3>1. Clears(t, T, i) <=> Clears(t, S, i)
      <4>1. i \in 0 .. m
        BY <1>1, <2>1
      <4>. QED BY <1>6, <4>1
    <3>. QED BY <2>1, <3>1 DEF Marked
  <2>. QED BY <1>4, <1>7, <2>1
<1>13. \A j \in T : j + MaximumPatternLength <= known
  BY DEF Marked, T
<1>14. Marked(t, m + n, T, known)
  BY <1>8, <1>10, <1>11, <1>12, <1>13 DEF Marked
<1>. QED BY <1>14 DEF n, T

\* Adding the empty sequence, and the pieces a text is written in.
LEMMA PieceIs ==
    /\ Redaction \in Seq(Elem) /\ <<>> \in Seq(Elem)
    /\ \A s \in Seq(Elem) : s \o <<>> = s
    /\ \A s, u \in Seq(Elem) : s \o u \in Seq(Elem)
    /\ \A t \in Seq(Byte) : \A m \in 0 .. Len(t) - 1 : <<t[m + 1]>> \in Seq(Elem)
<1>1. Redaction \in Seq(Elem)
  <2>1. Redaction \in Seq(STRING)
    BY RedactorAssumption
  <2>2. Len(Redaction) \in Nat /\ DOMAIN Redaction = 1 .. Len(Redaction) /\ Redaction \in [1 .. Len(Redaction) -> STRING]
    BY <2>1, LenProperties
  <2>3. Redaction \in [1 .. Len(Redaction) -> Elem]
    BY <2>2 DEF Elem
  <2>. QED BY <2>2, <2>3, SeqDef
<1>2. \A s \in Seq(Elem) : s \o <<>> = s
  BY ConcatEmptySeq
<1>3. \A s, u \in Seq(Elem) : s \o u \in Seq(Elem)
  BY ConcatProperties
<1>4. ASSUME NEW t \in Seq(Byte), NEW m \in 0 .. Len(t) - 1 PROVE <<t[m + 1]>> \in Seq(Elem)
  <2>1. m + 1 \in 1 .. Len(t)
    BY LenProperties
  <2>2. t[m + 1] \in Elem
    BY <2>1, ElementOfSeq DEF Elem
  <2>. QED BY <2>2
<1>. QED BY <1>1, <1>2, <1>3, <1>4, EmptySeq

LEMMA ElemsAssociate ==
    ASSUME NEW s \in Seq(Elem), NEW u \in Seq(Elem), NEW v \in Seq(Elem)
    PROVE  (s \o u) \o v = s \o (u \o v)
BY ConcatAssociative

\* The text written for a position where no secret starts.
LEMMA WrittenPlain ==
    ASSUME NEW t \in Seq(Byte), NEW m \in 0 .. Len(t) - 1, NEW S, NEW known \in Nat, Marked(t, m, S, known),
           ~Starts(t, m), NEW f, Written(t, m, S, f)
    PROVE  /\ ~Covered(t, S, m)
           /\ Written(t, m + 1, S, [k \in 0 .. m + 1 |-> IF k <= m THEN f[k] ELSE f[m] \o <<t[m + 1]>>])
<1>. DEFINE g == [k \in 0 .. m + 1 |-> IF k <= m THEN f[k] ELSE f[m] \o <<t[m + 1]>>]
<1>1. m \in Nat /\ Len(t) \in Nat
  BY LenProperties
<1>2. m \notin S /\ S \subseteq 0 .. m - 1
  BY <1>1 DEF Marked
<1>3. ~Covered(t, S, m)
  <2>. SUFFICES ASSUME NEW j \in S, j <= m, NEW p \in Patterns, StartsWith(t, j, p), m < j + Len(p) PROVE FALSE
    BY DEF Covered
  <2>1. j < m /\ Len(p) \in Nat /\ j \in Nat
    BY <1>1, <1>2, MaximumIs
  <2>2. j + Len(p) <= m
    BY <2>1 DEF Marked, Clears
  <2>. QED BY <1>1, <2>1, <2>2
<1>4. Piece(t, S, m) = <<t[m + 1]>>
  BY <1>2, <1>3 DEF Piece
<1>5. \A k \in 0 .. m : f[k] \in Seq(Elem) /\ g[k] = f[k]
  BY <1>1 DEF Written
<1>6. g[m + 1] = f[m] \o <<t[m + 1]>> /\ g[m + 1] \in Seq(Elem)
  <2>1. m \in 0 .. m /\ m + 1 \in 0 .. m + 1 /\ ~(m + 1 <= m)
    BY <1>1
  <2>2. f[m] \in Seq(Elem) /\ <<t[m + 1]>> \in Seq(Elem)
    BY <1>5, <2>1, PieceIs
  <2>3. g[m + 1] = f[m] \o <<t[m + 1]>>
    BY <2>1
  <2>. HIDE DEF g
  <2>. QED BY <2>2, <2>3, PieceIs
<1>7. g \in [0 .. m + 1 -> Seq(Elem)] /\ g[0] = <<>>
  BY <1>1, <1>5, <1>6 DEF Written
<1>. HIDE DEF g
<1>8. ASSUME NEW k \in 1 .. m + 1 PROVE g[k] = g[k - 1] \o Piece(t, S, k - 1)
  <2>1. CASE k \in 1 .. m
    <3>1. k \in 0 .. m /\ k - 1 \in 0 .. m
      BY <1>1, <2>1
    <3>. QED BY <1>5, <2>1, <3>1 DEF Written
  <2>2. CASE k = m + 1
    <3>1. m \in 0 .. m /\ k - 1 = m
      BY <1>1, <2>2
    <3>. QED BY <1>4, <1>5, <1>6, <2>2, <3>1
  <2>3. k \in 1 .. m \/ k = m + 1
    BY <1>1
  <2>. QED BY <2>1, <2>2, <2>3
<1>9. Written(t, m + 1, S, g)
  BY <1>7, <1>8 DEF Written
<1>. QED BY <1>3, <1>9 DEF g

\* The text written for a secret.
LEMMA WrittenMatch ==
    ASSUME NEW t \in Seq(Byte), NEW m \in 0 .. Len(t) - 1, NEW S, NEW known \in Nat, Marked(t, m, S, known),
           NEW n \in Nat \ {0}, NEW q \in Patterns, StartsWith(t, m, q), Len(q) = n, NEW f, Written(t, m, S, f)
    PROVE  Written(t, m + n, S \cup {m}, [k \in 0 .. m + n |-> IF k <= m THEN f[k] ELSE f[m] \o Redaction])
<1>. DEFINE g == [k \in 0 .. m + n |-> IF k <= m THEN f[k] ELSE f[m] \o Redaction]
            T == S \cup {m}
<1>1. m \in Nat /\ Len(t) \in Nat
  BY LenProperties
<1>2. m \notin S /\ S \subseteq 0 .. m - 1
  BY <1>1 DEF Marked
<1>3. ASSUME NEW i \in 0 .. m - 1 PROVE Piece(t, T, i) = Piece(t, S, i)
  <2>1. i \in T <=> i \in S
    BY <1>1
  <2>2. Covered(t, T, i) <=> Covered(t, S, i)
    BY <1>1 DEF Covered
  <2>. QED BY <2>1, <2>2 DEF Piece
<1>4. Piece(t, T, m) = Redaction
  BY DEF Piece
<1>5. ASSUME NEW i \in m + 1 .. (m + n) - 1 PROVE Piece(t, T, i) = <<>>
  <2>1. i \notin T /\ m <= i /\ i < m + Len(q)
    BY <1>1, <1>2
  <2>2. Covered(t, T, i)
    BY <2>1 DEF Covered
  <2>. QED BY <2>1, <2>2 DEF Piece
<1>6. \A k \in 0 .. m : f[k] \in Seq(Elem) /\ g[k] = f[k]
  BY <1>1 DEF Written
<1>7. f[m] \o Redaction \in Seq(Elem)
  <2>1. m \in 0 .. m
    BY <1>1
  <2>2. f[m] \in Seq(Elem)
    BY <2>1 DEF Written
  <2>. QED BY <2>2, PieceIs
<1>8. \A k \in m + 1 .. m + n : g[k] = f[m] \o Redaction
  BY <1>1
<1>9. g \in [0 .. m + n -> Seq(Elem)] /\ g[0] = <<>>
  BY <1>1, <1>6, <1>7 DEF Written
<1>. HIDE DEF g, T
<1>10. ASSUME NEW k \in 1 .. m + n PROVE g[k] = g[k - 1] \o Piece(t, T, k - 1)
  <2>1. CASE k \in 1 .. m
    <3>1. k \in 0 .. m /\ k - 1 \in 0 .. m - 1 /\ k - 1 \in 0 .. m
      BY <1>1, <2>1
    <3>. QED BY <1>3, <1>6, <2>1, <3>1 DEF Written
  <2>2. CASE k = m + 1
    <3>1. m \in 0 .. m /\ k - 1 = m /\ k \in m + 1 .. m + n
      BY <1>1, <2>2
    <3>. QED BY <1>4, <1>6, <1>8, <3>1
  <2>3. CASE k \in m + 2 .. m + n
    <3>1. k \in m + 1 .. m + n /\ k - 1 \in m + 1 .. m + n /\ k - 1 \in m + 1 .. (m + n) - 1
      BY <1>1, <2>3
    <3>. QED BY <1>5, <1>7, <1>8, <3>1, PieceIs
  <2>4. k \in 1 .. m \/ k = m + 1 \/ k \in m + 2 .. m + n
    BY <1>1
  <2>. QED BY <2>1, <2>2, <2>3, <2>4
<1>11. Written(t, m + n, T, g)
  BY <1>9, <1>10 DEF Written
<1>. QED BY <1>11 DEF g, T

\* An occurrence, byte by byte.
LEMMA OccursIs ==
    ASSUME NEW out \in Seq(Elem), NEW p \in Patterns
    PROVE  Occurs(p, out) <=>
              \E offset \in 0 .. Len(out) :
                 offset + Len(p) <= Len(out) /\ \A k \in 1 .. Len(p) : out[offset + k] = p[k]
<1>1. p \in Seq(Elem)
  BY RedactorAssumption, SeqMonotonic DEF Elem
<1>. QED BY <1>1, StartsIs DEF Occurs

\* What a byte that is kept adds.
LEMMA UnseenPlain ==
    ASSUME NEW t \in Seq(Byte), NEW m \in 0 .. Len(t) - 1, NEW S, NEW known \in Nat, Marked(t, m, S, known),
           ~Starts(t, m), ~Covered(t, S, m), NEW out \in Seq(Elem), Unseen(t, m, S, out)
    PROVE  Unseen(t, m + 1, S, out \o <<t[m + 1]>>)
<1>. DEFINE new == out \o <<t[m + 1]>>
<1>1. m \in Nat /\ Len(t) \in Nat /\ Len(out) \in Nat /\ m + 1 <= Len(t)
  BY LenProperties
<1>2. /\ new \in Seq(Elem) /\ Len(new) = Len(out) + 1 /\ new[Len(out) + 1] = t[m + 1]
      /\ \A k \in 1 .. Len(out) : new[k] = out[k]
  <2>1. <<t[m + 1]>> \in Seq(Elem) /\ Len(<<t[m + 1]>>) = 1 /\ <<t[m + 1]>>[1] = t[m + 1]
    BY PieceIs
  <2>. QED BY <1>1, <2>1, ConcatProperties
<1>. HIDE DEF new
<1>3. ASSUME NEW p \in Patterns, NEW n \in 1 .. Len(p), EndsWith(new, p, n)
      PROVE  n <= m + 1 /\ \A k \in 1 .. n : ~Covered(t, S, (m + 1) - n + k - 1) /\ t[(m + 1) - n + k] = p[k]
  <2>1. Len(p) \in Nat /\ n \in Nat
    BY MaximumIs
  <2>2. t[m + 1] = p[n]
    <3>1. n \in 1 .. n /\ Len(new) - n + n = Len(out) + 1
      BY <1>1, <1>2, <2>1
    <3>. QED BY <1>2, <1>3, <3>1 DEF EndsWith
  <2>3. CASE n = 1
    BY <1>1, <2>2, <2>3
  <2>4. CASE n > 1
    <3>1. n - 1 \in 1 .. Len(p)
      BY <2>1, <2>4
    <3>2. EndsWith(out, p, n - 1)
      <4>1. n - 1 <= Len(out)
        BY <1>1, <1>2, <1>3, <2>1 DEF EndsWith
      <4>2. ASSUME NEW k \in 1 .. n - 1 PROVE out[Len(out) - (n - 1) + k] = p[k]
        <5>1. /\ Len(out) - (n - 1) + k \in 1 .. Len(out) /\ k \in 1 .. n
              /\ Len(out) - (n - 1) + k = Len(new) - n + k
          BY <1>1, <1>2, <2>1, <4>1
        <5>. QED BY <1>2, <1>3, <5>1 DEF EndsWith
      <4>. QED BY <4>1, <4>2 DEF EndsWith
    <3>3. n - 1 <= m /\ \A k \in 1 .. n - 1 : ~Covered(t, S, m - (n - 1) + k - 1) /\ t[m - (n - 1) + k] = p[k]
      BY <3>1, <3>2 DEF Unseen
    <3>4. ASSUME NEW k \in 1 .. n PROVE ~Covered(t, S, (m + 1) - n + k - 1) /\ t[(m + 1) - n + k] = p[k]
      <4>1. CASE k = n
        <5>1. (m + 1) - n + k - 1 = m /\ (m + 1) - n + k = m + 1
          BY <1>1, <2>1, <4>1
        <5>. QED BY <2>2, <4>1, <5>1
      <4>2. CASE k \in 1 .. n - 1
        <5>1. (m + 1) - n + k - 1 = m - (n - 1) + k - 1 /\ (m + 1) - n + k = m - (n - 1) + k
          BY <1>1, <2>1, <4>2
        <5>. QED BY <3>3, <4>2, <5>1
      <4>3. k = n \/ k \in 1 .. n - 1
        BY <2>1
      <4>. QED BY <4>1, <4>2, <4>3
    <3>. QED BY <1>1, <2>1, <3>3, <3>4
  <2>. QED BY <2>1, <2>3, <2>4
<1>4. ASSUME NEW p \in Patterns, Occurs(p, new) PROVE FALSE
  <2>1. PICK offset \in 0 .. Len(new) :
           offset + Len(p) <= Len(new) /\ \A k \in 1 .. Len(p) : new[offset + k] = p[k]
    BY <1>2, <1>4, OccursIs
  <2>2. Len(p) \in Nat \ {0} /\ offset \in Nat
    BY <1>1, <1>2, MaximumIs
  <2>3. CASE offset + Len(p) <= Len(out)
    <3>1. offset \in 0 .. Len(out) /\ \A k \in 1 .. Len(p) : offset + k \in 1 .. Len(out)
      BY <1>1, <2>2, <2>3
    <3>2. \A k \in 1 .. Len(p) : out[offset + k] = p[k]
      BY <1>2, <2>1, <3>1
    <3>. QED BY <2>3, <3>1, <3>2, OccursIs DEF Unseen
  <2>4. CASE offset + Len(p) = Len(new)
    <3>. DEFINE n == Len(p)
                i == (m + 1) - n
    <3>1. Len(new) - n = offset
      BY <1>1, <1>2, <2>2, <2>4
    <3>2. n <= Len(new) /\ n \in 1 .. Len(p)
      BY <1>1, <1>2, <2>2, <2>4
    <3>3. EndsWith(new, p, n)
      BY <2>1, <3>1, <3>2 DEF EndsWith
    <3>4. n <= m + 1 /\ \A k \in 1 .. n : ~Covered(t, S, (m + 1) - n + k - 1) /\ t[(m + 1) - n + k] = p[k]
      BY <1>3, <3>2, <3>3
    <3>5. i \in 0 .. m /\ i + Len(p) <= Len(t) /\ i \in 0 .. Len(t) /\ 1 \in 1 .. n /\ (m + 1) - n + 1 - 1 = i
      BY <1>1, <2>2, <3>4
    <3>6. StartsWith(t, i, p)
      <4>1. p \in Seq(Byte)
        BY RedactorAssumption
      <4>. HIDE DEF n
      <4>. QED BY <3>4, <3>5, <4>1, StartsIs DEF n
    <3>7. ~Covered(t, S, i)
      BY <3>4, <3>5
    <3>. HIDE DEF i, n
    <3>8. i # m
      BY <3>6 DEF Starts
    <3>9. i \in 0 .. m - 1
      BY <1>1, <3>5, <3>8
    <3>10. Clears(t, S, i)
      <4>. SUFFICES ASSUME NEW j \in S, j < i, NEW q \in Patterns, StartsWith(t, j, q), ~(j + Len(q) <= i) PROVE FALSE
        BY DEF Clears
      <4>1. j \in Nat /\ Len(q) \in Nat /\ i \in Nat
        BY <1>1, <3>9, MaximumIs DEF Marked
      <4>. QED BY <3>7, <4>1 DEF Covered
    <3>11. i \in S
      BY <3>6, <3>9, <3>10 DEF Marked, Starts
    <3>12. i \in Nat /\ i < i + Len(p)
      BY <2>2, <3>9
    <3>. QED BY <3>6, <3>7, <3>11, <3>12 DEF Covered
  <2>. QED BY <1>1, <1>2, <2>1, <2>2, <2>3, <2>4
<1>5. Unseen(t, m + 1, S, new)
  BY <1>3, <1>4 DEF Unseen
<1>. QED BY <1>5 DEF new

\* What the marker adds.
LEMMA UnseenMatch ==
    ASSUME NEW t, NEW m, NEW S, NEW out \in Seq(Elem), Unseen(t, m, S, out), ApartFromRedaction,
           NEW after, NEW T
    PROVE  Unseen(t, after, T, out \o Redaction)
<1>. DEFINE new == out \o Redaction
            r == Len(Redaction)
<1>1. Redaction \in Seq(Elem) /\ r \in Nat \ {0} /\ Len(out) \in Nat
  <2>1. Redaction \in Seq(Elem) /\ Redaction # <<>>
    BY PieceIs DEF ApartFromRedaction
  <2>. QED BY <2>1, LenProperties, EmptySeq
<1>2. /\ new \in Seq(Elem) /\ Len(new) = Len(out) + r
      /\ \A k \in 1 .. Len(out) : new[k] = out[k]
      /\ \A k \in 1 .. r : new[Len(out) + k] = Redaction[k]
  <2>1. /\ new \in Seq(Elem) /\ Len(new) = Len(out) + r
        /\ \A k \in 1 .. Len(out) + r : new[k] = IF k <= Len(out) THEN out[k] ELSE Redaction[k - Len(out)]
    BY <1>1, ConcatProperties
  <2>. HIDE DEF new, r
  <2>. QED BY <1>1, <2>1
<1>3. \A p \in Patterns : Len(p) \in Nat \ {0}
  BY MaximumIs
<1>. HIDE DEF new, r
\* No secret is laid over the marker in the output.
<1>4. ASSUME NEW p \in Patterns, NEW n \in 1 .. Len(p), NEW offset \in Int, offset + 1 <= Len(new),
             offset + n > Len(out), n < Len(p) => offset + n = Len(new),
             \A k \in 1 .. n : offset + k >= 1 => new[offset + k] = p[k]
      PROVE  FALSE
  <2>. DEFINE shift == offset - Len(out)
  <2>1. Len(p) \in Nat /\ n \in Nat /\ shift \in 1 - Len(p) .. r - 1
    BY <1>1, <1>2, <1>3, <1>4
  <2>2. PICK k \in 1 .. Len(p) : k + shift \in 1 .. r /\ p[k] # Redaction[k + shift]
    BY <2>1 DEF ApartFromRedaction, r
  <2>3. k \in 1 .. n /\ offset + k >= 1 /\ offset + k = Len(out) + (k + shift)
    BY <1>1, <1>2, <1>4, <2>1, <2>2
  <2>. HIDE DEF shift
  <2>4. new[offset + k] = Redaction[k + shift]
    BY <1>2, <2>2, <2>3
  <2>. QED BY <1>4, <2>2, <2>3, <2>4
<1>5. ASSUME NEW p \in Patterns, Occurs(p, new) PROVE FALSE
  <2>1. PICK offset \in 0 .. Len(new) :
           offset + Len(p) <= Len(new) /\ \A k \in 1 .. Len(p) : new[offset + k] = p[k]
    BY <1>2, <1>5, OccursIs
  <2>2. Len(p) \in Nat \ {0} /\ offset \in Nat
    BY <1>1, <1>2, <1>3
  <2>3. CASE offset + Len(p) <= Len(out)
    <3>1. offset \in 0 .. Len(out) /\ \A k \in 1 .. Len(p) : offset + k \in 1 .. Len(out)
      BY <1>1, <2>2, <2>3
    <3>2. \A k \in 1 .. Len(p) : out[offset + k] = p[k]
      BY <1>2, <2>1, <3>1
    <3>. QED BY <2>3, <3>1, <3>2, OccursIs DEF Unseen
  <2>4. CASE offset + Len(p) > Len(out)
    <3>1. Len(p) \in 1 .. Len(p) /\ offset \in Int /\ offset + 1 <= Len(new) /\ ~(Len(p) < Len(p))
      BY <1>1, <1>2, <2>1, <2>2
    <3>. QED BY <1>4, <2>1, <2>4, <3>1
  <2>. QED BY <1>1, <2>2, <2>3, <2>4
<1>6. ASSUME NEW p \in Patterns, NEW n \in 1 .. Len(p), EndsWith(new, p, n) PROVE FALSE
  <2>. DEFINE offset == Len(new) - n
  <2>1. /\ Len(p) \in Nat /\ n \in Nat \ {0} /\ n <= Len(new) /\ Len(new) \in Nat
    BY <1>1, <1>2, <1>3, <1>6 DEF EndsWith
  <2>2. offset \in Int /\ offset + 1 <= Len(new) /\ offset + n > Len(out) /\ offset + n = Len(new)
    BY <1>1, <1>2, <2>1
  <2>3. \A k \in 1 .. n : new[offset + k] = p[k]
    BY <1>6 DEF EndsWith
  <2>. HIDE DEF offset
  <2>. QED BY <1>4, <2>2, <2>3
<1>7. Unseen(t, after, T, new)
  BY <1>5, <1>6 DEF Unseen
<1>. QED BY <1>7 DEF new

\* Before the first byte nothing has been done.
LEMMA DoneNothing ==
    ASSUME NEW t, NEW known
    PROVE  Done(t, 0, {}, [k \in 0 .. 0 |-> <<>>], known)
<1>. DEFINE f == [k \in 0 .. 0 |-> <<>>]
<1>1. Marked(t, 0, {}, known)
  BY DEF Marked, Clears
<1>2. f \in [0 .. 0 -> Seq(Elem)] /\ f[0] = <<>> /\ <<>> \in Seq(Elem)
  BY EmptySeq
<1>3. Written(t, 0, {}, f)
  BY <1>2 DEF Written
<1>4. \A p \in Patterns : Len(p) \in Nat \ {0}
  BY MaximumIs
<1>5. Len(<<>>) = 0
  OBVIOUS
<1>6. ASSUME NEW p \in Patterns, Occurs(p, <<>>) PROVE FALSE
  <2>1. PICK offset \in 0 .. Len(<<>>) : offset + Len(p) <= Len(<<>>)
    BY <1>2, <1>6, OccursIs
  <2>2. offset \in Nat /\ offset + Len(p) <= 0
    BY <1>5, <2>1
  <2>. QED BY <1>4, <2>2
<1>7. \A p \in Patterns : \A n \in 1 .. Len(p) : ~EndsWith(<<>>, p, n)
  BY <1>4, <1>5 DEF EndsWith
<1>8. Unseen(t, 0, {}, <<>>)
  BY <1>6, <1>7 DEF Unseen
<1>. QED BY <1>1, <1>2, <1>3, <1>8 DEF Done

\* What was done can be taken from m to n, with the marks T and the piece written.
Extends(t, m, f, piece, n, T, known) == \E g : Done(t, n, T, g, known) /\ g[n] = f[m] \o piece

\* A byte that is kept, and a secret that is replaced, take what was done further.
LEMMA DonePlain ==
    ASSUME NEW t \in Seq(Byte), NEW m \in 0 .. Len(t) - 1, NEW S, NEW f, NEW known \in Nat,
           Done(t, m, S, f, known), MatchLength(t, m) = 0, m + MaximumPatternLength <= known
    PROVE  Extends(t, m, f, <<t[m + 1]>>, m + 1, S, known)
<1>. DEFINE g == [k \in 0 .. m + 1 |-> IF k <= m THEN f[k] ELSE f[m] \o <<t[m + 1]>>]
<1>1. m \in Nat /\ m \in 0 .. Len(t) /\ m \in 0 .. m /\ m + 1 \in 0 .. m + 1 /\ ~(m + 1 <= m)
  BY LenProperties
<1>2. ~Starts(t, m)
  BY <1>1, MatchLengthIs DEF Starts
<1>3. Marked(t, m, S, known) /\ Written(t, m, S, f) /\ f[m] \in Seq(Elem)
  BY <1>1 DEF Done, Written
<1>4. Marked(t, m + 1, S, known)
  BY <1>2, <1>3, MarkedPlain
<1>5. ~Covered(t, S, m) /\ Written(t, m + 1, S, g)
  BY <1>2, <1>3, WrittenPlain
<1>6. g[m + 1] = f[m] \o <<t[m + 1]>>
  BY <1>1
<1>. HIDE DEF g
<1>7. ApartFromRedaction => Unseen(t, m + 1, S, g[m + 1])
  BY <1>2, <1>3, <1>5, <1>6, UnseenPlain DEF Done
<1>. QED BY <1>4, <1>5, <1>6, <1>7 DEF Done, Extends

LEMMA DoneMatch ==
    ASSUME NEW t \in Seq(Byte), NEW m \in 0 .. Len(t) - 1, NEW S, NEW f, NEW known \in Nat,
           Done(t, m, S, f, known), NEW n, n = MatchLength(t, m), n # 0, m + MaximumPatternLength <= known
    PROVE  Extends(t, m, f, Redaction, m + n, S \cup {m}, known)
<1>. DEFINE g == [k \in 0 .. m + n |-> IF k <= m THEN f[k] ELSE f[m] \o Redaction]
<1>1. m \in Nat /\ m \in 0 .. Len(t) /\ m \in 0 .. m
  BY LenProperties
<1>2. n \in Nat \ {0} /\ \E q \in Patterns : StartsWith(t, m, q) /\ Len(q) = n
  BY <1>1, MatchLengthIs
<1>3. Marked(t, m, S, known) /\ Written(t, m, S, f) /\ f[m] \in Seq(Elem)
  BY <1>1 DEF Done, Written
<1>4. Marked(t, m + n, S \cup {m}, known)
  BY <1>3, MarkedMatch
<1>5. Written(t, m + n, S \cup {m}, g)
  <2>1. PICK q \in Patterns : StartsWith(t, m, q) /\ Len(q) = n
    BY <1>2
  <2>. QED BY <1>2, <1>3, <2>1, WrittenMatch
<1>6. g[m + n] = f[m] \o Redaction
  BY <1>1, <1>2
<1>. HIDE DEF g
<1>7. ApartFromRedaction => Unseen(t, m + n, S \cup {m}, g[m + n])
  BY <1>3, <1>6, UnseenMatch DEF Done
<1>8. Done(t, m + n, S \cup {m}, g, known)
  BY <1>4, <1>5, <1>7 DEF Done
<1>. QED BY <1>6, <1>8 DEF Extends

\* The rest of a text from position n on.
LEMMA RestIs ==
    ASSUME NEW t \in Seq(Byte), NEW n \in 0 .. Len(t)
    PROVE  LET s == SubSeq(t, n + 1, Len(t)) IN
           /\ s \in Seq(Byte) /\ Len(s) = Len(t) - n
           /\ \A k \in 1 .. Len(s) : s[k] = t[n + k]
           /\ \A c \in 0 .. Len(s) : MatchLength(s, c) = MatchLength(t, n + c)
<1>. DEFINE s == SubSeq(t, n + 1, Len(t))
<1>1. n \in Nat /\ Len(t) \in Nat /\ n <= Len(t)
  BY LenProperties
<1>2. \A i \in n + 1 .. Len(t) : t[i] \in Byte
  BY <1>1, ElementOfSeq
<1>3. /\ s \in Seq(Byte) /\ Len(s) = IF n + 1 <= Len(t) THEN Len(t) - (n + 1) + 1 ELSE 0
      /\ \A i \in 1 .. Len(t) - (n + 1) + 1 : s[i] = t[(n + 1) + i - 1]
  BY <1>1, <1>2, SubSeqProperties
<1>. HIDE DEF s
<1>4. Len(s) = Len(t) - n /\ \A k \in 1 .. Len(s) : s[k] = t[n + k]
  BY <1>1, <1>3
<1>5. ASSUME NEW c \in 0 .. Len(s) PROVE MatchLength(s, c) = MatchLength(t, n + c)
  <2>1. c \in Nat /\ n + c \in 0 .. Len(t)
    BY <1>1, <1>4
  <2>2. ASSUME NEW p \in Patterns PROVE StartsWith(s, c, p) <=> StartsWith(t, n + c, p)
    <3>1. p \in Seq(Byte) /\ Len(p) \in Nat
      BY RedactorAssumption, MaximumIs
    <3>2. StartsWith(s, c, p) <=> c + Len(p) <= Len(s) /\ \A k \in 1 .. Len(p) : s[c + k] = p[k]
      BY <1>3, <3>1, StartsIs
    <3>3. StartsWith(t, n + c, p) <=> (n + c) + Len(p) <= Len(t) /\ \A k \in 1 .. Len(p) : t[(n + c) + k] = p[k]
      BY <2>1, <3>1, StartsIs
    <3>4. c + Len(p) <= Len(s) <=> (n + c) + Len(p) <= Len(t)
      BY <1>1, <1>4, <2>1, <3>1
    <3>5. ASSUME c + Len(p) <= Len(s), NEW k \in 1 .. Len(p) PROVE s[c + k] = t[(n + c) + k]
      <4>1. c + k \in 1 .. Len(s) /\ n + (c + k) = (n + c) + k
        BY <1>1, <1>4, <2>1, <3>1, <3>5
      <4>. QED BY <1>4, <4>1
    <3>. QED BY <3>2, <3>3, <3>4, <3>5
  <2>3. {q \in Patterns : StartsWith(s, c, q)} = {q \in Patterns : StartsWith(t, n + c, q)}
    BY <2>2
  <2>. DEFINE Longest(F) == LET found == {Len(p) : p \in F}
                            IN IF found = {} THEN 0 ELSE CHOOSE k \in found : \A m \in found : m <= k
  <2>4. /\ MatchLength(s, c) = Longest({q \in Patterns : StartsWith(s, c, q)})
        /\ MatchLength(t, n + c) = Longest({q \in Patterns : StartsWith(t, n + c, q)})
    BY DEF MatchLength
  <2>. HIDE DEF Longest
  <2>. QED BY <2>3, <2>4
<1>. QED BY <1>3, <1>4, <1>5 DEF s

\* What the loop adds from a cursor on: some bytes and some matches.
Result(s) == [bytes : Seq(Elem), hits : Nat, cursor : 0 .. Len(s)]
Carries(t, n, c, r, known) ==
    \A S, f : Done(t, n + c, S, f, known) /\ IsFiniteSet(S) =>
       \E T, g : /\ Done(t, n + r.cursor, T, g, known) /\ IsFiniteSet(T)
                 /\ g[n + r.cursor] = f[n + c] \o r.bytes
                 /\ Cardinality(T) = Cardinality(S) + r.hits

\* A turn hands on to the next one.
LEMMA TurnCarries ==
    ASSUME NEW t \in Seq(Byte), NEW n \in 0 .. Len(t), NEW s, s = SubSeq(t, n + 1, Len(t)),
           NEW before \in 0 .. Len(s), NEW known \in Nat,
           \A c \in 0 .. before - 1 : (n + c) + MaximumPatternLength <= known,
           NEW g, NEW cursor \in 0 .. Len(s), g[cursor] = Turn(s, before, g, cursor),
           \A c \in cursor + 1 .. Len(s) : g[c] \in Result(s) /\ g[c].cursor >= before /\ Carries(t, n, c, g[c], known)
    PROVE  g[cursor] \in Result(s) /\ g[cursor].cursor >= before /\ Carries(t, n, cursor, g[cursor], known)
<1>. DEFINE m == n + cursor
            k == MatchLength(s, cursor)
<1>1. /\ s \in Seq(Byte) /\ Len(s) = Len(t) - n /\ Len(s) \in Nat /\ Len(t) \in Nat /\ n \in Nat /\ cursor \in Nat
      /\ k = MatchLength(t, m) /\ k \in 0 .. Len(s) - cursor
  <2>1. s \in Seq(Byte) /\ Len(s) = Len(t) - n /\ MatchLength(s, cursor) = MatchLength(t, n + cursor)
    BY RestIs
  <2>2. Len(s) \in Nat /\ Len(t) \in Nat /\ n \in Nat /\ cursor \in Nat
    BY <2>1, LenProperties
  <2>3. k \in 0 .. Len(s) - cursor
    BY <2>1, MatchLengthIs
  <2>. QED BY <2>1, <2>2, <2>3
<1>2. MaximumPatternLength \in Nat
  BY MaximumIs
<1>3. CASE cursor >= before
  <2>. DEFINE r == [bytes |-> <<>>, hits |-> 0, cursor |-> cursor]
  <2>1. g[cursor] = r
    BY <1>3 DEF Turn
  <2>2. r \in Result(s) /\ r.cursor >= before /\ r.bytes = <<>> /\ r.hits = 0 /\ r.cursor = cursor
    BY <1>3, PieceIs DEF Result
  <2>. HIDE DEF r
  <2>3. ASSUME NEW S, NEW f, Done(t, m, S, f, known), IsFiniteSet(S)
        PROVE  f[m] = f[m] \o <<>> /\ Cardinality(S) = Cardinality(S) + 0
    <3>1. m \in 0 .. m
      BY <1>1
    <3>2. f[m] \in Seq(Elem)
      BY <2>3, <3>1 DEF Done, Written
    <3>3. Cardinality(S) \in Nat
      BY <2>3, FS_CardinalityType
    <3>. QED BY <3>2, <3>3, PieceIs
  <2>4. Carries(t, n, cursor, r, known)
    BY <2>2, <2>3 DEF Carries
  <2>. QED BY <2>1, <2>2, <2>4
<1>4. CASE cursor < before
  <2>1. m \in 0 .. Len(t) - 1 /\ cursor \in 0 .. before - 1 /\ m \in 0 .. m
    BY <1>1, <1>4
  <2>2. m + MaximumPatternLength <= known
    BY <2>1
  <2>3. s[cursor + 1] = t[m + 1]
    <3>1. cursor + 1 \in 1 .. Len(s) /\ n + (cursor + 1) = m + 1
      BY <1>1, <1>4
    <3>. QED BY <3>1, RestIs
  <2>. DEFINE next == IF k = 0 THEN cursor + 1 ELSE cursor + k
              rest == g[next]
              piece == IF k = 0 THEN <<t[m + 1]>> ELSE Redaction
              hit == IF k = 0 THEN 0 ELSE 1
  <2>4. next \in cursor + 1 .. Len(s) /\ n + next = IF k = 0 THEN m + 1 ELSE m + k
    BY <1>1, <1>4
  <2>5. rest \in Result(s) /\ rest.cursor >= before /\ Carries(t, n, next, rest, known)
    BY <2>4
  <2>6. piece \in Seq(Elem) /\ hit \in Nat
    BY <2>1, PieceIs
  <2>7. g[cursor] = [bytes |-> piece \o rest.bytes, hits |-> rest.hits + hit, cursor |-> rest.cursor]
    <3>. HIDE DEF k
    <3>1. CASE k = 0
      <4>1. ~(cursor >= before) /\ rest = g[cursor + 1]
        BY <1>1, <1>4, <3>1
      <4>3. piece = <<s[cursor + 1]>>
        BY <2>3, <3>1
      <4>2. rest.hits + hit = rest.hits
        BY <2>5, <3>1 DEF Result
      <4>. HIDE DEF rest, piece, hit
      <4>. QED BY <3>1, <4>1, <4>2, <4>3 DEF Turn, k
    <3>2. CASE k # 0
      <4>1. ~(cursor >= before) /\ rest = g[cursor + k] /\ piece = Redaction /\ hit = 1
        BY <1>1, <1>4, <3>2
      <4>. HIDE DEF rest, piece, hit
      <4>. QED BY <3>2, <4>1 DEF Turn, k
    <3>. QED BY <3>1, <3>2
  <2>. HIDE DEF k
  <2>8. ASSUME NEW S, NEW f, Done(t, m, S, f, known), IsFiniteSet(S)
        PROVE  \E T, h : /\ Done(t, n + next, T, h, known) /\ IsFiniteSet(T)
                         /\ h[n + next] = f[m] \o piece /\ Cardinality(T) = Cardinality(S) + hit
    <3>0. Cardinality(S) \in Nat
      BY <2>8, FS_CardinalityType
    <3>1. CASE k = 0
      <4>1. Extends(t, m, f, <<t[m + 1]>>, m + 1, S, known)
        <5>1. MatchLength(t, m) = 0 /\ m \in 0 .. Len(t) - 1
          BY <1>1, <2>1, <3>1
        <5>. QED BY <2>2, <2>8, <5>1, DonePlain
      <4>2. n + next = m + 1 /\ piece = <<t[m + 1]>> /\ hit = 0 /\ Cardinality(S) = Cardinality(S) + 0
        BY <2>4, <3>0, <3>1
      <4>. QED BY <2>8, <4>1, <4>2 DEF Extends
    <3>2. CASE k # 0
      <4>1. Extends(t, m, f, Redaction, m + k, S \cup {m}, known)
        <5>1. k = MatchLength(t, m) /\ m \in 0 .. Len(t) - 1
          BY <1>1, <2>1
        <5>. QED BY <2>2, <2>8, <3>2, <5>1, DoneMatch
      <4>2. n + next = m + k /\ piece = Redaction /\ hit = 1
        BY <2>4, <3>2
      <4>3. m \notin S
        BY <1>1, <2>8 DEF Done, Marked
      <4>4. IsFiniteSet(S \cup {m}) /\ Cardinality(S \cup {m}) = Cardinality(S) + 1
        BY <2>8, <4>3, FS_AddElement
      <4>. QED BY <4>1, <4>2, <4>4 DEF Extends
    <3>. QED BY <3>1, <3>2
  <2>. HIDE DEF rest, piece, hit, next, m
  <2>9. g[cursor] \in Result(s) /\ g[cursor].cursor >= before
    <3>1. rest.bytes \in Seq(Elem) /\ rest.hits \in Nat /\ rest.cursor \in 0 .. Len(s)
      BY <2>5 DEF Result
    <3>. DEFINE all == piece \o rest.bytes
    <3>2. all \in Seq(Elem) /\ rest.hits + hit \in Nat
      BY <2>6, <3>1, PieceIs
    <3>3. g[cursor] = [bytes |-> all, hits |-> rest.hits + hit, cursor |-> rest.cursor]
      BY <2>7
    <3>. HIDE DEF all
    <3>. QED BY <2>5, <3>1, <3>2, <3>3 DEF Result
  <2>10. Carries(t, n, cursor, g[cursor], known)
    <3>. DEFINE r == g[cursor]
    <3>0. r.cursor = rest.cursor /\ r.bytes = piece \o rest.bytes /\ r.hits = rest.hits + hit
      BY <2>7
    <3>. HIDE DEF r
    <3>. SUFFICES ASSUME NEW S, NEW f, Done(t, m, S, f, known), IsFiniteSet(S)
                  PROVE  \E T, h : /\ Done(t, n + r.cursor, T, h, known) /\ IsFiniteSet(T)
                                   /\ h[n + r.cursor] = f[m] \o r.bytes
                                   /\ Cardinality(T) = Cardinality(S) + r.hits
      BY DEF Carries, m, r
    <3>1. PICK T, h : /\ Done(t, n + next, T, h, known) /\ IsFiniteSet(T)
                      /\ h[n + next] = f[m] \o piece /\ Cardinality(T) = Cardinality(S) + hit
      BY <2>8
    <3>2. PICK U, i : /\ Done(t, n + rest.cursor, U, i, known) /\ IsFiniteSet(U)
                      /\ i[n + rest.cursor] = h[n + next] \o rest.bytes
                      /\ Cardinality(U) = Cardinality(T) + rest.hits
      BY <2>5, <3>1 DEF Carries
    <3>3. f[m] \in Seq(Elem) /\ rest.bytes \in Seq(Elem) /\ rest.hits \in Nat
      BY <2>1, <2>5 DEF Done, Written, Result
    <3>4. (f[m] \o piece) \o rest.bytes = f[m] \o (piece \o rest.bytes)
      BY <2>6, <3>3, ElemsAssociate
    <3>5. Cardinality(S) \in Nat
      BY FS_CardinalityType
    <3>6. (Cardinality(S) + hit) + rest.hits = Cardinality(S) + (rest.hits + hit)
      BY <2>6, <3>3, <3>5
    <3>. QED BY <3>0, <3>1, <3>2, <3>4, <3>6
  <2>. QED BY <2>9, <2>10
<1>. QED BY <1>1, <1>3, <1>4

\* And so the whole loop, from its first cursor on.
LEMMA ScanCarries ==
    ASSUME NEW t \in Seq(Byte), NEW n \in 0 .. Len(t), NEW s, s = SubSeq(t, n + 1, Len(t)),
           NEW before \in 0 .. Len(s), NEW known \in Nat,
           \A c \in 0 .. before - 1 : (n + c) + MaximumPatternLength <= known
    PROVE  LET r == Scan(s, before) IN r \in Result(s) /\ r.cursor >= before /\ Carries(t, n, 0, r, known)
<1>1. s \in Seq(Byte)
  BY RestIs
<1>2. Len(s) \in Nat
  BY <1>1, LenProperties
<1>3. PICK g : Scan(s, before) = g[0] /\ \A c \in 0 .. Len(s) : g[c] = Turn(s, before, g, c)
  BY <1>1, ScanIs
<1>. DEFINE Good(c) == g[c] \in Result(s) /\ g[c].cursor >= before /\ Carries(t, n, c, g[c], known)
            bad == {k \in 0 .. Len(s) : ~Good(Len(s) - k)}
<1>4. ASSUME NEW c \in 0 .. Len(s), \A d \in c + 1 .. Len(s) : Good(d) PROVE Good(c)
  BY <1>3, <1>4, TurnCarries
<1>. HIDE DEF Good
<1>5. bad = {}
  <2>. SUFFICES ASSUME bad # {} PROVE FALSE
    OBVIOUS
  <2>1. bad \subseteq Nat
    BY <1>2
  <2>2. PICK k \in bad : \A j \in bad : k <= j
    BY <2>1, LeastPosition
  <2>3. k \in 0 .. Len(s) /\ ~Good(Len(s) - k) /\ Len(s) - k \in 0 .. Len(s)
    BY <1>2, <2>2
  <2>4. ASSUME NEW d \in (Len(s) - k) + 1 .. Len(s) PROVE Good(d)
    <3>1. Len(s) - d \in 0 .. Len(s) /\ Len(s) - d < k /\ Len(s) - (Len(s) - d) = d
      BY <1>2, <2>3
    <3>2. Len(s) - d \notin bad
      <4>. SUFFICES ASSUME Len(s) - d \in bad PROVE FALSE
        OBVIOUS
      <4>1. k <= Len(s) - d /\ k \in Nat /\ Len(s) - d \in Nat
        BY <2>1, <2>2
      <4>. HIDE DEF bad
      <4>. QED BY <3>1, <4>1
    <3>. QED BY <3>1, <3>2
  <2>. QED BY <1>4, <2>3, <2>4
<1>6. Good(0)
  <2>1. Len(s) \in 0 .. Len(s) /\ Len(s) - Len(s) = 0
    BY <1>2
  <2>. QED BY <1>5, <2>1
<1>. QED BY <1>3, <1>6 DEF Good

\* A pattern that fits into a text starts where it did when the text grows.
LEMMA StartsStays ==
    ASSUME NEW t \in Seq(Byte), NEW u \in Seq(Byte), Len(t) <= Len(u), \A k \in 1 .. Len(t) : u[k] = t[k],
           NEW i \in 0 .. Len(t), NEW p \in Patterns, i + Len(p) <= Len(t)
    PROVE  StartsWith(u, i, p) <=> StartsWith(t, i, p)
<1>1. Len(t) \in Nat /\ Len(u) \in Nat /\ Len(p) \in Nat /\ p \in Seq(Byte)
  BY LenProperties, RedactorAssumption
<1>2. i \in 0 .. Len(u) /\ i + Len(p) <= Len(u) /\ \A k \in 1 .. Len(p) : i + k \in 1 .. Len(t)
  BY <1>1
<1>3. StartsWith(u, i, p) <=> i + Len(p) <= Len(u) /\ \A k \in 1 .. Len(p) : u[i + k] = p[k]
  BY <1>1, <1>2, StartsIs
<1>4. StartsWith(t, i, p) <=> i + Len(p) <= Len(t) /\ \A k \in 1 .. Len(p) : t[i + k] = p[k]
  BY <1>1, StartsIs
<1>. QED BY <1>2, <1>3, <1>4

\* What was done does not change when more of the text arrives.
LEMMA DoneStays ==
    ASSUME NEW t \in Seq(Byte), NEW more \in Seq(Byte), NEW m \in 0 .. Len(t), NEW S, NEW f,
           Done(t, m, S, f, Len(t))
    PROVE  Done(t \o more, m, S, f, Len(t \o more))
<1>. DEFINE u == t \o more
            b == MaximumPatternLength
<1>1. m \in Nat /\ Len(t) \in Nat /\ Len(more) \in Nat /\ b \in Nat /\ m <= Len(t)
  BY LenProperties, MaximumIs
<1>2. u \in Seq(Byte) /\ Len(u) = Len(t) + Len(more) /\ \A k \in 1 .. Len(t) : u[k] = t[k]
  <2>1. /\ u \in Seq(Byte) /\ Len(u) = Len(t) + Len(more)
        /\ \A k \in 1 .. Len(t) + Len(more) : u[k] = IF k <= Len(t) THEN t[k] ELSE more[k - Len(t)]
    BY ConcatProperties
  <2>. HIDE DEF u
  <2>. QED BY <1>1, <2>1
<1>. HIDE DEF u, b
<1>3. ASSUME NEW i \in 0 .. Len(t), i + b <= Len(t), NEW p \in Patterns
      PROVE  StartsWith(u, i, p) <=> StartsWith(t, i, p)
  <2>1. p \in Seq(Byte) /\ Len(p) \in Nat /\ Len(p) <= b /\ i \in 0 .. Len(u)
    BY <1>1, <1>2, RedactorAssumption, MaximumIs DEF b
  <2>2. i + Len(p) <= Len(t) /\ Len(t) <= Len(u)
    BY <1>1, <1>2, <1>3, <2>1
  <2>. QED BY <1>2, <2>2, StartsStays
<1>4. S \subseteq 0 .. m - 1 /\ \A j \in S : j \in 0 .. Len(t) /\ j + b <= Len(t)
  BY <1>1 DEF Done, Marked, b
<1>5. \A j \in S : \A p \in Patterns : StartsWith(u, j, p) <=> StartsWith(t, j, p)
  BY <1>3, <1>4
<1>6. \A i : (Clears(u, S, i) <=> Clears(t, S, i)) /\ (Covered(u, S, i) <=> Covered(t, S, i))
  BY <1>5 DEF Clears, Covered
<1>7. ASSUME NEW i \in 0 .. m - 1 PROVE i \in S <=> Starts(u, i) /\ Clears(u, S, i)
  <2>1. i \in 0 .. Len(t)
    BY <1>1
  <2>2. CASE i + b <= Len(t)
    <3>1. Starts(u, i) <=> Starts(t, i)
      BY <1>3, <2>1, <2>2 DEF Starts
    <3>. QED BY <1>6, <3>1 DEF Done, Marked
  <2>3. CASE ~Clears(t, S, i)
    BY <1>6, <2>3 DEF Done, Marked
  <2>. QED BY <2>2, <2>3 DEF Done, Marked, b
<1>8. Marked(u, m, S, Len(u))
  <2>1. \A j \in S : j + b <= Len(u)
    BY <1>1, <1>2, <1>4
  <2>2. ASSUME NEW i \in 0 .. m - 1 PROVE i + b <= Len(u) \/ ~Clears(u, S, i)
    <3>1. i + b <= Len(t) \/ ~Clears(t, S, i)
      BY DEF Done, Marked, b
    <3>. QED BY <1>1, <1>2, <1>6, <3>1
  <2>3. Clears(u, S, m)
    BY <1>6 DEF Done, Marked
  <2>. QED BY <1>4, <1>7, <2>1, <2>2, <2>3 DEF Marked, b
<1>9. Written(u, m, S, f)
  <2>1. Written(t, m, S, f)
    BY DEF Done
  <2>2. ASSUME NEW k \in 1 .. m PROVE Piece(u, S, k - 1) = Piece(t, S, k - 1)
    <3>1. (k - 1) + 1 = k /\ k \in 1 .. Len(t)
      BY <1>1
    <3>2. u[(k - 1) + 1] = t[(k - 1) + 1]
      BY <1>2, <3>1
    <3>. QED BY <1>6, <3>2 DEF Piece
  <2>. QED BY <2>1, <2>2 DEF Written
<1>10. ASSUME ApartFromRedaction PROVE Unseen(u, m, S, f[m])
  <2>1. Unseen(t, m, S, f[m])
    BY <1>10 DEF Done
  <2>2. ASSUME NEW n, n <= m, NEW k \in 1 .. n, n \in Nat PROVE u[m - n + k] = t[m - n + k]
    <3>1. m - n + k \in 1 .. Len(t)
      BY <1>1, <2>2
    <3>. QED BY <1>2, <3>1
  <2>3. \A p \in Patterns : Len(p) \in Nat
    BY MaximumIs
  <2>4. \A p \in Patterns : \A n \in 1 .. Len(p) : n \in Nat
    BY <2>3
  <2>. QED BY <1>6, <2>1, <2>2, <2>4 DEF Unseen
<1>. QED BY <1>8, <1>9, <1>10 DEF Done, u

\* The cap on what was written is the cap on all of it.
LEMMA CapIs ==
    ASSUME NEW whole \in Seq(Elem), NEW more \in Seq(Elem)
    PROVE  /\ Capped(Capped(whole) \o more) = Capped(whole \o more)
           /\ (Len(whole) > Limit \/ Len(Capped(whole) \o more) > Limit) <=> Len(whole \o more) > Limit
           /\ Capped(whole) \in Seq(Elem) /\ Len(Capped(whole)) <= Limit
           /\ \A k \in 1 .. Len(Capped(whole)) : Capped(whole)[k] = whole[k]
           /\ Len(Capped(whole)) <= Len(whole)
<1>1. Limit \in Nat /\ Len(whole) \in Nat /\ Len(more) \in Nat
  BY RedactorAssumption, LenProperties
<1>2. ASSUME NEW s \in Seq(Elem)
      PROVE  /\ Capped(s) \in Seq(Elem) /\ Len(Capped(s)) = IF Len(s) <= Limit THEN Len(s) ELSE Limit
             /\ \A k \in 1 .. Len(Capped(s)) : Capped(s)[k] = s[k]
  <2>0. Len(s) \in Nat
    BY LenProperties
  <2>1. CASE Len(s) <= Limit
    BY <2>1 DEF Capped
  <2>2. CASE ~(Len(s) <= Limit)
    <3>1. \A i \in 1 .. Limit : s[i] \in Elem
      BY <1>1, <2>0, <2>2, ElementOfSeq
    <3>. DEFINE c == SubSeq(s, 1, Limit)
    <3>2. /\ c \in Seq(Elem) /\ Len(c) = IF 1 <= Limit THEN Limit - 1 + 1 ELSE 0
          /\ \A i \in 1 .. Limit - 1 + 1 : c[i] = s[1 + i - 1]
      BY <1>1, <3>1, SubSeqProperties
    <3>. HIDE DEF c
    <3>3. Len(c) = Limit /\ \A k \in 1 .. Limit : c[k] = s[k]
      BY <1>1, <3>2
    <3>. QED BY <2>2, <3>2, <3>3 DEF Capped, c
  <2>. QED BY <2>1, <2>2
<1>. DEFINE a == Capped(whole) \o more
            b == whole \o more
<1>3. Capped(whole) \in Seq(Elem) /\ Len(Capped(whole)) \in Nat
  BY <1>1, <1>2
<1>4. /\ a \in Seq(Elem) /\ Len(a) = Len(Capped(whole)) + Len(more)
      /\ \A k \in 1 .. Len(Capped(whole)) + Len(more) :
            a[k] = IF k <= Len(Capped(whole)) THEN Capped(whole)[k] ELSE more[k - Len(Capped(whole))]
  BY <1>3, ConcatProperties
<1>5. /\ b \in Seq(Elem) /\ Len(b) = Len(whole) + Len(more)
      /\ \A k \in 1 .. Len(whole) + Len(more) : b[k] = IF k <= Len(whole) THEN whole[k] ELSE more[k - Len(whole)]
  BY ConcatProperties
<1>6. CASE Len(whole) <= Limit
  <2>1. Capped(whole) = whole
    BY <1>6 DEF Capped
  <2>. QED BY <1>1, <1>2, <1>6, <2>1
<1>7. CASE ~(Len(whole) <= Limit)
  <2>. HIDE DEF a, b
  <2>1. Len(Capped(whole)) = Limit /\ \A k \in 1 .. Limit : Capped(whole)[k] = whole[k]
    BY <1>1, <1>2, <1>7
  <2>2. Len(Capped(a)) = Limit /\ Len(Capped(b)) = Limit /\ Len(b) > Limit
    <3>1. a \in Seq(Elem) /\ Len(a) = Limit + Len(more) /\ b \in Seq(Elem) /\ Len(b) > Limit /\ Len(b) \in Nat
      BY <1>1, <1>4, <1>5, <1>7, <2>1
    <3>2. Len(Capped(a)) = IF Len(a) <= Limit THEN Len(a) ELSE Limit
      BY <1>2, <3>1
    <3>3. Len(Capped(b)) = IF Len(b) <= Limit THEN Len(b) ELSE Limit
      BY <1>2, <3>1
    <3>4. CASE Len(a) <= Limit
      <4>1. Len(a) = Limit
        BY <1>1, <3>1, <3>4
      <4>2. ~(Len(b) <= Limit)
        BY <1>1, <3>1
      <4>. QED BY <3>1, <3>2, <3>3, <3>4, <4>1, <4>2
    <3>5. CASE ~(Len(a) <= Limit)
      <4>1. ~(Len(b) <= Limit)
        BY <1>1, <3>1
      <4>. QED BY <3>1, <3>2, <3>3, <3>5, <4>1
    <3>. QED BY <3>4, <3>5
  <2>3. ASSUME NEW k \in 1 .. Limit PROVE Capped(a)[k] = Capped(b)[k]
    <3>1. Capped(a)[k] = a[k] /\ Capped(b)[k] = b[k]
      BY <1>2, <1>4, <1>5, <2>2
    <3>2. a[k] = Capped(whole)[k] /\ b[k] = whole[k]
      BY <1>1, <1>4, <1>5, <1>7, <2>1
    <3>. QED BY <2>1, <3>1, <3>2
  <2>4. Capped(a) = Capped(b)
    BY <1>1, <1>2, <1>4, <1>5, <2>2, <2>3, SeqEqual
  <2>. QED BY <1>1, <1>2, <1>7, <2>1, <2>2, <2>4 DEF a, b
<1>. QED BY <1>6, <1>7

-----------------------------------------------------------------------------
(* The redactor between two calls *)

\* Some first m bytes of the text, m at least low, are done; the rest is pending.
Reached(t, low, known, held, out, cut, hits) ==
    \E m \in 0 .. Len(t) : \E S, f :
       /\ low <= m /\ Done(t, m, S, f, known) /\ IsFiniteSet(S)
       /\ held = SubSeq(t, m + 1, Len(t))
       /\ out = Capped(f[m]) /\ (cut <=> Len(f[m]) > Limit)
       /\ hits = Cardinality(S)

\* How far the text is known, and how far it must be done.
Known(t, atEnd) == IF atEnd THEN Len(t) + MaximumPatternLength ELSE Len(t)
Low(t, atEnd) == IF atEnd THEN Len(t) ELSE Len(t) - (MaximumPatternLength - 1)

\* The inductive invariant: what is done with the stream is right, once and for all.
RedactInv ==
    /\ input \in Seq(Byte) /\ truncated \in BOOLEAN /\ finished \in BOOLEAN
    /\ Reached(input, Low(input, finished), Known(input, finished), pending, output, truncated, redactions)

\* What remains of the rest is the rest of the text.
LEMMA RestOfRest ==
    ASSUME NEW t \in Seq(Byte), NEW n \in 0 .. Len(t), NEW c \in 0 .. Len(SubSeq(t, n + 1, Len(t)))
    PROVE  /\ n + c \in 0 .. Len(t)
           /\ SubSeq(SubSeq(t, n + 1, Len(t)), c + 1, Len(SubSeq(t, n + 1, Len(t)))) = SubSeq(t, n + c + 1, Len(t))
<1>. DEFINE s == SubSeq(t, n + 1, Len(t))
            a == SubSeq(s, c + 1, Len(s))
            b == SubSeq(t, (n + c) + 1, Len(t))
<1>1. s \in Seq(Byte) /\ Len(s) = Len(t) - n /\ \A k \in 1 .. Len(s) : s[k] = t[n + k]
  BY RestIs
<1>. HIDE DEF s
<1>2. n \in Nat /\ c \in Nat /\ Len(t) \in Nat /\ Len(s) \in Nat /\ c <= Len(s) /\ n + c \in 0 .. Len(t) /\ c \in 0 .. Len(s)
  BY <1>1, LenProperties DEF s
<1>3. a \in Seq(Byte) /\ Len(a) = Len(s) - c /\ \A k \in 1 .. Len(a) : a[k] = s[c + k]
  BY <1>1, <1>2, RestIs
<1>4. b \in Seq(Byte) /\ Len(b) = Len(t) - (n + c) /\ \A k \in 1 .. Len(b) : b[k] = t[(n + c) + k]
  BY <1>2, RestIs
<1>. HIDE DEF a, b
<1>5. Len(a) = Len(b)
  BY <1>1, <1>2, <1>3, <1>4
<1>6. ASSUME NEW k \in 1 .. Len(a) PROVE a[k] = b[k]
  <2>1. c + k \in 1 .. Len(s) /\ n + (c + k) = (n + c) + k
    BY <1>2, <1>3
  <2>. QED BY <1>1, <1>3, <1>4, <1>5, <2>1
<1>7. a = b
  BY <1>3, <1>4, <1>5, <1>6, SeqEqual
<1>8. n + c + 1 = (n + c) + 1
  BY <1>2
<1>. QED BY <1>2, <1>7, <1>8 DEF a, b, s

\* The rest of a text that has grown is the rest and what came.
LEMMA RestGrows ==
    ASSUME NEW t \in Seq(Byte), NEW more \in Seq(Byte), NEW n \in 0 .. Len(t)
    PROVE  SubSeq(t, n + 1, Len(t)) \o more = SubSeq(t \o more, n + 1, Len(t \o more))
<1>. DEFINE u == t \o more
            s == SubSeq(t, n + 1, Len(t))
            a == s \o more
            b == SubSeq(u, n + 1, Len(u))
<1>1. /\ u \in Seq(Byte) /\ Len(u) = Len(t) + Len(more)
      /\ \A k \in 1 .. Len(t) + Len(more) : u[k] = IF k <= Len(t) THEN t[k] ELSE more[k - Len(t)]
  BY ConcatProperties
<1>2. s \in Seq(Byte) /\ Len(s) = Len(t) - n /\ \A k \in 1 .. Len(s) : s[k] = t[n + k]
  BY RestIs
<1>. HIDE DEF u, s
<1>3. n \in Nat /\ Len(t) \in Nat /\ Len(more) \in Nat /\ Len(s) \in Nat /\ n \in 0 .. Len(u) /\ n <= Len(t)
  BY <1>1, <1>2, LenProperties
<1>4. /\ a \in Seq(Byte) /\ Len(a) = Len(s) + Len(more)
      /\ \A k \in 1 .. Len(s) + Len(more) : a[k] = IF k <= Len(s) THEN s[k] ELSE more[k - Len(s)]
  BY <1>2, ConcatProperties
<1>5. b \in Seq(Byte) /\ Len(b) = Len(u) - n /\ \A k \in 1 .. Len(b) : b[k] = u[n + k]
  BY <1>1, <1>3, RestIs
<1>. HIDE DEF a, b
<1>6. Len(a) = Len(b)
  BY <1>1, <1>2, <1>3, <1>4, <1>5
<1>7. ASSUME NEW k \in 1 .. Len(a) PROVE a[k] = b[k]
  <2>1. n + k \in 1 .. Len(t) + Len(more) /\ k \in 1 .. Len(s) + Len(more) /\ k \in Nat
    BY <1>1, <1>2, <1>3, <1>4
  <2>2. b[k] = IF n + k <= Len(t) THEN t[n + k] ELSE more[(n + k) - Len(t)]
    BY <1>1, <1>5, <1>6, <2>1
  <2>3. a[k] = IF k <= Len(s) THEN s[k] ELSE more[k - Len(s)]
    BY <1>4, <2>1
  <2>4. CASE k <= Len(s)
    <3>1. n + k <= Len(t) /\ k \in 1 .. Len(s)
      BY <1>2, <1>3, <2>1, <2>4
    <3>. QED BY <1>2, <2>2, <2>3, <2>4, <3>1
  <2>5. CASE ~(k <= Len(s))
    <3>1. ~(n + k <= Len(t)) /\ (n + k) - Len(t) = k - Len(s)
      BY <1>2, <1>3, <2>1, <2>5
    <3>. QED BY <2>2, <2>3, <2>5, <3>1
  <2>. QED BY <2>4, <2>5
<1>8. a = b
  BY <1>4, <1>5, <1>6, <1>7, SeqEqual
<1>. QED BY <1>8 DEF a, b, u, s

\* Less need not be known.
LEMMA DoneLater ==
    ASSUME NEW t \in Seq(Byte), NEW m \in 0 .. Len(t), NEW S, NEW f, NEW known \in Nat, NEW later \in Nat,
           Done(t, m, S, f, known), known <= later
    PROVE  Done(t, m, S, f, later)
<1>1. m \in Nat /\ MaximumPatternLength \in Nat
  BY MaximumIs, LenProperties
<1>2. S \subseteq 0 .. m - 1 /\ \A i \in 0 .. m - 1 : i \in Nat
  BY <1>1 DEF Done, Marked
<1>3. \A i \in Nat : i + MaximumPatternLength <= known => i + MaximumPatternLength <= later
  BY <1>1
<1>4. Marked(t, m, S, later)
  BY <1>2, <1>3 DEF Done, Marked
<1>. QED BY <1>4 DEF Done

\* A call of process() does what is left to do.
LEMMA ProcessReaches ==
    ASSUME NEW t \in Seq(Byte), NEW s, NEW low, NEW atEnd \in BOOLEAN, truncated \in BOOLEAN,
           Reached(t, low, Known(t, atEnd), s, output, truncated, redactions), Process(s, atEnd)
    PROVE  /\ Reached(t, Low(t, atEnd), Known(t, atEnd), pending', output', truncated', redactions')
           /\ truncated' \in BOOLEAN
<1>. DEFINE b == MaximumPatternLength
            known == Known(t, atEnd)
            before == ProcessBefore(s, atEnd)
            r == Scan(s, before)
<1>1. Len(t) \in Nat /\ b \in Nat \ {0} /\ known \in Nat
  BY MaximumIs, LenProperties DEF Known
<1>2. PICK n \in 0 .. Len(t) : \E S, f :
         /\ Done(t, n, S, f, known) /\ IsFiniteSet(S)
         /\ s = SubSeq(t, n + 1, Len(t))
         /\ output = Capped(f[n]) /\ (truncated <=> Len(f[n]) > Limit)
         /\ redactions = Cardinality(S)
  BY DEF Reached
<1>3. PICK S, f :
         /\ Done(t, n, S, f, known) /\ IsFiniteSet(S)
         /\ s = SubSeq(t, n + 1, Len(t))
         /\ output = Capped(f[n]) /\ (truncated <=> Len(f[n]) > Limit)
         /\ redactions = Cardinality(S)
  BY <1>2
<1>. HIDE DEF b, known
<1>4. s \in Seq(Byte) /\ Len(s) = Len(t) - n /\ Len(s) \in Nat /\ n \in Nat
  BY <1>1, <1>2, <1>3, RestIs, LenProperties
<1>5. before = IF atEnd THEN Len(s) ELSE IF Len(s) < b THEN 0 ELSE Len(s) - (b - 1)
  BY DEF ProcessBefore, b
<1>6. known = IF atEnd THEN Len(t) + b ELSE Len(t)
  BY DEF Known, known, b
<1>. HIDE DEF before
<1>7. before \in 0 .. Len(s) /\ \A c \in 0 .. before - 1 : (n + c) + b <= known
  <2>1. CASE atEnd
    BY <1>1, <1>4, <1>5, <1>6, <2>1
  <2>2. CASE ~atEnd /\ Len(s) < b
    BY <1>1, <1>4, <1>5, <1>6, <2>2
  <2>3. CASE ~atEnd /\ ~(Len(s) < b)
    <3>1. before = Len(s) - (b - 1) /\ known = Len(t)
      BY <1>5, <1>6, <2>3
    <3>. QED BY <1>1, <1>4, <2>3, <3>1
  <2>. QED BY <2>1, <2>2, <2>3
<1>8. r \in Result(s) /\ r.cursor >= before /\ Carries(t, n, 0, r, known)
  <2>1. \A c \in 0 .. before - 1 : (n + c) + MaximumPatternLength <= known
    BY <1>7 DEF b
  <2>. QED BY <1>1, <1>2, <1>3, <1>7, <2>1, ScanCarries
<1>9. r.bytes \in Seq(Elem) /\ r.hits \in Nat /\ r.cursor \in 0 .. Len(s)
  BY <1>8 DEF Result
<1>10. /\ output' = Capped(output \o r.bytes) /\ truncated' = (truncated \/ Len(output \o r.bytes) > Limit)
       /\ redactions' = redactions + r.hits /\ pending' = SubSeq(s, r.cursor + 1, Len(s))
  BY DEF Process, before
<1>. HIDE DEF r
<1>. DEFINE m == n + r.cursor
<1>11. m \in 0 .. Len(t) /\ pending' = SubSeq(t, m + 1, Len(t))
  BY <1>2, <1>3, <1>9, <1>10, RestOfRest
<1>12. n + 0 = n
  BY <1>4
<1>13. PICK T, g : /\ Done(t, m, T, g, known) /\ IsFiniteSet(T)
                   /\ g[m] = f[n] \o r.bytes
                   /\ Cardinality(T) = Cardinality(S) + r.hits
  BY <1>3, <1>8, <1>12 DEF Carries
<1>14. f[n] \in Seq(Elem)
  BY <1>3, <1>4 DEF Done, Written
<1>15. /\ Capped(Capped(f[n]) \o r.bytes) = Capped(g[m])
       /\ (Len(f[n]) > Limit \/ Len(Capped(f[n]) \o r.bytes) > Limit) <=> Len(g[m]) > Limit
  BY <1>9, <1>13, <1>14, CapIs
<1>16. output' = Capped(g[m])
  BY <1>3, <1>10, <1>15
<1>17. truncated' <=> Len(g[m]) > Limit
  <2>1. output \o r.bytes = Capped(f[n]) \o r.bytes
    BY <1>3
  <2>. QED BY <1>3, <1>10, <1>15, <2>1
<1>18. truncated' \in BOOLEAN /\ redactions' = Cardinality(T)
  BY <1>3, <1>10, <1>13
<1>19. Low(t, atEnd) <= m
  <2>1. Low(t, atEnd) = IF atEnd THEN Len(t) ELSE Len(t) - (b - 1)
    BY DEF Low, b
  <2>. QED BY <1>1, <1>4, <1>5, <1>8, <1>9, <2>1
<1>. HIDE DEF m
<1>. QED BY <1>11, <1>13, <1>16, <1>17, <1>18, <1>19 DEF Reached, known

\* What is done stays so when a chunk arrives.
LEMMA ReachedGrows ==
    ASSUME NEW t \in Seq(Byte), NEW more \in Seq(Byte), NEW low, NEW held, NEW out, NEW cut, NEW hits,
           Reached(t, low, Known(t, FALSE), held, out, cut, hits)
    PROVE  Reached(t \o more, low, Known(t \o more, FALSE), held \o more, out, cut, hits)
<1>. DEFINE u == t \o more
<1>1. PICK m \in 0 .. Len(t) : \E S, f :
         /\ low <= m /\ Done(t, m, S, f, Len(t)) /\ IsFiniteSet(S)
         /\ held = SubSeq(t, m + 1, Len(t)) /\ out = Capped(f[m]) /\ (cut <=> Len(f[m]) > Limit)
         /\ hits = Cardinality(S)
  BY DEF Reached, Known
<1>2. PICK S, f :
         /\ low <= m /\ Done(t, m, S, f, Len(t)) /\ IsFiniteSet(S)
         /\ held = SubSeq(t, m + 1, Len(t)) /\ out = Capped(f[m]) /\ (cut <=> Len(f[m]) > Limit)
         /\ hits = Cardinality(S)
  BY <1>1
<1>3. Done(u, m, S, f, Len(u))
  BY <1>2, DoneStays
<1>4. held \o more = SubSeq(u, m + 1, Len(u))
  BY <1>2, RestGrows
<1>5. m \in 0 .. Len(u)
  <2>1. Len(u) = Len(t) + Len(more) /\ Len(t) \in Nat /\ Len(more) \in Nat
    BY ConcatProperties, LenProperties
  <2>. HIDE DEF u
  <2>. QED BY <2>1
<1>. HIDE DEF u
<1>6. Known(u, FALSE) = Len(u)
  BY DEF Known
<1>. QED BY <1>2, <1>3, <1>4, <1>5, <1>6 DEF Reached, u

\* Init establishes the invariant.
LEMMA RedactInvInit == Init => RedactInv
<1>. SUFFICES ASSUME Init PROVE RedactInv
  OBVIOUS
<1>. DEFINE none == [k \in 0 .. 0 |-> <<>>]
<1>1. /\ input = <<>> /\ pending = <<>> /\ output = <<>> /\ truncated = FALSE /\ redactions = 0 /\ finished = FALSE
      /\ input \in Seq(Byte) /\ Len(input) = 0
  BY EmptySeq DEF Init
<1>2. Limit \in Nat /\ MaximumPatternLength \in Nat \ {0}
  BY RedactorAssumption, MaximumIs
<1>3. Done(input, 0, {}, none, 0)
  BY <1>1, DoneNothing
<1>4. Capped(<<>>) = <<>> /\ Len(<<>>) = 0 /\ ~(0 > Limit) /\ none[0] = <<>>
  BY <1>2, EmptySeq DEF Capped
<1>5. Low(input, finished) <= 0 /\ Known(input, finished) = 0
  BY <1>1, <1>2 DEF Low, Known
<1>6. SubSeq(input, 0 + 1, Len(input)) = <<>>
  <2>1. 0 \in 0 .. Len(input)
    BY <1>1
  <2>2. SubSeq(input, 0 + 1, Len(input)) \in Seq(Byte) /\ Len(SubSeq(input, 0 + 1, Len(input))) = Len(input) - 0
    BY <1>1, <2>1, RestIs
  <2>. QED BY <1>1, <2>2, EmptySeq
<1>7. IsFiniteSet({}) /\ Cardinality({}) = 0
  BY FS_EmptySet
<1>8. 0 \in 0 .. Len(input)
  BY <1>1
<1>. HIDE DEF none
<1>9. Reached(input, Low(input, finished), Known(input, finished), pending, output, truncated, redactions)
  BY <1>1, <1>3, <1>4, <1>5, <1>6, <1>7, <1>8 DEF Reached
<1>. QED BY <1>1, <1>9 DEF RedactInv

\* A push keeps it: what was done stays right and the new bytes are added to what was held back.
LEMMA RedactInvPush ==
    ASSUME RedactInv, NEW chunk \in Chunk, Push(chunk)
    PROVE  RedactInv'
<1>1. chunk \in Seq(Byte)
  BY SeqDef DEF Chunk
<1>2. ~finished /\ input' = input \o chunk /\ Process(pending \o chunk, FALSE) /\ finished' = finished
  BY DEF Push
<1>3. input \in Seq(Byte) /\ truncated \in BOOLEAN /\ finished = FALSE
  BY <1>2 DEF RedactInv
<1>4. Reached(input, Low(input, FALSE), Known(input, FALSE), pending, output, truncated, redactions)
  BY <1>3 DEF RedactInv
<1>5. Reached(input', Low(input, FALSE), Known(input', FALSE), pending \o chunk, output, truncated, redactions)
  BY <1>1, <1>2, <1>3, <1>4, ReachedGrows
<1>6. input' \in Seq(Byte)
  BY <1>1, <1>2, <1>3, ConcatProperties
<1>7. /\ Reached(input', Low(input', FALSE), Known(input', FALSE), pending', output', truncated', redactions')
      /\ truncated' \in BOOLEAN
  BY <1>2, <1>3, <1>5, <1>6, ProcessReaches
<1>8. finished' = FALSE
  BY <1>2, <1>3
<1>. QED BY <1>6, <1>7, <1>8 DEF RedactInv, Reached, Low, Known

\* Finish keeps it: the end of the stream is as good as bytes that complete no secret.
LEMMA RedactInvFinish ==
    ASSUME RedactInv, Finish
    PROVE  RedactInv'
<1>1. ~finished /\ input' = input /\ Process(pending, TRUE) /\ finished' = TRUE
  BY DEF Finish
<1>2. input \in Seq(Byte) /\ truncated \in BOOLEAN /\ finished = FALSE
  BY <1>1 DEF RedactInv
<1>3. Len(input) \in Nat /\ Len(input) + MaximumPatternLength \in Nat /\ Len(input) <= Len(input) + MaximumPatternLength
  BY <1>2, LenProperties, MaximumIs
<1>4. Known(input, FALSE) = Len(input) /\ Known(input, TRUE) = Len(input) + MaximumPatternLength
  BY DEF Known
<1>5. Reached(input, Low(input, FALSE), Known(input, FALSE), pending, output, truncated, redactions)
  BY <1>2 DEF RedactInv
<1>6. Reached(input, Low(input, FALSE), Known(input, TRUE), pending, output, truncated, redactions)
  <2>1. \A m \in 0 .. Len(input) : \A S, f : Done(input, m, S, f, Known(input, FALSE)) => Done(input, m, S, f, Known(input, TRUE))
    BY <1>2, <1>3, <1>4, DoneLater
  <2>. QED BY <1>5, <2>1 DEF Reached
<1>7. /\ Reached(input, Low(input, TRUE), Known(input, TRUE), pending', output', truncated', redactions')
      /\ truncated' \in BOOLEAN
  BY <1>1, <1>2, <1>6, ProcessReaches
<1>. QED BY <1>1, <1>2, <1>7 DEF RedactInv, Reached, Low, Known

\* The invariant holds in every reachable state of the redactor.
THEOREM RedactInvariance == Spec => []RedactInv
<1>1. Init => RedactInv
  BY RedactInvInit
<1>2. RedactInv /\ [Next]_vars => RedactInv'
  <2>. SUFFICES ASSUME RedactInv, [Next]_vars PROVE RedactInv'
    OBVIOUS
  <2>1. CASE \E chunk \in Chunk : Len(input) + Len(chunk) <= MaxInput /\ Push(chunk)
    BY <2>1, RedactInvPush
  <2>2. CASE Finish
    BY <2>2, RedactInvFinish
  <2>3. CASE UNCHANGED vars
    BY <2>3 DEF vars, RedactInv, Reached, Low, Known
  <2>. QED BY <2>1, <2>2, <2>3 DEF Next
<1>. QED BY <1>1, <1>2, PTL DEF Spec

\* Type correctness (TypeOK): only bytes of the stream and of the marker come out, and there are no
\* more redactions than bytes dealt with, so that the counter of process() is bounded by bytes_read.
THEOREM RedactorTypes == Spec => []TypeOK
<1>1. RedactInv => TypeOK
  <2>. SUFFICES ASSUME RedactInv PROVE TypeOK
    OBVIOUS
  <2>1. input \in Seq(Byte) /\ Len(input) \in Nat /\ truncated \in BOOLEAN /\ finished \in BOOLEAN
    BY LenProperties DEF RedactInv
  <2>2. PICK m, S, f :
           /\ m \in 0 .. Len(input) /\ S \subseteq 0 .. m - 1 /\ Written(input, m, S, f) /\ pending = SubSeq(input, m + 1, Len(input))
           /\ output = Capped(f[m]) /\ redactions = Cardinality(S)
    BY DEF RedactInv, Reached, Done, Marked
  <2>3. pending \in Seq(Byte) /\ Len(pending) = Len(input) - m
    BY <2>1, <2>2, RestIs
  <2>4. f[m] \in Seq(Elem)
    BY <2>1, <2>2 DEF Written
  <2>5. output \in Seq(Elem)
    BY <2>2, <2>4, CapIs
  <2>6. IsFiniteSet(0 .. m - 1) /\ Cardinality(0 .. m - 1) = m
    <3>1. 0 \in Int /\ m - 1 \in Int /\ m = IF 0 > m - 1 THEN 0 ELSE (m - 1) - 0 + 1
      BY <2>1, <2>2
    <3>. QED BY <3>1, FS_Interval
  <2>7. Cardinality(S) \in Nat /\ Cardinality(S) <= m
    BY <2>2, <2>6, FS_Subset, FS_CardinalityType
  <2>8. redactions \in 0 .. Len(input) - Len(pending)
    BY <2>1, <2>2, <2>3, <2>7
  <2>. QED BY <2>1, <2>3, <2>5, <2>8 DEF TypeOK, Elem
<1>. QED BY <1>1, RedactInvariance, PTL

\* The bound on the memory the redactor holds (PendingBounded): less than one secret is
\* pending between calls, and the output never exceeds its limit.
THEOREM HoldsBackLittle == Spec => []PendingBounded
<1>1. RedactInv => PendingBounded
  <2>. SUFFICES ASSUME RedactInv PROVE PendingBounded
    OBVIOUS
  <2>1. input \in Seq(Byte) /\ Len(input) \in Nat /\ MaximumPatternLength \in Nat \ {0} /\ finished \in BOOLEAN
    BY LenProperties, MaximumIs DEF RedactInv
  <2>2. PICK m, S, f :
           /\ m \in 0 .. Len(input) /\ Low(input, finished) <= m /\ Written(input, m, S, f)
           /\ pending = SubSeq(input, m + 1, Len(input)) /\ output = Capped(f[m])
    BY DEF RedactInv, Reached, Done
  <2>3. Len(pending) = Len(input) - m
    BY <2>1, <2>2, RestIs
  <2>4. Len(pending) < MaximumPatternLength
    BY <2>1, <2>2, <2>3 DEF Low
  <2>5. f[m] \in Seq(Elem)
    BY <2>1, <2>2 DEF Written
  <2>6. Len(output) <= Limit
    BY <2>2, <2>5, CapIs
  <2>. QED BY <2>4, <2>6 DEF PendingBounded
<1>. QED BY <1>1, RedactInvariance, PTL

\* The purpose of the redactor (NoSecretInOutput): no secret is in the captured output, however
\* the stream is cut and however secrets overlap, if no secret can share a place with the marker.
THEOREM NoSecretComesOut == ASSUME ApartFromRedaction PROVE Spec => []NoSecretInOutput
<1>1. RedactInv => NoSecretInOutput
  <2>. SUFFICES ASSUME RedactInv, NEW p \in Patterns, Occurs(p, output) PROVE FALSE
    BY DEF NoSecretInOutput
  <2>1. PICK m, S, f :
           m \in 0 .. Len(input) /\ Written(input, m, S, f) /\ Unseen(input, m, S, f[m]) /\ output = Capped(f[m])
    BY DEF RedactInv, Reached, Done
  <2>2. m \in 0 .. m
    BY <2>1, LenProperties DEF RedactInv
  <2>. DEFINE whole == f[m]
              cap == Capped(whole)
  <2>3. whole \in Seq(Elem) /\ p \in Seq(Elem) /\ Len(p) \in Nat
    <3>1. p \in Seq(Byte) /\ Byte \subseteq Elem
      BY RedactorAssumption DEF Elem
    <3>. QED BY <2>1, <2>2, <3>1, MaximumIs DEF Written
  <2>4. ~Occurs(p, whole)
    BY <2>1 DEF Unseen
  <2>. HIDE DEF whole
  <2>5. /\ cap \in Seq(Elem) /\ Len(cap) <= Len(whole) /\ \A k \in 1 .. Len(cap) : cap[k] = whole[k]
        /\ Len(cap) \in Nat /\ Len(whole) \in Nat
    BY <2>3, CapIs, LenProperties
  <2>6. Occurs(p, cap)
    BY <2>1 DEF whole
  <2>. HIDE DEF cap
  <2>7. PICK offset \in 0 .. Len(cap) : StartsWith(cap, offset, p)
    BY <2>6 DEF Occurs
  <2>8. offset + Len(p) <= Len(cap) /\ \A k \in 1 .. Len(p) : cap[offset + k] = p[k]
    BY <2>3, <2>5, <2>7, StartsIs
  <2>9. offset \in 0 .. Len(whole) /\ offset + Len(p) <= Len(whole) /\ \A k \in 1 .. Len(p) : offset + k \in 1 .. Len(cap)
    BY <2>3, <2>5, <2>8
  <2>10. \A k \in 1 .. Len(p) : whole[offset + k] = p[k]
    BY <2>5, <2>8, <2>9
  <2>11. StartsWith(whole, offset, p)
    BY <2>3, <2>9, <2>10, StartsIs
  <2>. QED BY <2>4, <2>9, <2>11 DEF Occurs
<1>. QED BY <1>1, RedactInvariance, PTL

-----------------------------------------------------------------------------
(* The reference has one solution, and the redactor finds it *)

\* The equation that defines the matches of a text.
IsMatches(t, S) ==
    S \in SUBSET (0 .. Len(t)) /\ \A i \in 0 .. Len(t) : i \in S <=> Starts(t, i) /\ Clears(t, S, i)

LEMMA MatchesUnique ==
    ASSUME NEW t \in Seq(Byte), NEW S, NEW T, IsMatches(t, S), IsMatches(t, T)
    PROVE  S = T
<1>. DEFINE diff == {i \in 0 .. Len(t) : ~(i \in S <=> i \in T)}
<1>1. S \subseteq 0 .. Len(t) /\ T \subseteq 0 .. Len(t) /\ diff \subseteq Nat
  BY LenProperties DEF IsMatches
<1>2. SUFFICES ASSUME diff # {} PROVE FALSE
  BY <1>1
<1>3. PICK i \in diff : \A j \in diff : i <= j
  BY <1>1, <1>2, LeastPosition
<1>4. ASSUME NEW j \in 0 .. Len(t), j < i PROVE j \in S <=> j \in T
  <2>1. j \notin diff
    <3>. SUFFICES ASSUME j \in diff PROVE FALSE
      OBVIOUS
    <3>1. i <= j /\ i \in Nat /\ j \in Nat
      BY <1>1, <1>3
    <3>. QED BY <1>4, <3>1
  <2>. QED BY <2>1
<1>5. Clears(t, S, i) <=> Clears(t, T, i)
  BY <1>1, <1>4 DEF Clears
<1>. QED BY <1>3, <1>5 DEF IsMatches

LEMMA MatchesIs ==
    ASSUME NEW t \in Seq(Byte), NEW S, NEW known, Marked(t, Len(t), S, known)
    PROVE  Matches(t) = S
<1>1. Len(t) \in Nat
  BY LenProperties
<1>2. S \subseteq 0 .. Len(t) - 1 /\ \A i \in 0 .. Len(t) - 1 : i \in S <=> Starts(t, i) /\ Clears(t, S, i)
  BY DEF Marked
<1>3. ~Starts(t, Len(t))
  <2>1. \A p \in Patterns : Len(p) \in Nat \ {0}
    BY MaximumIs
  <2>. QED BY <1>1, <2>1 DEF Starts, StartsWith
<1>4. Len(t) \notin S /\ S \in SUBSET (0 .. Len(t)) /\ \A i \in 0 .. Len(t) : i \in 0 .. Len(t) - 1 \/ i = Len(t)
  BY <1>1, <1>2
<1>5. IsMatches(t, S)
  BY <1>2, <1>3, <1>4 DEF IsMatches
<1>. DEFINE M == CHOOSE T \in SUBSET (0 .. Len(t)) : \A i \in 0 .. Len(t) : i \in T <=> Starts(t, i) /\ Clears(t, T, i)
<1>6. IsMatches(t, M)
  BY <1>5 DEF IsMatches
<1>7. Matches(t) = M
  BY DEF Matches, Starts, Clears
<1>. HIDE DEF M
<1>. QED BY <1>5, <1>6, <1>7, MatchesUnique

LEMMA RedactedIs ==
    ASSUME NEW t \in Seq(Byte), NEW S, NEW f, Matches(t) = S, Written(t, Len(t), S, f)
    PROVE  Redacted(t) = f[Len(t)]
<1>. DEFINE Step(g, n) == IF n = 0 THEN <<>> ELSE g[n - 1] \o Piece(t, S, n - 1)
            upTo == CHOOSE g : g = [n \in 0 .. Len(t) |-> Step(g, n)]
            diff == {n \in 0 .. Len(t) : upTo[n] # f[n]}
<1>1. Len(t) \in Nat
  BY LenProperties
<1>2. f = [n \in 0 .. Len(t) |-> Step(f, n)]
  <2>1. ASSUME NEW n \in 0 .. Len(t) PROVE f[n] = Step(f, n)
    <3>1. n = 0 \/ n \in 1 .. Len(t)
      BY <1>1
    <3>2. CASE n = 0
      BY <3>2 DEF Written
    <3>3. CASE n # 0
      BY <3>1, <3>3 DEF Written
    <3>. QED BY <3>2, <3>3
  <2>. HIDE DEF Step
  <2>2. f \in [0 .. Len(t) -> Seq(Elem)]
    BY DEF Written
  <2>. QED BY <2>1, <2>2
<1>3. Redacted(t) = upTo[Len(t)]
  <2>1. \A n \in 0 .. Len(t) : (n - 1) + 1 = n
    BY <1>1
  <2>. QED BY <2>1 DEF Redacted, Piece, Covered
<1>. HIDE DEF Step
<1>4. upTo = [n \in 0 .. Len(t) |-> Step(upTo, n)]
  BY <1>2
<1>. HIDE DEF upTo
<1>5. diff = {}
  <2>. SUFFICES ASSUME diff # {} PROVE FALSE
    OBVIOUS
  <2>1. diff \subseteq Nat
    BY <1>1
  <2>2. PICK n \in diff : \A k \in diff : n <= k
    BY <2>1, LeastPosition
  <2>3. n \in 0 .. Len(t) /\ upTo[n] # f[n] /\ n \in Nat
    BY <2>1, <2>2
  <2>4. upTo[n] = Step(upTo, n) /\ f[n] = Step(f, n)
    BY <1>2, <1>4, <2>3
  <2>5. n # 0
    BY <2>3, <2>4 DEF Step
  <2>6. n - 1 \in 0 .. Len(t) /\ n - 1 \notin diff
    <3>1. n - 1 \in 0 .. Len(t) /\ ~(n <= n - 1)
      BY <1>1, <2>3, <2>5
    <3>. QED BY <2>2, <3>1
  <2>7. upTo[n - 1] = f[n - 1]
    BY <2>6
  <2>. QED BY <2>3, <2>4, <2>5, <2>7 DEF Step
<1>. QED BY <1>1, <1>3, <1>5

\* The result is that of the whole stream (ChunkingInvisible): the redactor's output, flag and count
\* are those of the reference applied to all bytes at once, wherever push() was called with a part of a secret.
THEOREM ChunksDoNotShow == Spec => []ChunkingInvisible
<1>1. RedactInv => ChunkingInvisible
  <2>. SUFFICES ASSUME RedactInv, finished
                PROVE  /\ output = Capped(Redacted(input)) /\ (truncated <=> Len(Redacted(input)) > Limit)
                       /\ redactions = Cardinality(Matches(input))
    BY DEF ChunkingInvisible
  <2>1. input \in Seq(Byte) /\ Len(input) \in Nat
    BY LenProperties DEF RedactInv
  <2>2. PICK m, S, f :
           /\ m \in 0 .. Len(input) /\ Low(input, finished) <= m /\ Marked(input, m, S, Known(input, finished)) /\ Written(input, m, S, f)
           /\ output = Capped(f[m]) /\ (truncated <=> Len(f[m]) > Limit) /\ redactions = Cardinality(S)
    BY DEF RedactInv, Reached, Done
  <2>3. m = Len(input)
    BY <2>1, <2>2 DEF Low
  <2>4. Matches(input) = S
    BY <2>1, <2>2, <2>3, MatchesIs
  <2>5. Redacted(input) = f[m]
    BY <2>1, <2>2, <2>3, <2>4, RedactedIs
  <2>. QED BY <2>2, <2>4, <2>5
<1>. QED BY <1>1, RedactInvariance, PTL

=============================================================================
