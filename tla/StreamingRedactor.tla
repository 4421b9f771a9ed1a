-------------------------- MODULE StreamingRedactor --------------------------
(***************************************************************************)
(* blindfold-exec's StreamingRedactor: secrets are replaced in a byte      *)
(* stream that arrives in chunks of any size, with the output capped.  The *)
(* redactor holds back as many bytes as a secret that is still incomplete  *)
(* may need.                                                               *)
(***************************************************************************)
EXTENDS Integers, Sequences, FiniteSets

CONSTANTS
    Byte,        \* bytes of the stream
    Patterns,    \* the injected secrets, non-empty byte sequences
    Redaction,   \* the bytes of REDACTION
    Limit,       \* output_bytes_per_stream
    MaxInput     \* bound: length of the stream

ASSUME RedactorAssumption ==
    /\ Patterns \subseteq Seq(Byte) \ {<<>>} /\ IsFiniteSet(Patterns)
    /\ Redaction \in Seq(STRING) /\ Limit \in Nat /\ MaxInput \in Nat

VARIABLES
    input,        \* every byte pushed so far
    pending,      \* pushed, not yet written out
    output,       \* BoundedOutput.bytes
    truncated,    \* BoundedOutput.truncated
    redactions,
    finished      \* finish() has been called

vars == <<input, pending, output, truncated, redactions, finished>>

Init ==
    /\ input = <<>> /\ pending = <<>> /\ output = <<>>
    /\ truncated = FALSE /\ redactions = 0 /\ finished = FALSE

-----------------------------------------------------------------------------
\* maximum_pattern_length, 1 if there is no pattern.
MaximumPatternLength ==
    IF Patterns = {} THEN 1
    ELSE CHOOSE n \in {Len(p) : p \in Patterns} : \A p \in Patterns : Len(p) <= n

StartsWith(s, offset, p) ==
    /\ offset + Len(p) <= Len(s)
    /\ SubSeq(s, offset + 1, offset + Len(p)) = p

\* Mutant of MatchLength: the patterns are tried shortest first.
MatchLengthShortest(s, offset) ==
    LET found == {Len(p) : p \in {q \in Patterns : StartsWith(s, offset, q)}}
    IN IF found = {} THEN 0 ELSE CHOOSE n \in found : \A m \in found : n <= m

\* match_length: the patterns are tried longest first; 0 stands for None.
MatchLength(s, offset) ==
    LET found == {Len(p) : p \in {q \in Patterns : StartsWith(s, offset, q)}}
    IN IF found = {} THEN 0 ELSE CHOOSE n \in found : \A m \in found : m <= n

\* Mutants of ProcessBefore: nothing is held back; one byte too many is.
ProcessBeforeEager(s, atEnd) == Len(s)
ProcessBeforeLazy(s, atEnd) ==
    IF atEnd THEN Len(s)
    ELSE IF Len(s) < MaximumPatternLength THEN 0 ELSE Len(s) - MaximumPatternLength

ProcessBefore(s, atEnd) ==
    IF atEnd THEN Len(s)
    ELSE IF Len(s) < MaximumPatternLength THEN 0
    ELSE Len(s) - (MaximumPatternLength - 1)

\* The loop of process(): from the cursor on, what it writes, how many matches
\* it replaces and where the cursor stops.
Scan(s, before) ==
    LET from[cursor \in 0 .. Len(s)] ==
          IF cursor >= before THEN [bytes |-> <<>>, hits |-> 0, cursor |-> cursor]
          ELSE LET n == MatchLength(s, cursor)
                   rest == from[IF n = 0 THEN cursor + 1 ELSE cursor + n]
               IN IF n = 0
                  THEN [bytes |-> <<s[cursor + 1]>> \o rest.bytes, hits |-> rest.hits, cursor |-> rest.cursor]
                  ELSE [bytes |-> Redaction \o rest.bytes, hits |-> rest.hits + 1, cursor |-> rest.cursor]
    IN from[0]

\* BoundedOutput::push, for all the bytes of one call of process().
Capped(bytes) == IF Len(bytes) <= Limit THEN bytes ELSE SubSeq(bytes, 1, Limit)

Process(s, atEnd) ==
    LET done == Scan(s, ProcessBefore(s, atEnd)) IN
    /\ output' = Capped(output \o done.bytes)
    /\ truncated' = (truncated \/ Len(output \o done.bytes) > Limit)
    /\ redactions' = redactions + done.hits
    /\ pending' = SubSeq(s, done.cursor + 1, Len(s))

Push(chunk) ==
    /\ ~finished
    /\ input' = input \o chunk
    /\ Process(pending \o chunk, FALSE)
    /\ UNCHANGED finished

Finish ==
    /\ ~finished
    /\ Process(pending, TRUE)
    /\ finished' = TRUE
    /\ UNCHANGED input

Chunk == UNION {[1 .. n -> Byte] : n \in 1 .. MaxInput}

Next ==
    \/ \E chunk \in Chunk : Len(input) + Len(chunk) <= MaxInput /\ Push(chunk)
    \/ Finish

Spec == Init /\ [][Next]_vars

-----------------------------------------------------------------------------
(* Properties *)

TypeOK ==
    /\ input \in Seq(Byte) /\ pending \in Seq(Byte)
    /\ output \in Seq(Byte \cup {Redaction[n] : n \in DOMAIN Redaction})
    /\ truncated \in BOOLEAN /\ finished \in BOOLEAN /\ redactions \in 0 .. Len(input) - Len(pending)

Occurs(p, s) == \E offset \in 0 .. Len(s) : StartsWith(s, offset, p)

\* No secret can share a place with REDACTION: laid over it in any way, one byte differs.
ApartFromRedaction ==
    /\ Redaction # <<>>
    /\ \A p \in Patterns : \A shift \in 1 - Len(p) .. Len(Redaction) - 1 :
          \E k \in 1 .. Len(p) : k + shift \in 1 .. Len(Redaction) /\ p[k] # Redaction[k + shift]

\* No secret is ever in the captured output, wherever the chunks split it and
\* whatever overlaps it; the secrets being ApartFromRedaction, for the marker and the
\* bytes beside it may spell any other secret without a byte of it in the stream.
NoSecretInOutput == \A p \in Patterns : ~Occurs(p, output)

\* Between calls the redactor holds back less than one secret, however long the
\* stream is: pending cannot grow with the output of the child.
PendingBounded == Len(pending) < MaximumPatternLength /\ Len(output) <= Limit

\* The reference: the matches of a text are the positions where a secret starts
\* and that no earlier match covers; a match extends over the longest secret.
Matches(text) ==
    CHOOSE S \in SUBSET (0 .. Len(text)) :
       \A i \in 0 .. Len(text) :
          i \in S <=> /\ \E p \in Patterns : StartsWith(text, i, p)
                      /\ \A j \in S : j < i => \A p \in Patterns :
                            StartsWith(text, j, p) => j + Len(p) <= i

\* The text with every match replaced, position by position.
Redacted(text) ==
    LET S == Matches(text)
        Covered(i) == \E j \in S : j <= i /\ \E p \in Patterns :
                         StartsWith(text, j, p) /\ i < j + Len(p)
        upTo[n \in 0 .. Len(text)] ==
           IF n = 0 THEN <<>>
           ELSE upTo[n - 1] \o (IF n - 1 \in S THEN Redaction
                                ELSE IF Covered(n - 1) THEN <<>> ELSE <<text[n]>>)
    IN upTo[Len(text)]

\* The result does not depend on how the stream was cut into chunks: it is the
\* redacted text of the whole stream, cut at Limit bytes, and the flag and the
\* number of redactions are those of the whole stream.
ChunkingInvisible ==
    finished =>
       /\ output = Capped(Redacted(input))
       /\ truncated <=> Len(Redacted(input)) > Limit
       /\ redactions = Cardinality(Matches(input))
=============================================================================
