------------------------------ MODULE LogProofs ------------------------------
(***************************************************************************)
(* Theorems about RotatingLog for every number of processes, of retained   *)
(* generations and of appends, every size limit and every line length.     *)
(***************************************************************************)
EXTENDS RotatingLog, SequenceTheorems, TLAPS

-----------------------------------------------------------------------------
(* The invariant *)

RecsOf(f) == {f.pieces[n].rec : n \in 1 .. Len(f.pieces)}

Sorted(f) == \A n \in 1 .. Len(f.pieces) : \A m \in 1 .. n - 1 : f.pieces[m].rec < f.pieces[n].rec

\* Whoever is past the lock holds it.
Mutex == \A p \in Proc : pc[p] \in Inside => lock = p

\* The files, whatever step of a rotation, of a clear or of an append was the last.
FilesInv ==
    /\ \A g \in Gen : Sorted(files[g]) /\ (~files[g].there => files[g] = NoFile)
    /\ \A g \in Gen : \A r \in RecsOf(files[g]) : r <= serial
    /\ \A g, h \in Gen : g < h => \A r \in RecsOf(files[g]), q \in RecsOf(files[h]) : q < r
    /\ isTrace => \A g \in Gen : files[g].size <= MaxBytes
    /\ \A r \in acked :
          (\E g \in Gen : r \in RecsOf(files[g])) \/ \A g \in Gen : \A q \in RecsOf(files[g]) : r < q

Increasing(s) == \A n \in 1 .. Len(s) : \A m \in 1 .. n - 1 : s[m] < s[n]

\* The generations whose records a read has collected.
Collected(p) ==
    IF pc[p] = "answer" THEN IF isTrace THEN Gen ELSE {0}
    ELSE IF isTrace THEN {g \in Gen : g > step[p]} ELSE {}

\* An append, before its line is written: its record is new, and there will be room.
Appending(p) ==
    /\ pc[p] \in {"lockAppend", "measure", "rotate", "open", "write"} =>
          len[p] \in LineLen /\ (isTrace => len[p] <= MaxBytes)
    /\ pc[p] \in {"measure", "rotate", "open", "write"} =>
          /\ serial > 0 /\ serial \notin acked
          /\ \A g \in Gen : \A r \in RecsOf(files[g]) : r < serial
    /\ pc[p] = "rotate" /\ step[p] < Retained => files[step[p] + 1] = NoFile
    /\ pc[p] \in {"open", "write"} /\ isTrace => files[0].size + len[p] <= MaxBytes

\* An append, after that.
Appended(p) ==
    /\ pc[p] = "newline" /\ isTrace => files[0].size < MaxBytes
    /\ pc[p] \in {"newline", "sync"} => serial > 0 /\ serial \in RecsOf(files[0])

\* A read has the records of the files it has been through, and only those.
Reading(p) ==
    IF pc[p] \in {"read", "answer"}
    THEN /\ Increasing(got[p])
         /\ \A v : (\E n \in 1 .. Len(got[p]) : got[p][n] = v) <=>
                   (\E g \in Collected(p) : v \in RecsOf(files[g]))
         /\ pc[p] = "read" /\ ~isTrace => step[p] = 0
    ELSE got[p] = <<>>

ProcInv(p) == Appending(p) /\ Appended(p) /\ Reading(p) /\ (pc[p] = "clear" => acked = {})

LogInv == TypeOK /\ Mutex /\ FilesInv /\ \A p \in Proc : ProcInv(p)

-----------------------------------------------------------------------------
(* Files *)

\* A missing file has no records.
LEMMA EmptyFile == NoFile \in File /\ RecsOf(NoFile) = {} /\ Sorted(NoFile) /\ NoFile.size = 0
BY DEF NoFile, File, RecsOf, Sorted

\* The bytes of a line add their record at the end of the file.
LEMMA Added ==
    ASSUME NEW f \in File, NEW part \in {"line", "bare", "torn"}, NEW bytes \in Nat, serial \in Nat,
           Sorted(f), \A r \in RecsOf(f) : r < serial, NEW a, a = AddPiece(f, part, bytes)
    PROVE  /\ a \in File /\ a.there /\ a.size = f.size + bytes
           /\ Sorted(a) /\ RecsOf(a) = RecsOf(f) \cup {serial}
<1>. DEFINE piece == [rec |-> serial, part |-> part]
            s == Append(f.pieces, piece)
            k == Len(f.pieces)
<1>1. f.pieces \in Seq(Piece) /\ f.size \in Nat /\ piece \in Piece /\ piece.rec = serial /\ k \in Nat
  BY DEF File, Piece
<1>. HIDE DEF piece
<1>2. /\ s \in Seq(Piece) /\ Len(s) = k + 1 /\ s[k + 1] = piece
      /\ \A n \in 1 .. k : s[n] = f.pieces[n]
  BY <1>1
<1>3. a.there = TRUE /\ a.pieces = s /\ a.size = f.size + bytes /\ a = [there |-> TRUE, pieces |-> s, size |-> f.size + bytes]
  BY DEF AddPiece, piece
<1>4. a \in File
  <2>. DEFINE b == f.size + bytes
  <2>1. b \in Nat
    BY <1>1
  <2>. HIDE DEF b, s
  <2>. QED BY <1>2, <1>3, <2>1 DEF File, b
<1>. HIDE DEF s, k
<1>5. \A n \in 1 .. k : f.pieces[n].rec \in RecsOf(f)
  BY DEF RecsOf, k
<1>6. Sorted(a)
  <2>. SUFFICES ASSUME NEW n \in 1 .. k + 1, NEW m \in 1 .. n - 1
                PROVE  s[m].rec < s[n].rec
    BY <1>2, <1>3 DEF Sorted
  <2>1. CASE n = k + 1
    <3>1. m \in 1 .. k
      BY <1>1, <2>1
    <3>. QED BY <1>1, <1>2, <1>5, <2>1, <3>1
  <2>2. CASE n # k + 1
    <3>1. n \in 1 .. k /\ m \in 1 .. k
      BY <1>1, <2>2
    <3>. QED BY <1>2, <3>1 DEF Sorted, k
  <2>. QED BY <2>1, <2>2
<1>7. RecsOf(a) = RecsOf(f) \cup {serial}
  <2>1. RecsOf(a) = {s[n].rec : n \in 1 .. k + 1}
    BY <1>2, <1>3 DEF RecsOf
  <2>2. \A n \in 1 .. k + 1 : n \in 1 .. k \/ n = k + 1
    BY <1>1
  <2>3. k + 1 \in 1 .. k + 1 /\ \A n \in 1 .. k : n \in 1 .. k + 1
    BY <1>1
  <2>4. RecsOf(f) = {f.pieces[n].rec : n \in 1 .. k}
    BY DEF RecsOf, k
  <2>5. \A v \in RecsOf(a) : v \in RecsOf(f) \cup {serial}
    BY <1>1, <1>2, <2>1, <2>2, <2>4
  <2>6. \A v \in RecsOf(f) \cup {serial} : v \in RecsOf(a)
    BY <1>1, <1>2, <2>1, <2>3, <2>4
  <2>. QED BY <2>5, <2>6
<1>. QED BY <1>3, <1>4, <1>6, <1>7

\* Files with the same records in the same places are equally sorted.
LEMMA SameRecs ==
    ASSUME NEW f, NEW a, Len(a.pieces) = Len(f.pieces),
           \A n \in 1 .. Len(f.pieces) : a.pieces[n].rec = f.pieces[n].rec
    PROVE  RecsOf(a) = RecsOf(f) /\ (Len(f.pieces) \in Nat /\ Sorted(f) => Sorted(a))
<1>1. RecsOf(a) = RecsOf(f)
  BY DEF RecsOf
<1>2. ASSUME Len(f.pieces) \in Nat, Sorted(f) PROVE Sorted(a)
  <2>1. \A n \in 1 .. Len(f.pieces) : \A m \in 1 .. n - 1 : m \in 1 .. Len(f.pieces)
    BY <1>2
  <2>. QED BY <1>2, <2>1 DEF Sorted
<1>. QED BY <1>1, <1>2

\* Records are numbers.
LEMMA RecsNat ==
    ASSUME NEW f \in File
    PROVE  \A r \in RecsOf(f) : r \in Nat
<1>1. \A n \in 1 .. Len(f.pieces) : f.pieces[n] \in Piece
  BY DEF File
<1>. QED BY <1>1 DEF RecsOf, Piece

\* The newline makes the last piece a line.
LEMMA Newlined ==
    ASSUME NEW f \in File, RecsOf(f) # {}
    PROVE  LET a == [f EXCEPT !.pieces[Len(f.pieces)].part = "line", !.size = @ + 1]
           IN  /\ a \in File /\ a.there = f.there /\ a.size = f.size + 1
               /\ RecsOf(a) = RecsOf(f) /\ (Sorted(f) => Sorted(a))
<1>. DEFINE k == Len(f.pieces)
            s == [f.pieces EXCEPT ![k] = [@ EXCEPT !.part = "line"]]
            z == f.size + 1
            a == [f EXCEPT !.pieces[Len(f.pieces)].part = "line", !.size = @ + 1]
<1>1. f.pieces \in Seq(Piece) /\ f.size \in Nat /\ k \in Nat /\ f.there \in BOOLEAN
  BY DEF File
<1>2. k \in 1 .. k
  BY <1>1 DEF RecsOf
<1>3. f.pieces[k] \in Piece
  BY <1>1, <1>2
<1>4. [f.pieces[k] EXCEPT !.part = "line"] \in Piece /\ [f.pieces[k] EXCEPT !.part = "line"].rec = f.pieces[k].rec
  BY <1>3 DEF Piece
<1>5. s \in Seq(Piece) /\ Len(s) = k /\ \A n \in 1 .. k : s[n].rec = f.pieces[n].rec
  BY <1>1, <1>2, <1>4
<1>6. z \in Nat
  BY <1>1
<1>7. a = [f EXCEPT !.pieces = s, !.size = z]
  BY DEF File
<1>. HIDE DEF a, s, z
<1>8. a \in File /\ a.there = f.there /\ a.size = z /\ a.pieces = s
  BY <1>5, <1>6, <1>7 DEF File
<1>9. RecsOf(a) = RecsOf(f) /\ (Sorted(f) => Sorted(a))
  BY <1>1, <1>5, <1>8, SameRecs
<1>. QED BY <1>8, <1>9 DEF a, z

-----------------------------------------------------------------------------
(* What the steps do to the files *)

\* A file keeps its records.
LEMMA Kept ==
    ASSUME TypeOK, FilesInv, NEW g \in Gen, NEW f \in File, files' = [files EXCEPT ![g] = f],
           RecsOf(f) = RecsOf(files[g]), Sorted(f), f.there, isTrace => f.size <= MaxBytes,
           UNCHANGED <<isTrace, serial, acked>>
    PROVE  FilesInv' /\ files' \in [Gen -> File] /\ \A h \in Gen : RecsOf(files'[h]) = RecsOf(files[h])
<1>1. files' \in [Gen -> File] /\ files'[g] = f /\ \A h \in Gen \ {g} : files'[h] = files[h]
  BY DEF TypeOK
<1>2. \A h \in Gen : RecsOf(files'[h]) = RecsOf(files[h])
  BY <1>1
<1>3. \A h \in Gen : Sorted(files'[h]) /\ (~files'[h].there => files'[h] = NoFile)
  BY <1>1 DEF FilesInv
<1>4. isTrace => \A h \in Gen : files'[h].size <= MaxBytes
  BY <1>1 DEF FilesInv
<1>. QED BY <1>1, <1>2, <1>3, <1>4 DEF FilesInv

\* The active file gets a record newer than all others.
LEMMA Grown ==
    ASSUME TypeOK, FilesInv, NEW f \in File, files' = [files EXCEPT ![0] = f], LogAssumption,
           RecsOf(f) = RecsOf(files[0]) \cup {serial}, Sorted(f), f.there, isTrace => f.size <= MaxBytes,
           serial \notin acked, \A g \in Gen : \A r \in RecsOf(files[g]) : r < serial,
           UNCHANGED <<isTrace, serial, acked>>
    PROVE  FilesInv' /\ files' \in [Gen -> File] /\ serial \in RecsOf(files'[0])
<1>0. 0 \in Gen /\ \A g \in Gen : g \in Nat
  BY LogAssumption DEF Gen
<1>1. files' \in [Gen -> File] /\ files'[0] = f /\ \A h \in Gen \ {0} : files'[h] = files[h]
  BY <1>0 DEF TypeOK
<1>2. \A h \in Gen : Sorted(files'[h]) /\ (~files'[h].there => files'[h] = NoFile)
  BY <1>1 DEF FilesInv
<1>3. \A h \in Gen : \A r \in RecsOf(files'[h]) : r <= serial
  BY <1>1 DEF FilesInv, TypeOK
<1>4. \A g, h \in Gen : g < h => \A r \in RecsOf(files'[g]), q \in RecsOf(files'[h]) : q < r
  <2>. SUFFICES ASSUME NEW g \in Gen, NEW h \in Gen, g < h,
                       NEW r \in RecsOf(files'[g]), NEW q \in RecsOf(files'[h])
                PROVE  q < r
    OBVIOUS
  <2>1. h # 0
    BY <1>0
  <2>2. q \in RecsOf(files[h])
    BY <1>1, <2>1
  <2>3. CASE r \in RecsOf(files[g])
    BY <2>2, <2>3 DEF FilesInv
  <2>4. CASE r \notin RecsOf(files[g])
    BY <1>1, <2>2, <2>4
  <2>. QED BY <2>3, <2>4
<1>5. isTrace => \A h \in Gen : files'[h].size <= MaxBytes
  BY <1>1 DEF FilesInv
<1>6. ASSUME NEW r \in acked
      PROVE  (\E g \in Gen : r \in RecsOf(files'[g])) \/ \A g \in Gen : \A q \in RecsOf(files'[g]) : r < q
  <2>1. r \in Nat /\ r < serial
    BY DEF TypeOK
  <2>2. CASE \E g \in Gen : r \in RecsOf(files[g])
    BY <1>1, <2>2
  <2>3. CASE \A g \in Gen : \A q \in RecsOf(files[g]) : r < q
    BY <1>1, <2>1, <2>3
  <2>. QED BY <2>2, <2>3 DEF FilesInv
<1>. QED BY <1>0, <1>1, <1>2, <1>3, <1>4, <1>5, <1>6 DEF FilesInv

\* A file is removed: the oldest, or any when nothing acknowledged counts any more.
LEMMA Removed ==
    ASSUME TypeOK, FilesInv, NEW g \in Gen, files' = [files EXCEPT ![g] = NoFile], LogAssumption,
           g = Retained \/ acked = {}, UNCHANGED <<isTrace, serial, acked>>
    PROVE  /\ FilesInv' /\ files' \in [Gen -> File] /\ files'[g] = NoFile
           /\ \A h \in Gen : RecsOf(files'[h]) \subseteq RecsOf(files[h])
<1>0. Gen \subseteq Nat /\ \A h \in Gen : h <= Retained
  BY LogAssumption DEF Gen
<1>1. files' \in [Gen -> File] /\ files'[g] = NoFile /\ \A h \in Gen \ {g} : files'[h] = files[h]
  BY EmptyFile DEF TypeOK
<1>2. \A h \in Gen : RecsOf(files'[h]) = IF h = g THEN {} ELSE RecsOf(files[h])
  BY <1>1, EmptyFile
<1>3. \A h \in Gen : Sorted(files'[h]) /\ (~files'[h].there => files'[h] = NoFile)
  BY <1>1, EmptyFile DEF FilesInv
<1>4. isTrace => \A h \in Gen : files'[h].size <= MaxBytes
  BY <1>1, EmptyFile, LogAssumption DEF FilesInv
<1>5. \A h \in Gen : \A r \in RecsOf(files'[h]) : r \in RecsOf(files[h])
  BY <1>2
<1>6. ASSUME NEW r \in acked
      PROVE  (\E h \in Gen : r \in RecsOf(files'[h])) \/ \A h \in Gen : \A q \in RecsOf(files'[h]) : r < q
  <2>1. g = Retained
    OBVIOUS
  <2>2. CASE r \in RecsOf(files[g])
    <3>1. \A h \in Gen : \A q \in RecsOf(files'[h]) : h < g /\ q \in RecsOf(files[h])
      BY <1>0, <1>2, <2>1
    <3>. QED BY <2>2, <3>1 DEF FilesInv
  <2>3. CASE \E h \in Gen \ {g} : r \in RecsOf(files[h])
    BY <1>2, <2>3
  <2>4. CASE \A h \in Gen : \A q \in RecsOf(files[h]) : r < q
    BY <1>5, <2>4
  <2>. QED BY <2>2, <2>3, <2>4 DEF FilesInv
<1>. QED BY <1>1, <1>3, <1>4, <1>5, <1>6 DEF FilesInv

\* A rename onto a generation that is missing moves the records and loses none.
LEMMA Moved ==
    ASSUME TypeOK, FilesInv, NEW g \in Gen, g + 1 \in Gen, files[g + 1] = NoFile, files' = Shifted(g),
           LogAssumption, UNCHANGED <<isTrace, serial, acked>>
    PROVE  /\ FilesInv' /\ files' \in [Gen -> File] /\ files'[g] = NoFile
           /\ \A h \in Gen : \A r \in RecsOf(files'[h]) : \E i \in Gen : r \in RecsOf(files[i])
<1>0. Gen \subseteq Nat /\ g # g + 1
  BY LogAssumption DEF Gen
<1>1. /\ files' \in [Gen -> File] /\ files'[g] = NoFile /\ files'[g + 1] = files[g]
      /\ \A h \in Gen \ {g, g + 1} : files'[h] = files[h]
  <2>1. CASE files[g].there
    BY <1>0, <2>1, EmptyFile DEF Shifted, TypeOK
  <2>2. CASE ~files[g].there
    <3>1. files' = files /\ files[g] = NoFile
      BY <2>2 DEF Shifted, FilesInv
    <3>. QED BY <3>1 DEF TypeOK
  <2>. QED BY <2>1, <2>2
<1>2. \A h \in Gen : Sorted(files'[h]) /\ (~files'[h].there => files'[h] = NoFile)
  BY <1>1, EmptyFile DEF FilesInv
<1>3. isTrace => \A h \in Gen : files'[h].size <= MaxBytes
  BY <1>1, EmptyFile, LogAssumption DEF FilesInv
<1>4. \A h \in Gen : RecsOf(files'[h]) = IF h = g THEN {} ELSE IF h = g + 1 THEN RecsOf(files[g]) ELSE RecsOf(files[h])
  BY <1>0, <1>1, EmptyFile
<1>5. RecsOf(files[g + 1]) = {}
  BY EmptyFile
<1>6. \A h \in Gen : \A r \in RecsOf(files'[h]) : r <= serial
  BY <1>4 DEF FilesInv
<1>7. \A i, h \in Gen : i < h => \A r \in RecsOf(files'[i]), q \in RecsOf(files'[h]) : q < r
  <2>. SUFFICES ASSUME NEW i \in Gen, NEW h \in Gen, i < h,
                       NEW r \in RecsOf(files'[i]), NEW q \in RecsOf(files'[h])
                PROVE  q < r
    OBVIOUS
  <2>1. CASE i = g + 1
    <3>1. r \in RecsOf(files[g]) /\ h # g + 1 /\ h # g /\ g < h
      BY <1>0, <1>4, <2>1
    <3>. QED BY <1>4, <3>1 DEF FilesInv
  <2>2. CASE h = g + 1
    <3>1. q \in RecsOf(files[g]) /\ i # g + 1 /\ i # g /\ i < g
      BY <1>0, <1>4, <2>2
    <3>. QED BY <1>4, <3>1 DEF FilesInv
  <2>3. CASE i # g + 1 /\ h # g + 1
    BY <1>4, <2>3 DEF FilesInv
  <2>. QED BY <2>1, <2>2, <2>3
<1>8. \A h \in Gen : \A r \in RecsOf(files'[h]) : \E i \in Gen : r \in RecsOf(files[i])
  BY <1>4
<1>9. \A i \in Gen : \A r \in RecsOf(files[i]) : \E h \in Gen : r \in RecsOf(files'[h])
  BY <1>4, <1>5
<1>10. ASSUME NEW r \in acked
       PROVE  (\E h \in Gen : r \in RecsOf(files'[h])) \/ \A h \in Gen : \A q \in RecsOf(files'[h]) : r < q
  <2>1. CASE \E i \in Gen : r \in RecsOf(files[i])
    BY <1>9, <2>1
  <2>2. CASE \A i \in Gen : \A q \in RecsOf(files[i]) : r < q
    BY <1>8, <2>2
  <2>. QED BY <2>1, <2>2 DEF FilesInv
<1>. QED BY <1>1, <1>2, <1>3, <1>6, <1>7, <1>8, <1>10 DEF FilesInv

-----------------------------------------------------------------------------
(* The steps *)

\* A step of one process leaves the others where they were: either the shared
\* state stays, or no other process is past the lock.
LEMMA Others ==
    ASSUME LogInv, NEW p \in Proc, isTrace' = isTrace, LogAssumption,
           \A q \in Proc \ {p} : pc'[q] = pc[q] /\ len'[q] = len[q] /\ step'[q] = step[q] /\ got'[q] = got[q],
           UNCHANGED <<files, serial, acked>> \/ lock \in {p, NoProc}
    PROVE  \A q \in Proc \ {p} : ProcInv(q)'
<1>. SUFFICES ASSUME NEW q \in Proc \ {p} PROVE ProcInv(q)'
  OBVIOUS
<1>1. ProcInv(q) /\ pc'[q] = pc[q] /\ len'[q] = len[q] /\ step'[q] = step[q] /\ got'[q] = got[q]
  BY DEF LogInv
<1>2. CASE UNCHANGED <<files, serial, acked>>
  BY <1>1, <1>2 DEF ProcInv, Appending, Appended, Reading, Collected
<1>3. CASE lock \in {p, NoProc}
  <2>1. pc[q] \notin Inside
    BY <1>3, LogAssumption DEF LogInv, Mutex
  <2>. QED BY <1>1, <2>1 DEF ProcInv, Appending, Appended, Reading, Inside
<1>. QED BY <1>2, <1>3

\* A process leaves its call.
LEMMA Leaving ==
    ASSUME LogInv, LogAssumption, NEW p \in Proc, Leave(p), UNCHANGED <<isTrace, serial>>,
           UNCHANGED <<files, acked>> \/ pc[p] \in Inside,
           files' \in [Gen -> File], acked' \subseteq 1 .. serial, FilesInv'
    PROVE  LogInv'
<1>1. TypeOK /\ Mutex
  BY DEF LogInv
<1>2. 0 \in Gen /\ NoProc \notin Proc
  BY LogAssumption DEF Gen
<1>3. /\ pc' \in [Proc -> PC] /\ pc'[p] = "idle" /\ \A q \in Proc \ {p} : pc'[q] = pc[q]
      /\ len' \in [Proc -> LineLen \cup {0}] /\ \A q \in Proc \ {p} : len'[q] = len[q]
      /\ step' \in [Proc -> Gen] /\ \A q \in Proc \ {p} : step'[q] = step[q]
  BY <1>1, <1>2 DEF Leave, Goto, TypeOK, PC
<1>4. got' \in [Proc -> Seq(Nat)] /\ got'[p] = <<>> /\ \A q \in Proc \ {p} : got'[q] = got[q]
  <2>1. <<>> \in Seq(Nat)
    OBVIOUS
  <2>. QED BY <1>1, <2>1 DEF Leave, TypeOK
<1>5. TypeOK'
  BY <1>1, <1>2, <1>3, <1>4 DEF TypeOK, Leave
<1>6. Mutex'
  BY <1>1, <1>3 DEF Mutex, Leave, Inside
<1>7. ProcInv(p)'
  BY <1>3, <1>4 DEF ProcInv, Appending, Appended, Reading
<1>8. UNCHANGED <<files, serial, acked>> \/ lock = p
  BY <1>1 DEF Mutex
<1>9. \A q \in Proc \ {p} : ProcInv(q)'
  BY <1>3, <1>4, <1>8, Others
<1>. QED BY <1>5, <1>6, <1>7, <1>9 DEF LogInv

\* Returns without effect, errors and crashes: the files stay as they are.
LEMMA LeavingStep ==
    ASSUME LogInv, LogAssumption, NEW p \in Proc, UNCHANGED isTrace,
           ReadRejects(p) \/ ReadReturns(p) \/ FailOrCrash(p)
    PROVE  LogInv'
<1>1. Leave(p) /\ UNCHANGED <<files, serial, acked>>
  BY DEF ReadRejects, ReadReturns, FailOrCrash
<1>2. files' \in [Gen -> File] /\ acked' \subseteq 1 .. serial /\ FilesInv'
  BY <1>1 DEF LogInv, TypeOK, FilesInv
<1>. QED BY <1>1, <1>2, Leaving

\* An append returns Ok: its record is in the active file.
LEMMA SyncStep ==
    ASSUME LogInv, LogAssumption, NEW p \in Proc, UNCHANGED isTrace, Sync(p)
    PROVE  LogInv'
<1>1. /\ Leave(p) /\ UNCHANGED <<files, serial>> /\ acked' = acked \cup {serial} /\ pc[p] = "sync"
      /\ TypeOK /\ FilesInv /\ ProcInv(p)
  BY DEF LogInv, Sync
<1>2. serial \in RecsOf(files[0]) /\ 0 \in Gen
  BY <1>1, LogAssumption DEF ProcInv, Appended, Gen
<1>3. serial \in Nat \ {0}
  <2>1. serial \in Nat /\ acked \subseteq 1 .. serial
    BY <1>1 DEF TypeOK
  <2>. QED BY <1>1, <2>1 DEF ProcInv, Appended
<1>4. acked' \subseteq 1 .. serial /\ files' \in [Gen -> File]
  BY <1>1, <1>3 DEF TypeOK
<1>5. FilesInv'
  BY <1>1, <1>2 DEF FilesInv
<1>. QED BY <1>1, <1>4, <1>5, Leaving DEF Inside

\* A process goes on in its call, past the lock or towards it.
LEMMA Going ==
    ASSUME LogInv, LogAssumption, NEW p \in Proc, UNCHANGED isTrace, NEW c \in PC,
           pc' = [pc EXCEPT ![p] = c],
           UNCHANGED lock \/ (lock = NoProc /\ lock' = p), c \in Inside => lock' = p,
           UNCHANGED <<files, serial, acked>> \/ lock \in {p, NoProc},
           files' \in [Gen -> File], len' \in [Proc -> LineLen \cup {0}], step' \in [Proc -> Gen],
           got' \in [Proc -> Seq(Nat)], serial' \in Nat, acked' \subseteq 1 .. serial',
           \A q \in Proc \ {p} : len'[q] = len[q] /\ step'[q] = step[q] /\ got'[q] = got[q],
           FilesInv', ProcInv(p)'
    PROVE  LogInv'
<1>1. TypeOK /\ Mutex
  BY DEF LogInv
<1>2. pc' \in [Proc -> PC] /\ pc'[p] = c /\ \A q \in Proc \ {p} : pc'[q] = pc[q]
  BY <1>1 DEF TypeOK
<1>3. TypeOK'
  BY <1>1, <1>2 DEF TypeOK
<1>4. Mutex'
  BY <1>1, <1>2, LogAssumption DEF Mutex
<1>5. \A q \in Proc \ {p} : ProcInv(q)'
  BY <1>2, Others
<1>. QED BY <1>3, <1>4, <1>5 DEF LogInv

\* A call begins.
LEMMA CallStep ==
    ASSUME LogInv, LogAssumption, NEW p \in Proc, UNCHANGED isTrace,
           (\E n \in LineLen : CallAppend(p, n)) \/ CallRead(p) \/ CallClear(p)
    PROVE  LogInv'
<1>1. TypeOK /\ FilesInv /\ ProcInv(p) /\ pc[p] = "idle"
  BY DEF LogInv, CallAppend, CallRead, CallClear
<1>2. /\ UNCHANGED <<files, lock, step, serial, acked, got>>
      /\ \E c \in {"lockAppend", "lockRead", "lockClear"} :
            /\ pc' = [pc EXCEPT ![p] = c]
            /\ \/ c # "lockAppend" /\ len' = len
               \/ \E n \in LineLen : Fits(n) /\ len' = [len EXCEPT ![p] = n]
  BY DEF CallAppend, CallRead, CallClear, Goto
<1>3. PICK c \in {"lockAppend", "lockRead", "lockClear"} :
            /\ pc' = [pc EXCEPT ![p] = c]
            /\ \/ c # "lockAppend" /\ len' = len
               \/ \E n \in LineLen : Fits(n) /\ len' = [len EXCEPT ![p] = n]
  BY <1>2
<1>4. /\ len' \in [Proc -> LineLen \cup {0}] /\ \A q \in Proc \ {p} : len'[q] = len[q]
      /\ c = "lockAppend" => len'[p] \in LineLen /\ (isTrace => len'[p] <= MaxBytes)
  BY <1>1, <1>3 DEF TypeOK, Fits
<1>5. FilesInv'
  BY <1>1, <1>2 DEF FilesInv
<1>6. pc'[p] = c /\ got'[p] = <<>>
  BY <1>1, <1>2, <1>3 DEF TypeOK, ProcInv, Reading
<1>7. ProcInv(p)'
  BY <1>4, <1>6 DEF ProcInv, Appending, Appended, Reading
<1>8. c \in PC /\ c \notin Inside
  BY DEF PC, Inside
<1>9. /\ files' \in [Gen -> File] /\ step' \in [Proc -> Gen] /\ got' \in [Proc -> Seq(Nat)]
      /\ serial' \in Nat /\ acked' \subseteq 1 .. serial'
      /\ \A q \in Proc \ {p} : step'[q] = step[q] /\ got'[q] = got[q]
  BY <1>1, <1>2 DEF TypeOK
<1>. QED BY <1>2, <1>3, <1>4, <1>5, <1>7, <1>8, <1>9, Going

\* The lock is obtained for an append: the serial number is new.
LEMMA LockForAppendStep ==
    ASSUME LogInv, LogAssumption, NEW p \in Proc, UNCHANGED isTrace, LockForAppend(p)
    PROVE  LogInv'
<1>1. /\ TypeOK /\ FilesInv /\ ProcInv(p) /\ pc[p] = "lockAppend" /\ lock = NoProc /\ lock' = p
      /\ serial' = serial + 1 /\ pc' = [pc EXCEPT ![p] = "measure"] /\ UNCHANGED <<files, len, step, acked, got>>
  BY DEF LogInv, LockForAppend, Goto
<1>2. serial \in Nat /\ acked \subseteq 1 .. serial /\ \A g \in Gen : files[g] \in File
  BY <1>1 DEF TypeOK
<1>3. \A g \in Gen : \A r \in RecsOf(files[g]) : r \in Nat /\ r <= serial
  <2>1. \A g \in Gen : \A r \in RecsOf(files[g]) : r \in Nat
    BY <1>2, RecsNat
  <2>. QED BY <1>1, <2>1 DEF FilesInv
<1>4. \A g \in Gen : \A r \in RecsOf(files[g]) : r < serial' /\ r <= serial'
  BY <1>1, <1>2, <1>3
<1>5. FilesInv'
  BY <1>1, <1>4 DEF FilesInv
<1>6. serial' \in Nat /\ serial' > 0 /\ serial' \notin acked' /\ acked' \subseteq 1 .. serial'
  BY <1>1, <1>2
<1>7. pc'[p] = "measure" /\ len'[p] = len[p] /\ got'[p] = <<>>
      /\ len[p] \in LineLen /\ (isTrace => len[p] <= MaxBytes)
  BY <1>1 DEF TypeOK, ProcInv, Reading, Appending
<1>8. ProcInv(p)'
  BY <1>1, <1>4, <1>6, <1>7 DEF ProcInv, Appending, Appended, Reading
<1>9. "measure" \in PC
  BY DEF PC, Inside
<1>10. files' \in [Gen -> File] /\ len' \in [Proc -> LineLen \cup {0}] /\ step' \in [Proc -> Gen] /\ got' \in [Proc -> Seq(Nat)]
  BY <1>1 DEF TypeOK
<1>. QED BY <1>1, <1>5, <1>6, <1>8, <1>9, <1>10, Going

\* The lock is obtained for a read, which has nothing yet, or for a clear, after
\* which nothing acknowledged before counts.
LEMMA LockStep ==
    ASSUME LogInv, LogAssumption, NEW p \in Proc, UNCHANGED isTrace, LockForRead(p) \/ LockForClear(p)
    PROVE  LogInv'
<1>1. /\ TypeOK /\ FilesInv /\ ProcInv(p) /\ pc[p] \in {"lockRead", "lockClear"} /\ lock = NoProc /\ lock' = p
      /\ UNCHANGED <<files, len, serial, got>>
  BY DEF LogInv, LockForRead, LockForClear
<1>2. got[p] = <<>> /\ 0 \in Gen /\ Retained \in Gen
  BY <1>1, LogAssumption DEF ProcInv, Reading, Gen
<1>3. /\ files' \in [Gen -> File] /\ len' \in [Proc -> LineLen \cup {0}] /\ got' \in [Proc -> Seq(Nat)]
      /\ serial' \in Nat /\ {"read", "clear"} \subseteq PC
  BY <1>1 DEF TypeOK, PC, Inside
<1>4. CASE LockForRead(p)
  <2>1. /\ pc' = [pc EXCEPT ![p] = "read"] /\ acked' = acked
        /\ step' = [step EXCEPT ![p] = IF isTrace THEN Retained ELSE 0]
    BY <1>4 DEF LockForRead, Goto
  <2>2. /\ pc'[p] = "read" /\ step'[p] = (IF isTrace THEN Retained ELSE 0)
        /\ step' \in [Proc -> Gen] /\ \A q \in Proc \ {p} : step'[q] = step[q]
    BY <1>1, <1>2, <2>1 DEF TypeOK
  <2>3. Collected(p)' = {}
    BY <2>2, LogAssumption DEF Collected, Gen
  <2>4. Reading(p)'
    BY <1>1, <1>2, <2>2, <2>3 DEF Reading, Increasing
  <2>5. ProcInv(p)'
    BY <2>2, <2>4 DEF ProcInv, Appending, Appended
  <2>6. FilesInv' /\ acked' \subseteq 1 .. serial'
    BY <1>1, <2>1 DEF FilesInv, TypeOK
  <2>. QED BY <1>1, <1>3, <2>1, <2>2, <2>5, <2>6, Going
<1>5. CASE LockForClear(p)
  <2>1. pc' = [pc EXCEPT ![p] = "clear"] /\ acked' = {} /\ step' = step
    BY <1>5 DEF LockForClear, Goto
  <2>2. pc'[p] = "clear"
    BY <1>1, <2>1 DEF TypeOK
  <2>3. ProcInv(p)'
    BY <1>1, <1>2, <2>1, <2>2 DEF ProcInv, Appending, Appended, Reading
  <2>4. FilesInv' /\ acked' \subseteq 1 .. serial' /\ step' \in [Proc -> Gen]
    BY <1>1, <2>1 DEF FilesInv, TypeOK
  <2>. QED BY <1>1, <1>3, <2>1, <2>3, <2>4, Going
<1>. QED BY <1>4, <1>5

\* Either the line fits, or the log rotates first.
LEMMA MeasureStep ==
    ASSUME LogInv, LogAssumption, NEW p \in Proc, UNCHANGED isTrace, Measure(p)
    PROVE  LogInv'
<1>1. /\ TypeOK /\ FilesInv /\ ProcInv(p) /\ pc[p] = "measure" /\ lock = p
      /\ UNCHANGED <<files, lock, len, serial, acked, got>>
  BY DEF LogInv, Mutex, Measure, Inside
<1>2. /\ 0 \in Gen /\ Retained \in Gen /\ Retained \in Nat /\ MaxBytes \in Nat
      /\ files[0].size \in Nat /\ len[p] \in Nat
      /\ len[p] \in LineLen /\ (isTrace => len[p] <= MaxBytes) /\ got[p] = <<>>
  <2>1. 0 \in Gen /\ Retained \in Gen /\ Retained \in Nat /\ MaxBytes \in Nat
    BY LogAssumption DEF Gen
  <2>2. files[0] \in File
    BY <1>1, <2>1 DEF TypeOK
  <2>3. len[p] \in LineLen /\ (isTrace => len[p] <= MaxBytes) /\ got[p] = <<>>
    BY <1>1 DEF ProcInv, Appending, Reading
  <2>4. len[p] \in Nat
    BY <2>3, LogAssumption
  <2>. QED BY <2>1, <2>2, <2>3, <2>4 DEF File
<1>3. FilesInv'
  BY <1>1 DEF FilesInv
<1>4. /\ files' \in [Gen -> File] /\ len' \in [Proc -> LineLen \cup {0}] /\ got' \in [Proc -> Seq(Nat)]
      /\ serial' \in Nat /\ acked' \subseteq 1 .. serial' /\ {"rotate", "open"} \subseteq PC
  BY <1>1 DEF TypeOK, PC, Inside
<1>5. CASE Overflows(files[0].size, len[p])
  <2>1. pc' = [pc EXCEPT ![p] = "rotate"] /\ step' = [step EXCEPT ![p] = Retained]
    BY <1>5 DEF Measure, Goto
  <2>2. pc'[p] = "rotate" /\ step'[p] = Retained /\ step' \in [Proc -> Gen] /\ \A q \in Proc \ {p} : step'[q] = step[q]
    BY <1>1, <1>2, <2>1 DEF TypeOK
  <2>3. ProcInv(p)'
    BY <1>1, <1>2, <2>2 DEF ProcInv, Appending, Appended, Reading
  <2>. QED BY <1>1, <1>3, <1>4, <2>1, <2>2, <2>3, Going
<1>6. CASE ~Overflows(files[0].size, len[p])
  <2>1. pc' = [pc EXCEPT ![p] = "open"] /\ step' = step
    BY <1>6 DEF Measure, Goto
  <2>2. pc'[p] = "open" /\ step' \in [Proc -> Gen]
    BY <1>1, <2>1 DEF TypeOK
  <2>3. isTrace => files[0].size + len[p] <= MaxBytes
    BY <1>2, <1>6 DEF Overflows
  <2>4. ProcInv(p)'
    BY <1>1, <1>2, <2>2, <2>3 DEF ProcInv, Appending, Appended, Reading
  <2>. QED BY <1>1, <1>3, <1>4, <2>1, <2>2, <2>4, Going
<1>. QED BY <1>5, <1>6

\* A step of a rotation makes room above the next generation to move.
LEMMA RotateStep ==
    ASSUME LogInv, LogAssumption, NEW p \in Proc, UNCHANGED isTrace, Rotate(p)
    PROVE  LogInv'
<1>1. /\ TypeOK /\ FilesInv /\ ProcInv(p) /\ pc[p] = "rotate" /\ lock = p
      /\ UNCHANGED <<lock, len, serial, acked, got>>
  BY DEF LogInv, Mutex, Rotate, RemoveOldest, ShiftGeneration, ShiftActive, Inside
<1>2. /\ len[p] \in LineLen /\ (isTrace => len[p] <= MaxBytes) /\ got[p] = <<>>
      /\ serial > 0 /\ serial \notin acked
      /\ \A g \in Gen : \A r \in RecsOf(files[g]) : r < serial
      /\ step[p] < Retained => files[step[p] + 1] = NoFile
  BY <1>1 DEF ProcInv, Appending, Reading
<1>3. Gen = 0 .. Retained /\ Retained \in Nat \ {0} /\ MaxBytes \in Nat /\ len[p] \in Nat /\ step[p] \in Gen
  BY <1>1, <1>2, LogAssumption DEF Gen, TypeOK
<1>4. /\ len' \in [Proc -> LineLen \cup {0}] /\ got' \in [Proc -> Seq(Nat)]
      /\ serial' \in Nat /\ acked' \subseteq 1 .. serial' /\ {"rotate", "open"} \subseteq PC
  BY <1>1 DEF TypeOK, PC, Inside
<1>5. ASSUME NEW k \in Gen, pc' = pc, step' = [step EXCEPT ![p] = k], FilesInv', files' \in [Gen -> File],
             \A h \in Gen : \A r \in RecsOf(files'[h]) : \E i \in Gen : r \in RecsOf(files[i]),
             files'[k + 1] = NoFile
      PROVE  LogInv'
  <2>1. pc' = [pc EXCEPT ![p] = "rotate"]
    BY <1>1, <1>5 DEF TypeOK
  <2>2. pc'[p] = "rotate" /\ step'[p] = k /\ step' \in [Proc -> Gen] /\ \A q \in Proc \ {p} : step'[q] = step[q]
    BY <1>1, <1>5 DEF TypeOK
  <2>3. \A g \in Gen : \A r \in RecsOf(files'[g]) : r < serial
    BY <1>2, <1>5
  <2>4. ProcInv(p)'
    BY <1>1, <1>2, <1>5, <2>2, <2>3 DEF ProcInv, Appending, Appended, Reading
  <2>. QED BY <1>1, <1>4, <1>5, <2>1, <2>2, <2>4, Going
<1>6. CASE RemoveOldest(p)
  <2>1. files' = [files EXCEPT ![Retained] = NoFile] /\ pc' = pc /\ step' = [step EXCEPT ![p] = Retained - 1]
    BY <1>6 DEF RemoveOldest
  <2>2. Retained \in Gen /\ Retained - 1 \in Gen /\ (Retained - 1) + 1 = Retained
    BY <1>3
  <2>3. /\ FilesInv' /\ files' \in [Gen -> File] /\ files'[Retained] = NoFile
        /\ \A h \in Gen : RecsOf(files'[h]) \subseteq RecsOf(files[h])
    BY <1>1, <2>1, <2>2, Removed
  <2>. QED BY <1>5, <2>1, <2>2, <2>3
<1>7. CASE ShiftGeneration(p)
  <2>. DEFINE g == step[p]
  <2>1. g \in 1 .. Retained - 1 /\ files' = Shifted(g) /\ pc' = pc /\ step' = [step EXCEPT ![p] = g - 1]
    BY <1>7 DEF ShiftGeneration
  <2>2. g \in Gen /\ g + 1 \in Gen /\ g - 1 \in Gen /\ (g - 1) + 1 = g /\ g < Retained
    BY <1>3, <2>1
  <2>3. /\ FilesInv' /\ files' \in [Gen -> File] /\ files'[g] = NoFile
        /\ \A h \in Gen : \A r \in RecsOf(files'[h]) : \E i \in Gen : r \in RecsOf(files[i])
    BY <1>1, <1>2, <2>1, <2>2, Moved
  <2>. QED BY <1>5, <2>1, <2>2, <2>3
<1>8. CASE ShiftActive(p)
  <2>1. step[p] = 0 /\ files' = Shifted(0) /\ pc' = [pc EXCEPT ![p] = "open"] /\ step' = step
    BY <1>8 DEF ShiftActive, Goto
  <2>2. 0 \in Gen /\ 0 + 1 \in Gen /\ 0 < Retained
    BY <1>3
  <2>3. /\ FilesInv' /\ files' \in [Gen -> File] /\ files'[0] = NoFile
        /\ \A h \in Gen : \A r \in RecsOf(files'[h]) : \E i \in Gen : r \in RecsOf(files[i])
    BY <1>1, <1>2, <2>1, <2>2, Moved
  <2>4. pc'[p] = "open" /\ step' \in [Proc -> Gen]
    BY <1>1, <2>1 DEF TypeOK
  <2>5. \A g \in Gen : \A r \in RecsOf(files'[g]) : r < serial
    BY <1>2, <2>3
  <2>6. isTrace => files'[0].size + len[p] <= MaxBytes
    BY <1>2, <1>3, <2>3, EmptyFile
  <2>7. ProcInv(p)'
    BY <1>1, <1>2, <2>4, <2>5, <2>6 DEF ProcInv, Appending, Appended, Reading
  <2>. QED BY <1>1, <1>4, <2>1, <2>3, <2>4, <2>7, Going
<1>. QED BY <1>6, <1>7, <1>8 DEF Rotate

\* What an append that has come to its active file can count on.
LEMMA AtActive ==
    ASSUME LogInv, LogAssumption, NEW p \in Proc, pc[p] \in {"open", "write", "newline"}
    PROVE  /\ TypeOK /\ FilesInv /\ lock = p /\ got[p] = <<>> /\ 0 \in Gen
           /\ files[0] \in File /\ Sorted(files[0]) /\ files[0].size \in Nat /\ MaxBytes \in Nat
           /\ serial \in Nat /\ serial > 0
           /\ pc[p] \in {"open", "write"} =>
                 /\ len[p] \in LineLen /\ len[p] \in Nat /\ len[p] > 1 /\ serial \notin acked
                 /\ (isTrace => len[p] <= MaxBytes)
                 /\ \A g \in Gen : \A r \in RecsOf(files[g]) : r < serial
                 /\ (isTrace => files[0].size + len[p] <= MaxBytes)
           /\ pc[p] = "newline" => serial \in RecsOf(files[0]) /\ (isTrace => files[0].size < MaxBytes)
<1>1. TypeOK /\ FilesInv /\ ProcInv(p) /\ lock = p
  BY DEF LogInv, Mutex, Inside
<1>2. 0 \in Gen /\ MaxBytes \in Nat
  BY LogAssumption DEF Gen
<1>3. files[0] \in File /\ serial \in Nat
  BY <1>1, <1>2 DEF TypeOK
<1>4. Sorted(files[0]) /\ files[0].size \in Nat
  BY <1>1, <1>2, <1>3 DEF FilesInv, File
<1>5. got[p] = <<>> /\ serial > 0
  BY <1>1 DEF ProcInv, Reading, Appending, Appended
<1>6. ASSUME pc[p] \in {"open", "write"}
      PROVE  /\ len[p] \in LineLen /\ len[p] \in Nat /\ len[p] > 1 /\ serial \notin acked
             /\ (isTrace => len[p] <= MaxBytes)
             /\ \A g \in Gen : \A r \in RecsOf(files[g]) : r < serial
             /\ (isTrace => files[0].size + len[p] <= MaxBytes)
  <2>1. len[p] \in LineLen
    BY <1>1, <1>6 DEF ProcInv, Appending
  <2>2. len[p] \in Nat /\ len[p] > 1
    <3>1. len[p] \in Nat \ {0, 1}
      BY <2>1, LogAssumption
    <3>. QED BY <3>1
  <2>. QED BY <1>1, <1>6, <2>2 DEF ProcInv, Appending
<1>7. pc[p] = "newline" => serial \in RecsOf(files[0]) /\ (isTrace => files[0].size < MaxBytes)
  BY <1>1 DEF ProcInv, Appended
<1>. QED BY <1>1, <1>2, <1>3, <1>4, <1>5, <1>6, <1>7

\* The active file exists from here on.
LEMMA OpenStep ==
    ASSUME LogInv, LogAssumption, NEW p \in Proc, UNCHANGED isTrace, OpenActive(p)
    PROVE  LogInv'
<1>. DEFINE f == [files[0] EXCEPT !.there = TRUE]
<1>1. /\ pc[p] = "open" /\ files' = [files EXCEPT ![0] = f]
      /\ pc' = [pc EXCEPT ![p] = "write"] /\ UNCHANGED <<lock, len, step, serial, acked, got>>
  BY DEF OpenActive, Goto
<1>2. /\ TypeOK /\ FilesInv /\ lock = p /\ got[p] = <<>> /\ 0 \in Gen /\ files[0] \in File /\ Sorted(files[0])
      /\ len[p] \in LineLen /\ serial > 0 /\ serial \notin acked /\ (isTrace => len[p] <= MaxBytes)
      /\ \A g \in Gen : \A r \in RecsOf(files[g]) : r < serial
      /\ (isTrace => files[0].size + len[p] <= MaxBytes)
  BY <1>1, AtActive
<1>3. f \in File /\ f.there /\ f.pieces = files[0].pieces /\ f.size = files[0].size
  BY <1>2 DEF File
<1>. HIDE DEF f
<1>4. RecsOf(f) = RecsOf(files[0]) /\ Sorted(f)
  BY <1>2, <1>3 DEF RecsOf, Sorted
<1>5. isTrace => f.size <= MaxBytes
  BY <1>2, <1>3 DEF FilesInv
<1>6. FilesInv' /\ files' \in [Gen -> File] /\ \A h \in Gen : RecsOf(files'[h]) = RecsOf(files[h])
  BY <1>1, <1>2, <1>3, <1>4, <1>5, Kept
<1>7. pc'[p] = "write" /\ files'[0] = f
  BY <1>1, <1>2 DEF TypeOK
<1>8. ProcInv(p)'
  BY <1>1, <1>2, <1>3, <1>6, <1>7 DEF ProcInv, Appending, Appended, Reading
<1>9. /\ len' \in [Proc -> LineLen \cup {0}] /\ step' \in [Proc -> Gen] /\ got' \in [Proc -> Seq(Nat)]
      /\ serial' \in Nat /\ acked' \subseteq 1 .. serial' /\ "write" \in PC
  BY <1>1, <1>2 DEF TypeOK, PC, Inside
<1>. QED BY <1>1, <1>2, <1>6, <1>8, <1>9, Going

\* The bytes of the line, or some of them.
LEMMA WriteStep ==
    ASSUME LogInv, LogAssumption, NEW p \in Proc, UNCHANGED isTrace,
           WriteLine(p) \/ \E bytes \in 1 .. len[p] : TearLine(p, bytes)
    PROVE  LogInv'
<1>1. pc[p] = "write" /\ UNCHANGED <<lock, len, step, serial, acked, got>>
  BY DEF WriteLine, TearLine
<1>2. /\ TypeOK /\ FilesInv /\ lock = p /\ got[p] = <<>> /\ 0 \in Gen /\ files[0] \in File /\ Sorted(files[0])
      /\ serial \in Nat /\ serial > 0 /\ serial \notin acked /\ len[p] \in Nat /\ len[p] > 1
      /\ \A g \in Gen : \A r \in RecsOf(files[g]) : r < serial
      /\ (isTrace => files[0].size + len[p] <= MaxBytes) /\ MaxBytes \in Nat /\ files[0].size \in Nat
  BY <1>1, AtActive
<1>3. PICK c \in {"newline", "torn"}, part \in {"bare", "torn"}, bytes \in Nat :
        /\ bytes < len[p] /\ files' = [files EXCEPT ![0] = AddPiece(files[0], part, bytes)]
        /\ pc' = [pc EXCEPT ![p] = c]
  <2>1. CASE WriteLine(p)
    <3>1. len[p] - 1 \in Nat /\ len[p] - 1 < len[p]
      BY <1>2
    <3>2. /\ files' = [files EXCEPT ![0] = AddPiece(files[0], "bare", len[p] - 1)]
          /\ pc' = [pc EXCEPT ![p] = "newline"]
      BY <2>1 DEF WriteLine, Goto
    <3>. QED BY <3>1, <3>2
  <2>2. ASSUME NEW bytes \in 1 .. len[p], TearLine(p, bytes)
        PROVE  /\ bytes \in Nat /\ bytes < len[p] /\ files' = [files EXCEPT ![0] = AddPiece(files[0], "torn", bytes)]
               /\ pc' = [pc EXCEPT ![p] = "torn"]
    BY <1>2, <2>2 DEF TearLine, Goto
  <2>. QED BY <2>1, <2>2
<1>. DEFINE f == AddPiece(files[0], part, bytes)
<1>4. /\ f \in File /\ f.there /\ f.size = files[0].size + bytes
      /\ Sorted(f) /\ RecsOf(f) = RecsOf(files[0]) \cup {serial}
  <2>1. part \in {"line", "bare", "torn"} /\ \A r \in RecsOf(files[0]) : r < serial
    BY <1>2
  <2>. HIDE DEF f
  <2>2. f = AddPiece(files[0], part, bytes)
    BY DEF f
  <2>3. files[0] \in File /\ Sorted(files[0]) /\ serial \in Nat
    BY <1>2
  <2>. QED BY <2>1, <2>2, <2>3, Added, Zenon
<1>5. isTrace => f.size <= MaxBytes /\ f.size < MaxBytes
  BY <1>2, <1>3, <1>4
<1>. HIDE DEF f
<1>6. files' = [files EXCEPT ![0] = f]
  BY <1>3 DEF f
<1>7. FilesInv' /\ files' \in [Gen -> File] /\ serial \in RecsOf(files'[0])
  BY <1>1, <1>2, <1>4, <1>5, <1>6, Grown
<1>8. pc'[p] = c /\ files'[0] = f
  BY <1>2, <1>3, <1>6 DEF TypeOK
<1>9. ProcInv(p)'
  BY <1>1, <1>2, <1>5, <1>7, <1>8 DEF ProcInv, Appending, Appended, Reading
<1>10. /\ len' \in [Proc -> LineLen \cup {0}] /\ step' \in [Proc -> Gen] /\ got' \in [Proc -> Seq(Nat)]
       /\ serial' \in Nat /\ acked' \subseteq 1 .. serial' /\ c \in PC
  BY <1>1, <1>2 DEF TypeOK, PC, Inside
<1>. QED BY <1>1, <1>2, <1>3, <1>7, <1>9, <1>10, Going

\* The newline.
LEMMA NewlineStep ==
    ASSUME LogInv, LogAssumption, NEW p \in Proc, UNCHANGED isTrace, WriteNewline(p)
    PROVE  LogInv'
<1>. DEFINE f == [files[0] EXCEPT !.pieces[Len(files[0].pieces)].part = "line", !.size = @ + 1]
<1>1. /\ pc[p] = "newline" /\ pc' = [pc EXCEPT ![p] = "sync"]
      /\ UNCHANGED <<lock, len, step, serial, acked, got>>
  BY DEF WriteNewline, Goto
<1>2. /\ TypeOK /\ FilesInv /\ lock = p /\ got[p] = <<>> /\ 0 \in Gen /\ files[0] \in File /\ Sorted(files[0])
      /\ serial \in Nat /\ serial > 0 /\ serial \in RecsOf(files[0])
      /\ (isTrace => files[0].size < MaxBytes) /\ MaxBytes \in Nat /\ files[0].size \in Nat
  BY <1>1, AtActive
<1>3. files' = [files EXCEPT ![0] = f]
  BY <1>2 DEF WriteNewline, TypeOK
<1>4. /\ f \in File /\ f.there = files[0].there /\ f.size = files[0].size + 1
      /\ RecsOf(f) = RecsOf(files[0]) /\ Sorted(f)
  BY <1>2, Newlined
<1>. HIDE DEF f
<1>5. f.there
  <2>1. files[0] # NoFile
    BY <1>2, EmptyFile
  <2>. QED BY <1>2, <1>4, <2>1 DEF FilesInv
<1>6. isTrace => f.size <= MaxBytes
  BY <1>2, <1>4
<1>7. FilesInv' /\ files' \in [Gen -> File] /\ \A h \in Gen : RecsOf(files'[h]) = RecsOf(files[h])
  BY <1>1, <1>2, <1>3, <1>4, <1>5, <1>6, Kept
<1>8. pc'[p] = "sync"
  BY <1>1, <1>2 DEF TypeOK
<1>9. ProcInv(p)'
  BY <1>1, <1>2, <1>7, <1>8 DEF ProcInv, Appending, Appended, Reading
<1>10. /\ len' \in [Proc -> LineLen \cup {0}] /\ step' \in [Proc -> Gen] /\ got' \in [Proc -> Seq(Nat)]
       /\ serial' \in Nat /\ acked' \subseteq 1 .. serial' /\ "sync" \in PC
  BY <1>1, <1>2 DEF TypeOK, PC, Inside
<1>. QED BY <1>1, <1>2, <1>7, <1>9, <1>10, Going

\* clear removes a file while nothing acknowledged counts.
LEMMA ClearingStep ==
    ASSUME LogInv, LogAssumption, NEW p \in Proc, UNCHANGED isTrace, ClearStep(p)
    PROVE  LogInv'
<1>1. /\ TypeOK /\ FilesInv /\ ProcInv(p) /\ pc[p] = "clear" /\ lock = p /\ step[p] \in Gen
      /\ files' = [files EXCEPT ![step[p]] = NoFile] /\ UNCHANGED <<serial, acked>>
  BY DEF LogInv, Mutex, ClearStep, Inside, TypeOK
<1>2. acked = {} /\ got[p] = <<>>
  BY <1>1 DEF ProcInv, Reading
<1>3. FilesInv' /\ files' \in [Gen -> File]
  BY <1>1, <1>2, Removed
<1>4. CASE step[p] = Retained
  <2>1. Leave(p) /\ acked' \subseteq 1 .. serial
    BY <1>1, <1>2, <1>4 DEF ClearStep
  <2>. QED BY <1>1, <1>3, <2>1, Leaving DEF Inside
<1>5. CASE step[p] # Retained
  <2>1. step' = [step EXCEPT ![p] = step[p] + 1] /\ UNCHANGED <<lock, pc, len, got>>
    BY <1>5 DEF ClearStep
  <2>2. step[p] + 1 \in Gen
    BY <1>1, <1>5, LogAssumption DEF Gen
  <2>3. /\ step' \in [Proc -> Gen] /\ \A q \in Proc \ {p} : step'[q] = step[q]
        /\ pc' = [pc EXCEPT ![p] = "clear"]
    BY <1>1, <2>1, <2>2 DEF TypeOK
  <2>4. ProcInv(p)'
    BY <1>1, <1>2, <2>1 DEF ProcInv, Appending, Appended, Reading
  <2>5. /\ len' \in [Proc -> LineLen \cup {0}] /\ got' \in [Proc -> Seq(Nat)]
        /\ serial' \in Nat /\ acked' \subseteq 1 .. serial' /\ "clear" \in PC
    BY <1>1, <2>1 DEF TypeOK, PC, Inside
  <2>. QED BY <1>1, <1>3, <2>1, <2>3, <2>4, <2>5, Going
<1>. QED BY <1>4, <1>5

\* Joining an increasing sequence and the records of a later file.
LEMMA Joined ==
    ASSUME NEW s \in Seq(Nat), Increasing(s), NEW f \in File, Sorted(f),
           \A n \in 1 .. Len(s) : \A r \in RecsOf(f) : s[n] < r
    PROVE  LET t == s \o Records(f)
           IN  /\ t \in Seq(Nat) /\ Increasing(t)
               /\ \A v : (\E n \in 1 .. Len(t) : t[n] = v) <=>
                         (\E n \in 1 .. Len(s) : s[n] = v) \/ v \in RecsOf(f)
<1>. DEFINE u == Records(f)
            t == s \o u
            j == Len(s)
            k == Len(f.pieces)
<1>1. k \in Nat /\ j \in Nat /\ \A n \in 1 .. k : f.pieces[n].rec \in Nat
  <2>1. f.pieces \in Seq(Piece)
    BY DEF File
  <2>2. \A n \in 1 .. k : f.pieces[n] \in Piece
    BY <2>1
  <2>. QED BY <2>1, <2>2 DEF Piece
<1>2. u \in Seq(Nat) /\ Len(u) = k /\ \A n \in 1 .. k : u[n] = f.pieces[n].rec
  <2>1. u = [n \in 1 .. k |-> f.pieces[n].rec]
    BY DEF Records
  <2>. HIDE DEF u
  <2>2. u \in [1 .. k -> Nat]
    BY <1>1, <2>1
  <2>3. u \in Seq(Nat) /\ Len(u) = k
    BY <1>1, <2>1, <2>2
  <2>. QED BY <2>1, <2>3
<1>3. \A n \in 1 .. k : u[n] \in RecsOf(f)
  BY <1>2 DEF RecsOf
<1>4. \A n \in 1 .. k : \A m \in 1 .. n - 1 : u[m] < u[n]
  <2>1. \A n \in 1 .. k : \A m \in 1 .. n - 1 : m \in 1 .. k
    BY <1>1
  <2>2. \A n \in 1 .. k : \A m \in 1 .. n - 1 : f.pieces[m].rec < f.pieces[n].rec
    BY DEF Sorted
  <2>. HIDE DEF u
  <2>. QED BY <1>2, <2>1, <2>2
<1>. HIDE DEF u, k
<1>5. /\ t \in Seq(Nat) /\ Len(t) = j + k
      /\ \A n \in 1 .. j : t[n] = s[n]
      /\ \A n \in (j + 1) .. (j + k) : t[n] = u[n - j]
  <2>1. s \in Seq(Nat) /\ u \in Seq(Nat) /\ Len(u) = k /\ k \in Nat
    BY <1>1, <1>2
  <2>2. /\ t \in Seq(Nat) /\ Len(t) = j + k
        /\ \A n \in 1 .. j + k : t[n] = IF n <= j THEN s[n] ELSE u[n - j]
    BY <2>1, ConcatProperties
  <2>. HIDE DEF t, j
  <2>3. \A n \in 1 .. j : n \in 1 .. j + k /\ n <= j
    BY <1>1
  <2>4. \A n \in (j + 1) .. (j + k) : n \in 1 .. j + k /\ ~(n <= j)
    BY <1>1
  <2>. QED BY <2>2, <2>3, <2>4
<1>. HIDE DEF t, j
<1>6. Increasing(t)
  <2>. SUFFICES ASSUME NEW n \in 1 .. j + k, NEW m \in 1 .. n - 1 PROVE t[m] < t[n]
    BY <1>5 DEF Increasing
  <2>1. CASE n <= j
    <3>1. n \in 1 .. j /\ m \in 1 .. j
      BY <1>1, <2>1
    <3>. QED BY <1>5, <3>1 DEF Increasing, j
  <2>2. CASE n > j /\ m <= j
    <3>1. n \in (j + 1) .. (j + k) /\ m \in 1 .. j /\ n - j \in 1 .. k
      BY <1>1, <2>2
    <3>2. t[n] = u[n - j] /\ u[n - j] \in RecsOf(f) /\ t[m] = s[m]
      BY <1>3, <1>5, <3>1
    <3>. QED BY <3>1, <3>2 DEF j
  <2>3. CASE n > j /\ m > j
    <3>1. /\ n \in (j + 1) .. (j + k) /\ m \in (j + 1) .. (j + k)
          /\ n - j \in 1 .. k /\ m - j \in 1 .. (n - j) - 1
      BY <1>1, <2>3
    <3>. QED BY <1>4, <1>5, <3>1
  <2>. QED BY <1>1, <2>1, <2>2, <2>3
<1>7. ASSUME NEW v
      PROVE  (\E n \in 1 .. Len(t) : t[n] = v) <=> (\E n \in 1 .. j : s[n] = v) \/ v \in RecsOf(f)
  <2>1. ASSUME NEW n \in 1 .. Len(t), t[n] = v PROVE (\E i \in 1 .. j : s[i] = v) \/ v \in RecsOf(f)
    <3>1. CASE n <= j
      <4>1. n \in 1 .. j
        BY <1>1, <1>5, <3>1
      <4>. QED BY <1>5, <2>1, <4>1
    <3>2. CASE n > j
      <4>1. n \in (j + 1) .. (j + k) /\ n - j \in 1 .. k
        BY <1>1, <1>5, <3>2
      <4>. QED BY <1>3, <1>5, <2>1, <4>1
    <3>. QED BY <1>1, <1>5, <3>1, <3>2
  <2>2. ASSUME NEW n \in 1 .. j, s[n] = v PROVE \E i \in 1 .. Len(t) : t[i] = v
    <3>1. n \in 1 .. Len(t)
      BY <1>1, <1>5
    <3>. QED BY <1>5, <2>2, <3>1
  <2>3. ASSUME v \in RecsOf(f) PROVE \E i \in 1 .. Len(t) : t[i] = v
    <3>1. PICK n \in 1 .. k : u[n] = v
      BY <1>2, <2>3 DEF RecsOf, k
    <3>2. j + n \in (j + 1) .. (j + k) /\ j + n \in 1 .. Len(t) /\ (j + n) - j = n
      BY <1>1, <1>5
    <3>. QED BY <1>5, <3>1, <3>2
  <2>. QED BY <2>1, <2>2, <2>3
<1>. QED BY <1>5, <1>6, <1>7 DEF t, j, u

\* A read collects the next newer file.
LEMMA ReadStep ==
    ASSUME LogInv, LogAssumption, NEW p \in Proc, UNCHANGED isTrace, ReadFile(p)
    PROVE  LogInv'
<1>. DEFINE g == step[p]
            s == got[p]
            t == s \o Records(files[g])
<1>1. /\ TypeOK /\ FilesInv /\ ProcInv(p) /\ pc[p] = "read" /\ lock = p /\ g \in Gen
      /\ got' = [got EXCEPT ![p] = t] /\ UNCHANGED <<files, lock, len, serial, acked>>
  BY DEF LogInv, Mutex, ReadFile, Inside, TypeOK
<1>2. /\ s \in Seq(Nat) /\ Increasing(s) /\ files[g] \in File /\ Sorted(files[g])
      /\ \A v : (\E n \in 1 .. Len(s) : s[n] = v) <=> (\E h \in Collected(p) : v \in RecsOf(files[h]))
      /\ ~isTrace => g = 0
  BY <1>1 DEF TypeOK, FilesInv, ProcInv, Reading
<1>3. Collected(p) = IF isTrace THEN {h \in Gen : h > g} ELSE {}
  BY <1>1 DEF Collected
<1>4. \A n \in 1 .. Len(s) : \A r \in RecsOf(files[g]) : s[n] < r
  <2>. SUFFICES ASSUME NEW n \in 1 .. Len(s), NEW r \in RecsOf(files[g]) PROVE s[n] < r
    OBVIOUS
  <2>1. PICK h \in Collected(p) : s[n] \in RecsOf(files[h])
    BY <1>2
  <2>2. h \in Gen /\ g < h
    <3>1. h \in Gen /\ h > g
      BY <1>3, <2>1
    <3>2. h \in Nat /\ g \in Nat
      BY <1>1, <3>1, LogAssumption DEF Gen
    <3>. QED BY <3>1, <3>2
  <2>. QED BY <1>1, <2>1, <2>2 DEF FilesInv
<1>5. /\ t \in Seq(Nat) /\ Increasing(t)
      /\ \A v : (\E n \in 1 .. Len(t) : t[n] = v) <=>
                (\E n \in 1 .. Len(s) : s[n] = v) \/ v \in RecsOf(files[g])
  BY <1>2, <1>4, Joined
<1>. HIDE DEF t
<1>6. /\ got' \in [Proc -> Seq(Nat)] /\ got'[p] = t /\ \A q \in Proc \ {p} : got'[q] = got[q]
      /\ files' \in [Gen -> File] /\ len' \in [Proc -> LineLen \cup {0}]
      /\ serial' \in Nat /\ acked' \subseteq 1 .. serial' /\ {"read", "answer"} \subseteq PC
  BY <1>1, <1>5 DEF TypeOK, PC, Inside
<1>7. FilesInv'
  BY <1>1 DEF FilesInv
<1>8. ASSUME NEW c \in {"read", "answer"}, pc'[p] = c, Collected(p)' = Collected(p) \cup {g},
             c = "read" /\ ~isTrace => step'[p] = 0
      PROVE  ProcInv(p)'
  <2>1. \A v : (\E n \in 1 .. Len(t) : t[n] = v) <=> (\E h \in Collected(p)' : v \in RecsOf(files[h]))
    BY <1>2, <1>5, <1>8
  <2>2. Reading(p)'
    BY <1>1, <1>5, <1>6, <1>8, <2>1 DEF Reading
  <2>. QED BY <1>8, <2>2 DEF ProcInv, Appending, Appended
<1>9. CASE g = 0
  <2>1. pc' = [pc EXCEPT ![p] = "answer"] /\ step' = step
    BY <1>9 DEF ReadFile, Goto
  <2>2. pc'[p] = "answer" /\ step' \in [Proc -> Gen]
    BY <1>1, <2>1 DEF TypeOK
  <2>3. Collected(p)' = Collected(p) \cup {g}
    <3>1. Collected(p)' = IF isTrace THEN Gen ELSE {0}
      BY <2>2 DEF Collected
    <3>2. \A h \in Gen : h > 0 \/ h = 0
      BY LogAssumption DEF Gen
    <3>. QED BY <1>1, <1>3, <1>9, <3>1, <3>2
  <2>4. ProcInv(p)'
    BY <1>8, <2>2, <2>3
  <2>. QED BY <1>1, <1>6, <1>7, <2>1, <2>2, <2>4, Going
<1>10. CASE g # 0
  <2>1. step' = [step EXCEPT ![p] = g - 1] /\ pc' = pc
    BY <1>10 DEF ReadFile
  <2>2. g - 1 \in Gen /\ isTrace
    BY <1>1, <1>2, <1>10, LogAssumption DEF Gen
  <2>3. /\ step' \in [Proc -> Gen] /\ step'[p] = g - 1 /\ \A q \in Proc \ {p} : step'[q] = step[q]
        /\ pc'[p] = "read" /\ pc' = [pc EXCEPT ![p] = "read"]
    BY <1>1, <2>1, <2>2 DEF TypeOK
  <2>4. Collected(p)' = Collected(p) \cup {g}
    <3>1. Collected(p)' = {h \in Gen : h > g - 1}
      BY <2>2, <2>3 DEF Collected
    <3>2. \A h \in Gen : h > g - 1 <=> h > g \/ h = g
      BY <1>1, LogAssumption DEF Gen
    <3>. QED BY <1>1, <1>3, <2>2, <3>1, <3>2
  <2>5. ProcInv(p)'
    BY <1>8, <2>2, <2>3, <2>4
  <2>. QED BY <1>1, <1>6, <1>7, <2>3, <2>5, Going
<1>. QED BY <1>9, <1>10

-----------------------------------------------------------------------------
(* Invariants *)

\* Every behaviour of the log keeps the invariant, its types included.
THEOREM LogInvariance == Spec => []LogInv
<1>1. Init => LogInv
  <2>. SUFFICES ASSUME Init PROVE LogInv
    OBVIOUS
  <2>1. TypeOK
    <3>1. 0 \in Gen /\ <<>> \in Seq(Nat)
      BY LogAssumption DEF Gen
    <3>. QED BY <3>1, EmptyFile DEF Init, TypeOK, PC
  <2>2. Mutex
    BY DEF Init, Mutex, Inside
  <2>3. FilesInv
    BY EmptyFile, LogAssumption DEF Init, FilesInv
  <2>4. \A p \in Proc : ProcInv(p)
    BY DEF Init, ProcInv, Appending, Appended, Reading
  <2>. QED BY <2>1, <2>2, <2>3, <2>4 DEF LogInv
<1>2. LogInv /\ [Next]_vars => LogInv'
  <2>. SUFFICES ASSUME LogInv, [Next]_vars PROVE LogInv'
    OBVIOUS
  <2>1. CASE Next
    <3>1. UNCHANGED isTrace
      BY <2>1 DEF Next
    <3>. QED BY <2>1, <3>1, LogAssumption, CallStep, LockForAppendStep, LockStep, MeasureStep, RotateStep,
                OpenStep, WriteStep, NewlineStep, SyncStep, ReadStep, LeavingStep, ClearingStep DEF Next
  <2>2. CASE UNCHANGED vars
    BY <2>2 DEF vars, procVars, LogInv, TypeOK, Mutex, FilesInv, ProcInv, Appending, Appended, Reading, Collected
  <2>. QED BY <2>1, <2>2
<1>. QED BY <1>1, <1>2, PTL DEF Spec

\* Records stand in the order of their appends, in every file and across them.
THEOREM LogOrdered == Spec => []OrderInv
<1>1. LogInv => OrderInv
  <2>. SUFFICES ASSUME LogInv PROVE OrderInv
    OBVIOUS
  <2>1. FilesInv
    BY DEF LogInv
  <2>2. \A g \in Gen : \A n \in 1 .. Len(files[g].pieces) : files[g].pieces[n].rec \in RecsOf(files[g])
    BY DEF RecsOf
  <2>3. \A g \in Gen : \A n \in 1 .. Len(files[g].pieces) :
           /\ files[g].pieces[n].rec <= serial
           /\ \A m \in 1 .. n - 1 : files[g].pieces[m].rec < files[g].pieces[n].rec
    BY <2>1, <2>2 DEF FilesInv, Sorted
  <2>4. \A g, h \in Gen : g < h =>
          \A n \in 1 .. Len(files[g].pieces), m \in 1 .. Len(files[h].pieces) :
             files[h].pieces[m].rec < files[g].pieces[n].rec
    BY <2>1, <2>2 DEF FilesInv
  <2>. QED BY <2>3, <2>4 DEF OrderInv
<1>. QED BY <1>1, LogInvariance, PTL

\* What is lost of the acknowledged records is a prefix.
THEOREM LogHasNoHoles == Spec => []NoHoles
<1>1. LogInv => NoHoles
  <2>. SUFFICES ASSUME LogInv PROVE NoHoles
    OBVIOUS
  <2>1. \A r : r \in Present <=> \E g \in Gen : r \in RecsOf(files[g])
    BY DEF Present, RecsOf
  <2>. QED BY <2>1 DEF LogInv, FilesInv, NoHoles
<1>. QED BY <1>1, LogInvariance, PTL

\* No file of the trace store outgrows what a read accepts.
THEOREM LogBounded == Spec => []Bounded
<1>1. LogInv => Bounded
  BY DEF LogInv, FilesInv, Bounded
<1>. QED BY <1>1, LogInvariance, PTL

\* A read that succeeds misses nothing acknowledged after its first record.
THEOREM LogReadComplete == Spec => []ReadComplete
<1>1. LogInv => ReadComplete
  <2>. SUFFICES ASSUME LogInv, NEW p \in Proc, pc[p] = "answer"
                PROVE  /\ Increasing(got[p])
                       /\ \A r \in acked :
                             \/ \E n \in 1 .. Len(got[p]) : got[p][n] = r
                             \/ \A n \in 1 .. Len(got[p]) : r < got[p][n]
    BY DEF ReadComplete, Increasing
  <2>1. FilesInv /\ ProcInv(p) /\ 0 \in Gen /\ \A h \in Gen : h # 0 => 0 < h
    BY LogAssumption DEF LogInv, Gen
  <2>2. /\ Increasing(got[p])
        /\ \A v : (\E n \in 1 .. Len(got[p]) : got[p][n] = v) <=>
                  (\E g \in Collected(p) : v \in RecsOf(files[g]))
        /\ Collected(p) = IF isTrace THEN Gen ELSE {0}
    BY <2>1 DEF ProcInv, Reading, Collected
  <2>3. ASSUME NEW r \in acked
        PROVE  \/ \E n \in 1 .. Len(got[p]) : got[p][n] = r
               \/ \A n \in 1 .. Len(got[p]) : r < got[p][n]
    <3>1. CASE \A g \in Gen : \A q \in RecsOf(files[g]) : r < q
      BY <2>1, <2>2, <3>1
    <3>2. ASSUME NEW g \in Gen, r \in RecsOf(files[g]), g \notin Collected(p)
          PROVE  \A n \in 1 .. Len(got[p]) : r < got[p][n]
      <4>1. Collected(p) = {0} /\ 0 < g
        BY <2>1, <2>2, <3>2
      <4>2. \A n \in 1 .. Len(got[p]) : got[p][n] \in RecsOf(files[0])
        BY <2>2, <4>1
      <4>. QED BY <2>1, <3>2, <4>1, <4>2 DEF FilesInv
    <3>. QED BY <2>1, <2>2, <3>1, <3>2 DEF FilesInv
  <2>. QED BY <2>2, <2>3
<1>. QED BY <1>1, LogInvariance, PTL

=============================================================================
