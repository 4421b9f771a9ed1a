-------------------------- MODULE InspectCommands --------------------------
(***************************************************************************)
(* blindfold scan, diff-check and mcp: the commands that read a tree of    *)
(* files, a patch or a stream of messages and answer with an exit code or  *)
(* a transformed stream.                                                   *)
(***************************************************************************)
EXTENDS Project

CONSTANTS
    MaxDepth, MaxFiles, MaxFileBytes, MaxTotalBytes,   \* ScanLimits
    MaxLines, MaxHunkLines,   \* bounds: the lines of a patch and of one hunk
    LineMarks,    \* what an added line may contain, each a set of marks
    Messages,     \* the lines blindfold mcp may read
    MaxMessages   \* bound: lines read

ASSUME InspectAssumption == MaxDepth \in Nat /\ MaxHunkLines \in Nat

-----------------------------------------------------------------------------
(* scan.  A tree is a function from nodes to records with kind ("dir",     *)
(* "file", "link", "other"), kids (in order), len, grown (the length at    *)
(* the time of the read), binary, text and ignored.  Node 1 is the root.   *)

Children(node) == {node.kids[n] : n \in DOMAIN node.kids}

IsTree(tree) ==
    /\ 1 \in DOMAIN tree
    /\ \A n \in DOMAIN tree :
          /\ tree[n].kind \in {"dir", "file", "link", "other"} /\ tree[n].kids \in Seq(DOMAIN tree)
          /\ IsText(tree[n].text)

ScanBegins(p) ==
    /\ At(p, "scan", "start")
    /\ \/ /\ Set(p, [stack |-> <<[node |-> 1, depth |-> 0]>>, considered |-> 0, bytes |-> 0, hits |-> {},
                     tooLarge |-> FALSE, ioErrors |-> FALSE, limit |-> FALSE])
          /\ Goto(p, "walk") /\ UNCHANGED <<store, traces, net, out, shown>>
       \/ Fail(p)

Top(p) == loc[p].stack[Len(loc[p].stack)]
Rest(p) == SubSeq(loc[p].stack, 1, Len(loc[p].stack) - 1)
TopNode(p) == cmd[p].tree[Top(p).node]
Walking(p) == At(p, "scan", "walk") /\ loc[p].stack # <<>> /\ ~loc[p].limit
Walk(p, local) == Set(p, local) /\ UNCHANGED <<pc, exit, store, traces, net, out, shown>>

\* is_ignored, a symbolic link, a directory at the depth limit, or neither file nor directory.
ScanSkips(p) ==
    /\ Walking(p)
    /\ \/ TopNode(p).ignored
       \/ TopNode(p).kind \in {"link", "other"}
       \/ TopNode(p).kind = "dir" /\ Top(p).depth >= MaxDepth
    /\ Walk(p, [loc[p] EXCEPT !.stack = Rest(p)])

\* The entry cannot be inspected, listed or opened; a file that cannot be opened was counted.
ScanIoError(p) ==
    /\ Walking(p) /\ ~TopNode(p).ignored
    /\ \E counted \in IF TopNode(p).kind = "file" /\ loc[p].considered < MaxFiles THEN {0, 1} ELSE {0} :
          Walk(p, [loc[p] EXCEPT !.stack = Rest(p), !.ioErrors = TRUE, !.considered = @ + counted])

\* The children in order, without those read_dir failed on.
ScanDescends(p) ==
    /\ Walking(p) /\ ~TopNode(p).ignored /\ TopNode(p).kind = "dir" /\ Top(p).depth < MaxDepth
    /\ \E lost \in SUBSET Children(TopNode(p)) :
          LET listed(n) == n \notin lost
              kids == IF lost = {} THEN TopNode(p).kids ELSE SelectSeq(TopNode(p).kids, listed)
          IN  Walk(p, [loc[p] EXCEPT
                 !.ioErrors = @ \/ lost # {},
                 !.stack = Rest(p) \o [n \in 1 .. Len(kids) |->
                              [node |-> kids[Len(kids) + 1 - n], depth |-> Top(p).depth + 1]]])

\* Mutant of ScanFile: a file that grew past the limit after it was measured is read up to the limit.
ScanFileShort(s, node, bytes) ==
    LET counted == [s EXCEPT !.considered = @ + 1]
    IN  IF s.considered >= MaxFiles THEN [s EXCEPT !.limit = TRUE]
        ELSE IF node.len > MaxFileBytes THEN [counted EXCEPT !.tooLarge = TRUE]
        ELSE IF s.bytes + node.len > MaxTotalBytes THEN [counted EXCEPT !.limit = TRUE]
        ELSE [counted EXCEPT !.bytes = @ + bytes,
                             !.hits = IF bytes = node.len /\ ~node.binary /\ Detect(node.text) # {}
                                      THEN @ \cup {node} ELSE @]

\* scan_file on a file of this length when it was inspected and `bytes` when it was read.
ScanFile(s, node, bytes) ==
    LET counted == [s EXCEPT !.considered = @ + 1]
        readLimit == IF MaxFileBytes < MaxTotalBytes - s.bytes THEN MaxFileBytes ELSE MaxTotalBytes - s.bytes
    IN  IF s.considered >= MaxFiles THEN [s EXCEPT !.limit = TRUE]
        ELSE IF node.len > MaxFileBytes THEN [counted EXCEPT !.tooLarge = TRUE]
        ELSE IF s.bytes + node.len > MaxTotalBytes THEN [counted EXCEPT !.limit = TRUE]
        ELSE IF bytes > readLimit
        THEN IF readLimit < MaxFileBytes THEN [counted EXCEPT !.limit = TRUE] ELSE [counted EXCEPT !.tooLarge = TRUE]
        ELSE [counted EXCEPT !.bytes = @ + bytes,
                             !.hits = IF ~node.binary /\ Detect(node.text) # {} THEN @ \cup {node} ELSE @]

ScanReads(p) ==
    /\ Walking(p) /\ ~TopNode(p).ignored /\ TopNode(p).kind = "file"
    /\ \E bytes \in {TopNode(p).len, TopNode(p).grown} :
          Walk(p, ScanFile([loc[p] EXCEPT !.stack = Rest(p)], TopNode(p), bytes))

\* scan_is_incomplete and the exit code; the record of the trace comes last.
ScanReports(p) ==
    /\ At(p, "scan", "walk") /\ (loc[p].stack = <<>> \/ loc[p].limit)
    /\ LET code == IF loc[p].tooLarge \/ loc[p].ioErrors \/ loc[p].limit THEN Incomplete
                   ELSE IF loc[p].hits = {} THEN Success ELSE FoundSecrets
       IN  \/ /\ IF cmd[p].trace THEN AppendTrace(p, "scan", "Protected", "Observed", "none", {})
                 ELSE UNCHANGED traces
              /\ Exit(p, code)
              /\ UNCHANGED <<loc, store, net, out, shown>>
           \/ cmd[p].trace /\ Fail(p)

ScanCommand(p) ==
    ScanBegins(p) \/ ScanSkips(p) \/ ScanIoError(p) \/ ScanDescends(p) \/ ScanReads(p) \/ ScanReports(p)

-----------------------------------------------------------------------------
(* diff-check.  The parser keeps the open file section and the open hunk;  *)
(* a line is a record with its type t, the counts of a hunk header, the    *)
(* marks of its content and whether a header names a path.  "combined" is  *)
(* the hunk header of a merge (@@@), which the parser has no case for.     *)

NoSection == [open |-> FALSE, new |-> FALSE, binary |-> FALSE, hits |-> FALSE]
NoHunk == [open |-> FALSE, old |-> 0, new |-> 0, oldSeen |-> 0, newSeen |-> 0, hits |-> FALSE]
NewParser == [section |-> NoSection, hunk |-> NoHunk, sections |-> FALSE, hits |-> FALSE, error |-> FALSE]

Line(t, old, new, marks, path) == [t |-> t, old |-> old, new |-> new, marks |-> marks, path |-> path]
HunkLines == UNION {{Line("hunk", o, n, {}, FALSE) : o \in 0 .. MaxHunkLines} : n \in 0 .. MaxHunkLines}
BodyLines == {Line("add", 0, 0, m, FALSE) : m \in LineMarks}
    \cup {Line(t, 0, 0, {"assigned"}, TRUE) : t \in {"del", "context", "nonewline"}}
FileLines == {Line("to", 0, 0, {}, b) : b \in BOOLEAN}
    \cup {Line(t, 0, 0, {"assigned"}, TRUE) :
             t \in {"git", "from", "rename", "malformed", "combined", "binary", "other"}}
DiffLines == HunkLines \cup BodyLines \cup FileLines

\* detect_builtin after mask_safe_refs: the first rule that fits decides.
DetectBuiltin(marks) ==
    IF "private_key" \in marks THEN "PrivateKey"
    ELSE IF "credential_url" \in marks THEN "CredentialUrl"
    ELSE IF "token" \in marks THEN "ProviderToken"
    ELSE IF "assigned" \in marks THEN "CredentialAssignment"
    ELSE "none"   \* nothing, a placeholder, a runtime reference or a SafeRef

FinishHunk(s) ==
    LET h == s.hunk
    IN  IF ~h.open THEN s
        ELSE IF h.oldSeen # h.old \/ h.newSeen # h.new THEN [s EXCEPT !.error = TRUE]
        ELSE [s EXCEPT !.hunk = NoHunk, !.section.hits = @ \/ h.hits]

\* finish_file, with what scan_with makes of the section: a binary or deleted file has no added lines.
FinishFile(s) ==
    IF ~s.section.open THEN s
    ELSE [s EXCEPT !.section = NoSection, !.sections = TRUE,
                   !.hits = @ \/ (s.section.hits /\ s.section.new /\ ~s.section.binary)]

\* HunkBuilder::push: a line belongs to the hunk by its first character.
Push(s, line) ==
    IF line.t \in {"add", "to"}
    THEN [s EXCEPT !.hunk.newSeen = @ + 1, !.hunk.hits = @ \/ DetectBuiltin(line.marks) # "none"]
    ELSE IF line.t \in {"del", "from"} THEN [s EXCEPT !.hunk.oldSeen = @ + 1]
    ELSE IF line.t = "context" THEN [s EXCEPT !.hunk.oldSeen = @ + 1, !.hunk.newSeen = @ + 1]
    ELSE [s EXCEPT !.error = TRUE]

\* The body of the loop of parse_patch.
ParseLine(s, line) ==
    IF line.t = "git"
    THEN LET done == FinishFile(FinishHunk(s))
         IN  IF done.error THEN done
             ELSE [done EXCEPT !.section = [NoSection EXCEPT !.open = TRUE, !.new = line.path]]
    ELSE IF line.t \in {"hunk", "malformed"}
    THEN LET done == FinishHunk(s)
         IN  IF done.error \/ ~done.section.open \/ line.t = "malformed" THEN [done EXCEPT !.error = TRUE]
             ELSE [done EXCEPT !.hunk = [NoHunk EXCEPT !.open = TRUE, !.old = line.old, !.new = line.new]]
    ELSE IF s.hunk.open THEN IF line.t = "nonewline" THEN s ELSE Push(s, line)
    ELSE IF line.t = "from" THEN [s EXCEPT !.section.open = TRUE]
    ELSE IF line.t = "to" THEN [s EXCEPT !.section.open = TRUE, !.section.new = line.path]
    ELSE IF line.t = "rename" /\ s.section.open THEN [s EXCEPT !.section.new = TRUE]
    ELSE IF line.t = "binary" /\ s.section.open THEN [s EXCEPT !.section.binary = TRUE]
    ELSE s

\* How the format is defined (history): the counts of a hunk header say which lines belong to it,
\* whatever they look like, and a binary mark is about the file it stands under, until the next
\* header (---, +++ or diff --git).  `dirty` says where an added line of a text file was to be
\* reported: in a "hunk"; in a hunk of a file whose header follows a binary mark with no diff --git
\* between them ("stale"); or behind the header of a merge ("combined").
NewReader == [headed |-> FALSE, path |-> FALSE, binary |-> FALSE, stale |-> FALSE, combined |-> FALSE,
              old |-> 0, new |-> 0, dirty |-> {}]
Risky == {"private_key", "credential_url", "token", "assigned"}
Reportable(r, line) == line.t = "add" /\ line.marks \cap Risky # {} /\ r.path /\ ~r.binary
ReadLine(r, line) ==
    IF line.t = "hunk" THEN [r EXCEPT !.old = line.old, !.new = line.new, !.combined = FALSE]
    ELSE IF line.t = "combined" THEN [r EXCEPT !.old = 0, !.new = 0, !.combined = TRUE]
    ELSE IF line.t = "git" THEN [NewReader EXCEPT !.headed = TRUE, !.path = line.path, !.dirty = r.dirty]
    ELSE IF r.old + r.new > 0
    THEN [r EXCEPT !.old = IF line.t \in {"del", "from", "context"} /\ @ > 0 THEN @ - 1 ELSE @,
                   !.new = IF line.t \in {"add", "to", "context"} /\ @ > 0 THEN @ - 1 ELSE @,
                   !.dirty = IF r.new > 0 /\ Reportable(r, line)
                             THEN @ \cup {IF r.stale THEN "stale" ELSE "hunk"} ELSE @]
    ELSE IF r.combined /\ Reportable(r, line) THEN [r EXCEPT !.dirty = @ \cup {"combined"}]
    ELSE IF line.t = "from" THEN [r EXCEPT !.headed = TRUE, !.binary = FALSE, !.stale = @ \/ r.binary]
    ELSE IF line.t = "to"
    THEN [r EXCEPT !.headed = TRUE, !.path = line.path, !.binary = FALSE, !.stale = @ \/ r.binary]
    ELSE IF line.t = "rename" /\ r.headed THEN [r EXCEPT !.path = line.path]
    ELSE IF line.t = "binary" /\ r.headed THEN [r EXCEPT !.binary = TRUE]
    ELSE r

DiffBegins(p) ==
    /\ At(p, "diff-check", "start")
    /\ \/ /\ Set(p, [parser |-> NewParser, reader |-> NewReader, lines |-> 0])
          /\ Goto(p, "read") /\ UNCHANGED <<store, traces, net, out, shown>>
       \/ Refuse(p)

\* Any next line: the patch may be malformed or cut off.
DiffReads(p) ==
    /\ At(p, "diff-check", "read") /\ loc[p].lines < MaxLines /\ ~loc[p].parser.error
    /\ \E line \in DiffLines :
          Set(p, [parser |-> ParseLine(loc[p].parser, line), reader |-> ReadLine(loc[p].reader, line),
                  lines |-> loc[p].lines + 1])
    /\ UNCHANGED <<pc, exit, store, traces, net, out, shown>>

\* The end of parse_patch, and the outcome of scan_with.
DiffEnds(p) ==
    LET end == FinishFile(FinishHunk(loc[p].parser))
    IN  /\ At(p, "diff-check", "read")
        /\ Set(p, [parser |-> end, reader |-> loc[p].reader, lines |-> loc[p].lines])
        /\ Goto(p, "report") /\ UNCHANGED <<store, traces, net, out, shown>>

DiffReports(p) ==
    LET s == loc[p].parser
    IN  /\ At(p, "diff-check", "report")
        /\ IF s.error \/ (~s.sections /\ loc[p].lines > 0) THEN Refuse(p)
           ELSE /\ Finish(p, IF s.hits THEN FoundSecrets ELSE Success)
                /\ UNCHANGED <<store, traces, net, out, shown>>

DiffCommand(p) == DiffBegins(p) \/ DiffReads(p) \/ DiffEnds(p) \/ DiffReports(p)

-----------------------------------------------------------------------------
(* mcp.  A message is a record with form ("object", "other", "large",      *)
(* "blank"), method, tool, arguments, keys (the texts of its object keys)  *)
(* and strings: its string values, each with its place (among the          *)
(* arguments or not), whether the field above it is sensitive, and its     *)
(* text or that it is a SafeRef or empty.                                  *)

\* restore_server_message returns Err: RejectResolver allows no reference anywhere.
RejectedToServer(m) ==
    IF m.method # "tools/call" THEN \E s \in m.strings : s.is = "ref"
    ELSE \/ ~m.tool \/ ~m.arguments
         \/ \E s \in m.strings : s.place = "arguments" /\ (s.is = "ref" \/ (s.sensitive /\ s.is # "empty"))

\* Transformer::transform returns Err, but for an output that is too large.
RejectedMessage(m, direction) ==
    m.form \in {"large", "other"} \/ (direction = "to-server" /\ RejectedToServer(m))

\* sanitize_value on every string, or restore_value on those of a tool's arguments.
SanitizedStrings(m, direction) ==
    {s \in m.strings : direction = "to-agent" \/ (m.method = "tools/call" /\ s.place = "arguments")}

McpBegins(p) ==
    /\ At(p, "mcp", "start")
    /\ Set(p, [lines |-> 0])
    /\ Goto(p, "read") /\ UNCHANGED <<store, traces, net, out, shown>>

\* What is only handed on.
Passed(text) == [Image(text, {}) EXCEPT !.passed = TRUE]

\* One round of the loop: a line that cannot be transformed ends the command, after what was printed.
\* Both directions rewrite string values and leave every object key as it is.
McpReads(p) ==
    /\ At(p, "mcp", "read") /\ loc[p].lines < MaxMessages
    /\ \E m \in Messages :
          \/ /\ m.form = "blank" \/ ~RejectedMessage(m, cmd[p].direction)
             /\ LET done == SanitizedStrings(m, cmd[p].direction)
                IN  shown' = [shown EXCEPT ![p] = @ \cup {SanitizeText(s.text) : s \in done}
                                 \cup {Passed(text) : text \in m.keys \cup {s.text : s \in m.strings \ done}}]
             /\ Set(p, [lines |-> loc[p].lines + 1])
             /\ UNCHANGED <<pc, exit, store, traces, net, out>>
          \/ m.form # "blank" /\ Refuse(p)

McpEnds(p) ==
    /\ At(p, "mcp", "read")
    /\ Finish(p, Success)
    /\ UNCHANGED <<store, traces, net, out, shown>>

McpCommand(p) == McpBegins(p) \/ McpReads(p) \/ McpEnds(p)

=============================================================================
