---------------------------- MODULE PreviewReducers ----------------------------
(***************************************************************************)
(* The previews of files, directories, trees, patches, environments,       *)
(* binary data, HTTP answers and logs of the clouds: internal/filters/fs,  *)
(* read.go, binary.go, patch, envdump, httpapi and cloudlogs.              *)
(*                                                                         *)
(* A line of source code has delta, by how much it opens more brackets     *)
(* than it closes, and ends, whether a declaration may end with it.        *)
(***************************************************************************)
EXTENDS HostReducers

CONSTANTS
  ListingFloor,     \* minDirListThreshold, at least
  GroupPreview,     \* names shown of a group of a listing
  TreeSamples,      \* children shown of an entry of a tree
  SignatureParts,   \* lines of a declaration
  EnvWidth          \* variables to a line, for maxEnvLineWidth

(* Of the same text in two lines, each has its number.                     *)
Numbered(lines) == [i \in DOMAIN lines |-> lines[i] @@ [number |-> i]]

(* buildPreviewLines, and the recovery of what is not in it.               *)
Preview(anchors, others, raw) ==
  LET shown == FirstOf(Unique(anchors \o others), MaxLines)
  IN  Said(KeysOf(Each(shown)), Len(shown), 0, Len(shown) < raw)

(* ReadLevel with a limit; the note of what is left out is a line as well. *)
ReadLevel(lines, noise, raw) ==
  LET kept == SelectSeq(lines, LAMBDA l : l.kind \notin noise)
      shown == FirstOf(kept, MaxLines)
      omitted == Len(kept) - Len(shown)
  IN  Said(KeysOf(Each(shown)), Len(shown), omitted, Len(shown) + (IF omitted > 0 THEN 1 ELSE 0) < raw)

(* Text: headings, items and labels; then the first sentence under a       *)
(* heading.                                                                *)
DocPreviewResult(lines) ==
  LET leads(i) == i > 1 /\ lines[i].kind = "text" /\ lines[i - 1].kind = "heading"
      leading == SelectSeq(Indexes(lines), leads)
  IN  Preview(Of(lines, {"heading", "item"}), [n \in DOMAIN leading |-> lines[leading[n]]], Len(lines))

(* Code of no known language: what looks like a declaration, then the      *)
(* rest; comments only if there is nothing else.                           *)
CodePreviewResult(lines) ==
  LET code == SelectSeq(Numbered(lines), LAMBDA l : l.kind \notin {"comment", "star"})
  IN  IF code = <<>> THEN ReadLevel(Numbered(lines), {"comment"}, Len(lines))
      ELSE Preview(Of(code, {"anchor"}), SelectSeq(code, LAMBDA l : l.kind # "anchor"), Len(code))

(* Code: its signatures.  A block and a declaration take the lines up to   *)
(* their end, and count as one; what is left of each member is its name.   *)
BlockEnd(lines, start) ==
  LET depth(i) == FoldLeft(LAMBDA d, l : d + l.delta, 0, SubSeq(lines, start, i))
      closing == {i \in start + 1 .. Len(lines) : depth(i) <= 0}
  IN  IF closing = {} THEN Len(lines) + 1 ELSE Min(closing)

DeclarationEnd(lines, start) ==
  LET blank == {i \in start + 1 .. Len(lines) : lines[i].kind = ""}
      last == IF blank = {} THEN Len(lines) ELSE Min(blank) - 1
      parts == {i \in start .. last : i = start \/ lines[i].kind # "comment"}
      stops == {i \in parts : \/ lines[i].ends
                              \/ Cardinality({j \in parts : j <= i}) >= SignatureParts}
  IN  IF stops = {} THEN Max(parts) ELSE Min(stops)

SignatureAnchors(lines) ==
  LET from[i \in 1 .. Len(lines) + 1] ==
        LET kind == lines[i].kind
            end == CASE kind = "block" \/ (kind = "import" /\ lines[i].delta > 0) -> BlockEnd(lines, i)
                     [] kind = "declaration" -> DeclarationEnd(lines, i)
                     [] OTHER -> i
            body == SubSeq(lines, i + 1, end - 1)
            inner == CASE kind = "import" -> SelectSeq(body, LAMBDA l : l.kind \notin {"", "comment", "todo"})
                       [] kind = "block" -> Of(body, {"member", "todo"})
                       [] OTHER -> <<>>
            own == IF kind \in {"import", "block", "declaration", "mark", "todo", "anchor"}
                   THEN <<lines[i]>> ELSE <<>>
            rest == from[Least(end, Len(lines)) + 1]
        IN  IF i > Len(lines) THEN [anchors |-> <<>>, raw |-> 0]
            ELSE [anchors |-> own \o inner \o rest.anchors,
                  raw |-> rest.raw + (IF kind = "" THEN 0 ELSE 1)]
  IN  from[1]

SignaturePreviewResult(lines) ==
  LET numbered == Numbered(lines)
      signatures == SignatureAnchors(numbered)
      raw == Len(SelectSeq(lines, LAMBDA l : l.kind # ""))
  IN  IF signatures.anchors = <<>> THEN ReadLevel(numbered, {"", "comment"}, raw)
      ELSE Preview(signatures.anchors, <<>>, signatures.raw)

-----------------------------------------------------------------------------
(* ls: all of a short listing; of a long one a few of each group.          *)
DirectoryListingResult(lines) ==
  LET of(kind) == SortedByRank(Unique(Of(lines, {kind})))
      all == of("dir") \o of("file")
      some == FirstOf(of("dir"), GroupPreview) \o FirstOf(of("file"), GroupPreview)
      long == Len(all) > Most(MaxLines - 1, ListingFloor)
      shown == IF long THEN some ELSE all
  IN  Said(KeysOf(Each(shown)), Len(shown), Len(all) - Len(shown), long)

(* tree: the entries at the top, each with a few of its children.  The     *)
(* footer takes the place of the last entry.                               *)
TreeEntries(lines) ==
  LET ingest(top, line) ==
        CASE line.depth = 1 -> Append(top, [line |-> line, children |-> <<>>, below |-> 0])
          [] line.depth = 2 /\ top # <<>> ->
               [top EXCEPT ![Len(top)].children = Append(@, line)]
          [] line.depth > 2 /\ top # <<>> -> [top EXCEPT ![Len(top)].below = @ + 1]
          [] OTHER -> top
  IN  FoldLeft(ingest, <<>>, Of(lines, {"entry"}))

TreeResult(lines) ==
  LET top == TreeEntries(lines)
      footer == Of(lines, {"footer"}) # <<>>
      height == Len(top) + (IF Of(lines, {"root"}) = <<>> THEN 0 ELSE 1) + (IF footer THEN 1 ELSE 0)
      crowded == footer /\ height >= MaxLines
      cut == MaxLines - (IF crowded THEN 1 ELSE 0) - (height - Len(top) - (IF footer THEN 1 ELSE 0))
      visible == FirstOf(top, cut)
      samples(e) == FirstOf(e.children, TreeSamples)
      names == [n \in DOMAIN visible |-> <<visible[n].line>> \o samples(visible[n])]
      hides == \E n \in DOMAIN top : Len(top[n].children) > TreeSamples \/ top[n].below > 0
  IN  IF top = <<>> THEN Said({}, 0, 0, FALSE)
      ELSE Said(KeysOf(Each(FlattenSeq(names))), Len(visible), Len(top) - Len(visible),
                crowded \/ hides \/ height > MaxLines)

(* diff, patch and git apply: files, then what failed to apply.            *)
PatchResult(lines) ==
  LET told == Unique(Of(lines, {"file"})) \o Unique(Of(lines, {"reject"}))
  IN  IF told = <<>> /\ Of(lines, {"hunk"}) = <<>> THEN GenericText(lines) ELSE Headed(Each(told))

(* Binary data: the distinct strings in it; the rest can only be recovered. *)
BinaryResult(runs) == [Headed(Each(Unique(runs))) EXCEPT !.plan = TRUE]

-----------------------------------------------------------------------------
(* env: PATH, what diagnoses a shell, what is masked, then the others by   *)
(* prefix.  Lines are packed; a line of a group is clipped.                *)
Packed(variables) ==
  [n \in 1 .. (Len(variables) + EnvWidth - 1) \div EnvWidth |->
     SubSeq(variables, (n - 1) * EnvWidth + 1, Least(n * EnvWidth, Len(variables)))]

EnvGroups(variables) ==
  LET prefixes == SourcesOf(variables)
      grouped(p) == p # "" /\ Len(From(variables, p)) > 1
      groups == SelectSeq(prefixes, grouped)
      loose == SelectSeq(prefixes, LAMBDA p : ~grouped(p))
      of(ps) == [n \in DOMAIN ps |-> From(variables, ps[n])]
      clipped == [n \in DOMAIN groups |-> FirstOf(of(groups)[n], EnvWidth)]
  IN  clipped \o Packed(FlattenSeq(of(loose)))

EnvResult(lines) ==
  LET of(kind) == Of(lines, {kind})
      path == of("path")
      out == [n \in DOMAIN path |-> <<path[n]>>] \o Packed(of("diagnostic")) \o Packed(of("secret"))
               \o EnvGroups(of("variable"))
      shown == FirstOf(out, MaxLines - 1)
      hidden == Len(out) - Len(shown)
  IN  IF out = <<>> THEN CompactText(lines)
      ELSE Said(KeysOf(Each(FlattenSeq(shown))), Len(FlattenSeq(shown)), hidden, hidden > 0)

(* An HTTP exchange: the status of the last answer, and the body.  Of JSON *)
(* a preview, whose cuts are not counted; of text the compact lines, whose *)
(* note of what is left out is a line like another.                        *)
HTTPBody(lines) ==
  LET ingest(s, line) ==
        CASE line.kind = "status" -> [s EXCEPT !.inHeaders = TRUE, !.status = TRUE]
          [] line.kind # "status" /\ s.inHeaders -> [s EXCEPT !.inHeaders = line.kind # "blank"]
          [] line.kind \in {"text", "json"} /\ ~s.inHeaders -> [s EXCEPT !.body = Append(@, line)]
          [] OTHER -> s
  IN  FoldLeft(ingest, [inHeaders |-> FALSE, status |-> FALSE, body |-> <<>>], lines)

HTTPResult(lines) ==
  LET s == HTTPBody(lines)
      json == s.body # <<>> /\ s.body[1].kind = "json"
      folded == FoldSimilar(s.body)
      compact == FirstOf(folded, MaxLines)
      note == IF Len(folded) > MaxLines THEN <<Run([key |-> "+"])>> ELSE <<>>
      body == IF json THEN FirstOf(Each(s.body), MaxLines - 1) ELSE compact \o note
  IN  IF ~s.status /\ s.body = <<>> THEN CompactText(lines)
      ELSE AfterNotes(IF s.status THEN 1 ELSE 0, body)

(* Logs of the clouds: of the records, or of the lines that are dated or   *)
(* tell of a failure, the latter; else the first few, with no word of the  *)
(* others.                                                                 *)
CloudLogsResult(lines) ==
  LET events == SelectSeq(lines, LAMBDA l : l.kind = "event" \/ l.tag = "telling")
      notes == IF Of(events, {"event"}) = <<>> THEN 2 ELSE 3
      telling == Unique(SelectSeq(events, LAMBDA l : l.tag = "telling"))
      told == IF telling = <<>> THEN FirstOf(events, Most(MaxLines - 3, 1)) ELSE telling
  IN  IF events = <<>> THEN CompactText(lines) ELSE AfterNotes(notes, Each(told))
=============================================================================
