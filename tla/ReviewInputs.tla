---------------------------- MODULE ReviewInputs ----------------------------
(***************************************************************************)
(* internal/reviewci and internal/reviewbatch: what a review is given and  *)
(* how it is cut into batches.  GitHub's manifest of changed files is      *)
(* reconciled with the complete trees of the merge base and the head; each *)
(* patch is applied to the old blob and must give the new one; the diff    *)
(* assembled from them is parsed against the manifest again, split into    *)
(* fragments and packed into batches.                                      *)
(*                                                                         *)
(* A tree is a function from paths to entries.  A blob is its lines; its   *)
(* digest is the blob itself.  A line is [text, eol], eol false for a last *)
(* line without newline.  A patch is its hunks.                            *)
(***************************************************************************)
EXTENDS Integers, FiniteSets, SequencesExt

CONSTANTS
  Names,       \* the paths, in the order of their names
  RelatedKey,  \* rank of the key under which a path is grouped
  TextBytes,   \* bytes of a line's text; a no-newline marker counts 1
  HeaderBytes, \* bytes of a section's metadata
  BatchBytes   \* policy: bytes of a batch

None == "none"
Missing == [kind |-> None, blob |-> <<>>]
Entry(tree, path) == IF path \in DOMAIN tree THEN tree[path] ELSE Missing
File(entry) == IF entry.kind = "tree" THEN Missing ELSE entry
ReviewTreeDelta(old, current) == File(old) # File(current)

(***************************************************************************)
(* The manifest: rows [name, previous, status, patch].                     *)
(***************************************************************************)
OldName(row) == IF row.previous = None THEN row.name ELSE row.previous
OldWrites(rows) ==
  {row.name : row \in {r \in rows : r.status \in {"removed", "modified"}}} \cup
  {row.previous : row \in {r \in rows : r.status = "renamed"}}
NewWrites(rows) == {row.name : row \in {r \in rows : r.status # "removed"}}
\* Mutant: a source that is still there is thought to be covered by the rename.
Mutant_Retained(rows, after) == FALSE
Retained(rows, after) ==
  \E row \in rows : /\ row.status = "renamed"
                    /\ File(Entry(after, row.previous)) # Missing
                    /\ row.previous \notin NewWrites(rows)

Reconciled(rows, before, after) ==
  /\ \A row \in rows : ReviewTreeDelta(Entry(before, row.name), Entry(after, row.name))
  /\ ~ Retained(rows, after)
  /\ \A path \in DOMAIN before \cup DOMAIN after :
       LET old == Entry(before, path)  current == Entry(after, path) IN
       ReviewTreeDelta(old, current) =>
         /\ File(old) # Missing => path \in OldWrites(rows)
         /\ File(current) # Missing => path \in NewWrites(rows)

Regular == {None, "file", "exec"}
Lived(row, old, current) ==
  /\ (row.status \in {"renamed", "copied"}) = (row.previous # None)
  /\ row.previous # row.name
  /\ (row.status = "added") = (old = Missing)
  /\ (row.status = "removed") = (current = Missing)
  /\ old.kind \in Regular /\ current.kind \in Regular
  /\ ~ (row.previous = None /\ old # Missing /\ current # Missing /\ old = current)

(***************************************************************************)
(* Patches: hunks [old, olds, new, news, lines], a hunk line [op, line].   *)
(***************************************************************************)
Side(lines, op) ==
  LET kept == SelectSeq(lines, LAMBDA l : l.op # op)
  IN [i \in DOMAIN kept |-> kept[i].line]
Minus(h) == Side(h.lines, "+")
Plus(h) == Side(h.lines, "-")
OldSkip(h) == IF h.olds = 0 THEN h.old ELSE h.old - 1
NewSkip(h) == IF h.news = 0 THEN h.new ELSE h.new - 1

ParseHunkHeader(h) == (h.olds > 0 => h.old > 0) /\ (h.news > 0 => h.new > 0)
\* The checks of the hunks in parseSection.
WellFormed(patch) ==
  /\ \A i \in DOMAIN patch :
       LET h == patch[i] IN
       /\ ParseHunkHeader(h) /\ h.lines # <<>>
       /\ Len(Minus(h)) = h.olds /\ Len(Plus(h)) = h.news
  /\ \A i \in 2..Len(patch) :
       /\ patch[i].old >= patch[i-1].old + patch[i-1].olds
       /\ patch[i].new >= patch[i-1].new + patch[i-1].news

ApplyHunk(before, state, h) ==
  LET skip == OldSkip(h)
      out == state.out \o SubSeq(before, state.off + 1, skip)
  IN IF /\ state.ok
        /\ skip >= state.off /\ skip + h.olds <= Len(before)
        /\ Len(out) = NewSkip(h)
        /\ SubSeq(before, skip + 1, skip + h.olds) = Minus(h)
     THEN [ok |-> TRUE, off |-> skip + h.olds, out |-> out \o Plus(h)]
     ELSE [state EXCEPT !.ok = FALSE]

Terminated(lines) == \A i \in DOMAIN lines : i < Len(lines) => lines[i].eol
ApplyFilePatch(before, patch) ==
  LET end == FoldLeft(LAMBDA state, h : ApplyHunk(before, state, h),
                      [ok |-> WellFormed(patch), off |-> 0, out |-> <<>>], patch)
      out == end.out \o SubSeq(before, end.off + 1, Len(before))
  IN [ok |-> end.ok /\ Terminated(out), out |-> out]

ProvePatch(row, old, current) ==
  IF row.patch = <<>>
  THEN old.blob = current.blob
  ELSE LET result == ApplyFilePatch(old.blob, row.patch)
       IN result.ok /\ result.out = current.blob

(***************************************************************************)
(* The assembled diff: a section for every row, and the checks of          *)
(* parseSection against the manifest.                                      *)
(***************************************************************************)
AppendFileDiff(row, old, current) ==
  [name    |-> row.name,
   from    |-> OldName(row),
   verb    |-> IF row.previous = None THEN None
               ELSE IF row.status = "copied" THEN "copy" ELSE "rename",
   new     |-> old = Missing,
   deleted |-> current = Missing,
   mode    |-> IF current = Missing THEN old.kind
               ELSE IF old.kind = current.kind THEN None ELSE current.kind,
   hunks   |-> row.patch]

ParseSection(section, row) ==
  /\ WellFormed(section.hunks)
  /\ (row.status = "added") = section.new /\ (row.status = "removed") = section.deleted
  /\ (row.status = "renamed") = (section.verb = "rename")
  /\ (row.status = "copied") = (section.verb = "copy")
  /\ section.from = OldName(row)
  /\ \A i \in DOMAIN section.hunks :
       /\ section.new => section.hunks[i].olds = 0
       /\ section.deleted => section.hunks[i].news = 0
  /\ \/ section.hunks # <<>> \/ section.new \/ section.deleted
     \/ section.verb # None \/ section.mode # None

\* largeDiff: the sections of an accepted manifest.
LargeDiff(rows, before, after) ==
  {AppendFileDiff(row, Entry(before, OldName(row)), Entry(after, row.name)) : row \in rows}
Accepted(rows, before, after) ==
  /\ rows # {}
  /\ Reconciled(rows, before, after)
  /\ \A row \in rows :
       LET old == Entry(before, OldName(row))  current == Entry(after, row.name) IN
       /\ Lived(row, old, current)
       /\ ProvePatch(row, old, current)

\* Git's own diff: a change between a file and a link is two sections under one
\* path, a deletion followed by a creation.
Retyped(row, old, current) ==
  /\ row.status = "modified" /\ old # Missing /\ current # Missing
  /\ (old.kind = "link") # (current.kind = "link")
EveryLine(op, blob) ==
  IF blob = <<>> THEN <<>>
  ELSE LET removal == op = "-" IN
       <<[old |-> IF removal THEN 1 ELSE 0, olds |-> IF removal THEN Len(blob) ELSE 0,
          new |-> IF removal THEN 0 ELSE 1, news |-> IF removal THEN 0 ELSE Len(blob),
          lines |-> [i \in DOMAIN blob |-> [op |-> op, line |-> blob[i]]]]>>
RawDiff(rows, before, after) ==
  UNION {LET old == Entry(before, OldName(row))  current == Entry(after, row.name) IN
         IF Retyped(row, old, current)
         THEN {AppendFileDiff([row EXCEPT !.patch = EveryLine("-", old.blob)], old, Missing),
               AppendFileDiff([row EXCEPT !.patch = EveryLine("+", current.blob)], Missing, current)}
         ELSE {AppendFileDiff(row, old, current)} : row \in rows}

\* readInputs: the sections and the manifest have to agree.
MatchGitHeader(section, row) == section.from = OldName(row) /\ section.name = row.name
ParseTypeChange(sections, row) ==
  /\ row.status = "modified" /\ row.previous = None
  /\ \E gone, made \in sections :
       /\ gone.mode # made.mode
       /\ ParseSection(gone, [row EXCEPT !.status = "removed"])
       /\ ParseSection(made, [row EXCEPT !.status = "added"])
ReadInputs(rows, sections) ==
  LET of(row) == {s \in sections : MatchGitHeader(s, row)} IN
  /\ \A s \in sections : Cardinality({row \in rows : MatchGitHeader(s, row)}) = 1
  /\ \A row \in rows :
       \/ Cardinality(of(row)) = 1 /\ \A s \in of(row) : ParseSection(s, row)
       \/ Cardinality(of(row)) = 2 /\ ParseTypeChange(of(row), row)

(***************************************************************************)
(* splitFile: greedy, hunk by hunk; a fragment keeps the coordinates its   *)
(* first line has in the two files.                                        *)
(***************************************************************************)
Cost(l) == TextBytes[l.line.text] + (IF l.line.eol THEN 0 ELSE 1)
Start(section, old, new) ==
  [name |-> section.name, old |-> old, olds |-> 0, new |-> new, news |-> 0,
   lines |-> <<>>, bytes |-> HeaderBytes]
Extended(f, l) ==
  [f EXCEPT !.olds = @ + (IF l.op = "+" THEN 0 ELSE 1),
            !.news = @ + (IF l.op = "-" THEN 0 ELSE 1),
            !.lines = Append(@, l), !.bytes = @ + Cost(l)]
\* Mutant: the next fragment starts where the hunk did in the new file.
Mutant_Continued(section, f) == Start(section, f.old + f.olds, f.new)
Continued(section, f) == Start(section, f.old + f.olds, f.new + f.news)
SplitHunk(section, h) ==
  FoldLeft(LAMBDA fragments, l :
             IF Last(fragments).bytes + Cost(l) > BatchBytes
             THEN Append(fragments, Extended(Continued(section, Last(fragments)), l))
             ELSE Front(fragments) \o <<Extended(Last(fragments), l)>>,
           <<Start(section, h.old, h.new)>>, h.lines)
SplitFile(section) ==
  IF section.hunks = <<>> THEN <<Start(section, 0, 0)>>
  ELSE FoldLeft(LAMBDA fragments, h : fragments \o SplitHunk(section, h), <<>>, section.hunks)
\* a single line that exceeds the limit makes the file unreviewable
Reviewable(section) ==
  \A i \in DOMAIN section.hunks : \A j \in DOMAIN section.hunks[i].lines :
    HeaderBytes + Cost(section.hunks[i].lines[j]) <= BatchBytes

(***************************************************************************)
(* makePlan: the groups of related files in the order of their keys, each  *)
(* kept in one batch when it fits.  A batch is a sequence of fragments.    *)
(***************************************************************************)
\* of a type change the deletion comes first
Parts(sections, path) ==
  SetToSeq({s \in sections : s.name = path /\ s.deleted}) \o
  SetToSeq({s \in sections : s.name = path /\ ~ s.deleted})
Bytes(fragments) == FoldLeft(LAMBDA sum, f : sum + f.bytes, 0, fragments)
Fragments(sections, path) ==
  LET parts == Parts(sections, path) IN
  IF \E s \in ToSet(parts) : ~ Reviewable(s) THEN <<>>
  ELSE FoldLeft(LAMBDA fragments, s : fragments \o SplitFile(s), <<>>, parts)
Group(sections, key) ==
  FoldLeft(LAMBDA fragments, path : IF RelatedKey[path] = key
                                    THEN fragments \o Fragments(sections, path) ELSE fragments,
           <<>>, Names)

\* the last batch is the pending one
Flushed(batches) == IF Last(batches) = <<>> THEN batches ELSE Append(batches, <<>>)
Packed(batches, f) ==
  LET room == IF Bytes(Last(batches)) + f.bytes > BatchBytes THEN Flushed(batches) ELSE batches
  IN Front(room) \o <<Append(Last(room), f)>>
PackedGroup(batches, group) ==
  LET whole == /\ Bytes(group) <= BatchBytes
               /\ Bytes(Last(batches)) + Bytes(group) > BatchBytes
  IN FoldLeft(Packed, IF whole THEN Flushed(batches) ELSE batches, group)
MakePlan(sections) ==
  LET keys == 1..Len(Names)
      packed == FoldLeft(LAMBDA batches, key : PackedGroup(batches, Group(sections, key)),
                         <<<<>>>>, [k \in keys |-> k])
  IN SelectSeq(packed, LAMBDA batch : batch # <<>>)

(***************************************************************************)
(* What these have to establish, said without them.                        *)
(***************************************************************************)

\* The hunks take old to new, each side found where the hunk says it is and
\* everything between them carried over.
From(start, count) == IF count = 0 THEN start + 1 ELSE start
Cited(hunks, old, new) ==
  LET n == Len(hunks)
      oldFrom(i) == IF i = n + 1 THEN Len(old) + 1 ELSE From(hunks[i].old, hunks[i].olds)
      newFrom(i) == IF i = n + 1 THEN Len(new) + 1 ELSE From(hunks[i].new, hunks[i].news)
      oldTo(i) == IF i = 0 THEN 1 ELSE oldFrom(i) + hunks[i].olds
      newTo(i) == IF i = 0 THEN 1 ELSE newFrom(i) + hunks[i].news
  IN /\ \A i \in 0..n : oldTo(i) <= oldFrom(i+1) /\ newTo(i) <= newFrom(i+1)
     /\ \A i \in 1..n :
          /\ SubSeq(old, oldFrom(i), oldTo(i) - 1) = Minus(hunks[i])
          /\ SubSeq(new, newFrom(i), newTo(i) - 1) = Plus(hunks[i])
     /\ \A i \in 0..n : SubSeq(old, oldTo(i), oldFrom(i+1) - 1) = SubSeq(new, newTo(i), newFrom(i+1) - 1)

\* A section, read by itself, is true of the two trees.
SectionHolds(s, before, after) ==
  LET old == IF s.new THEN Missing ELSE Entry(before, s.from)
      new == IF s.deleted THEN Missing ELSE Entry(after, s.name)
  IN /\ s.new \/ old # Missing
     /\ s.deleted \/ new # Missing
     /\ s.hunks = <<>> => old.blob = new.blob
     /\ s.hunks # <<>> => Cited(s.hunks, old.blob, new.blob)
     /\ IF s.deleted THEN old.kind = s.mode
        ELSE new.kind = (IF s.mode = None THEN old.kind ELSE s.mode)

\* Replaying the sections on the old tree - deletions and renames take the old
\* file away, everything else writes its new file - gives the new tree.
Replayed(sections, before, after, path) ==
  LET written == \E s \in sections : s.name = path /\ ~ s.deleted
      gone == \E s \in sections : \/ s.deleted /\ s.name = path
                                  \/ s.verb = "rename" /\ s.from = path
  IN IF written THEN File(Entry(after, path)) # Missing
     ELSE IF gone THEN File(Entry(after, path)) = Missing
     ELSE File(Entry(before, path)) = File(Entry(after, path))
Explains(sections, before, after) ==
  /\ \A s \in sections :
       /\ SectionHolds(s, before, after)
       /\ s.new /\ Entry(before, s.name) # Missing => \E g \in sections : g.deleted /\ g.name = s.name
  /\ \A path \in DOMAIN before \cup DOMAIN after : Replayed(sections, before, after, path)
==============================================================================
