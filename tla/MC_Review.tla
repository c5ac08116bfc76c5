----------------------------- MODULE MC_Review -----------------------------
(* Two families of inputs: small trees with any manifest, to find what the  *)
(* reconciliation lets through; and one file with any patch, to find where  *)
(* its lines are taken to be.                                               *)
EXTENDS Review

McNames == <<"p", "q", "r">>
McRelatedKey == [p |-> 1, q |-> 2, r |-> 2]
McTextBytes == [a |-> 1, b |-> 1, long |-> 3]

Line(text, eol) == [text |-> text, eol |-> eol]
OneLine(op, text, eol) == [op |-> op, line |-> Line(text, eol)]
A == Line("a", TRUE)
B == Line("b", TRUE)
Hunk(old, new, lines) ==
  LET count(op) == Len(SelectSeq(lines, LAMBDA l : l.op # op))
  IN [old |-> old, olds |-> count("+"), new |-> new, news |-> count("-"), lines |-> lines]

\* Trees of three paths, and of two with other kinds of entries.
Blobs == {<<A>>, <<B>>}
Entries == {[kind |-> "file", blob |-> b] : b \in Blobs}
SmallTrees == UNION {[paths -> Entries] : paths \in SUBSET {"p", "q", "r"}}
OddEntries == Entries \cup {[kind |-> k, blob |-> <<A>>] : k \in {"exec", "link"}} \cup {[kind |-> "tree", blob |-> <<>>]}
OddTrees == UNION {[paths -> OddEntries] : paths \in SUBSET {"p", "q"}}

RawTrees == {t \in OddTrees : \A path \in DOMAIN t : t[path].kind \in {"file", "link"}}

Swap == <<Hunk(1, 1, <<OneLine("-", "a", TRUE), OneLine("+", "b", TRUE)>>)>>
Add == <<Hunk(0, 1, <<OneLine("+", "a", TRUE)>>)>>
Drop == <<Hunk(1, 0, <<OneLine("-", "a", TRUE)>>)>>
Row(n, o, s, h) == [name |-> n, previous |-> o, status |-> s, patch |-> h]
Rows(names, patches) ==
  {Row(n, None, s, h) : n \in names, s \in {"added", "removed", "modified"}, h \in patches} \cup
  {Row(n, o, s, h) : n \in names, o \in names, s \in {"renamed", "copied"}, h \in patches}
Named(rows, n) == {r \in rows : r.name = n /\ r.previous # n}
SmallManifests ==
  LET rows == Rows({"p", "q", "r"}, {<<>>})
  IN {x \cup y \cup z : x \in {{}} \cup {{r} : r \in Named(rows, "p")},
                        y \in {{}} \cup {{r} : r \in Named(rows, "q")},
                        z \in {{}} \cup {{r} : r \in Named(rows, "r")}}
OddManifests ==
  LET rows == Rows({"p", "q"}, {<<>>, Swap, Add, Drop})
  IN {x \cup y : x \in {{}} \cup {{r} : r \in Named(rows, "p")},
                 y \in {{}} \cup {{r} : r \in Named(rows, "q")}}

\* One file of at most two lines, and patches of one or two hunks.
LastLines == {A, B, Line("a", FALSE), Line("long", TRUE)}
FileBlobs == {<<>>} \cup {<<l>> : l \in LastLines} \cup {<<k, l>> : k \in {A, B}, l \in LastLines}
FileTrees == {<<>>} \cup {[p |-> [kind |-> "file", blob |-> b]] : b \in FileBlobs}
Changes == {[op |-> o, line |-> l] : o \in {" ", "+", "-"}, l \in LastLines}
OneHunk == {Hunk(o, n, ls) : o \in 0..2, n \in 0..2, ls \in {<<c>> : c \in Changes} \cup {<<c, d>> : c, d \in Changes}}
FewHunks == {Hunk(o, n, <<c>>) : o \in 0..2, n \in 0..2, c \in {x \in Changes : x.line \in {A, B}}}
FilePatches == {<<h>> : h \in OneHunk} \cup {<<h, k>> : h, k \in FewHunks}
FileManifests == {{Row("p", None, s, h)} : s \in {"added", "removed", "modified"}, h \in FilePatches}

\* Three files, with batches to fill: p is changed or goes, q goes, becomes
\* executable or unreviewable, r loses a line, or is changed in one or both.
Of(kind, blob) == [kind |-> kind, blob |-> blob]
AfterP == {<<>>, [p |-> Of("file", <<B>>)]}
AfterQ == {<<>>, [q |-> Of("exec", <<A>>)], [q |-> Of("file", <<Line("long", TRUE)>>)]}
AfterR == {[r |-> Of("file", <<B, A>>)], [r |-> Of("file", <<B, B>>)], [r |-> Of("file", <<A>>)]}
ManyTrees == {[p |-> Of("file", <<A>>), q |-> Of("file", <<A>>), r |-> Of("file", <<A, A>>)]} \cup
             {x @@ y @@ z : x \in AfterP, y \in AfterQ, z \in AfterR}
Lengthen == <<Hunk(1, 1, <<OneLine("-", "a", TRUE), OneLine("+", "long", TRUE)>>)>>
Both == <<Hunk(1, 1, <<OneLine("-", "a", TRUE), OneLine("-", "a", TRUE), OneLine("+", "b", TRUE), OneLine("+", "b", TRUE)>>)>>
ManyManifests ==
  {{x, y, z} : x \in {Row("p", None, "removed", Drop), Row("p", None, "modified", Swap)},
               y \in {Row("q", None, "removed", Drop), Row("q", None, "modified", <<>>), Row("q", None, "modified", Lengthen)},
               z \in {Row("r", None, "modified", Drop), Row("r", None, "modified", Swap), Row("r", None, "modified", Both)}}

McCases == <<[trees |-> SmallTrees, manifests |-> SmallManifests, raw |-> {FALSE}],
             [trees |-> OddTrees, manifests |-> OddManifests, raw |-> {FALSE}],
             [trees |-> RawTrees, manifests |-> OddManifests, raw |-> {TRUE}],
             [trees |-> FileTrees, manifests |-> FileManifests, raw |-> {FALSE}],
             [trees |-> ManyTrees, manifests |-> ManyManifests, raw |-> BOOLEAN]>>
McAllowances == {[requests |-> 3, tokens |-> 8, input |-> 7], [requests |-> 6, tokens |-> 3, input |-> 9]}
Stream(events, clean) == [events |-> events, clean |-> clean, long |-> FALSE]
McStreams == {[Stream(<<"text", "stop", "done">>, TRUE) EXCEPT !.long = TRUE],
              Stream(<<"text", "stop", "done">>, TRUE), Stream(<<"text", "stop", "usage", "done">>, TRUE),
              Stream(<<"text", "stop", "done">>, FALSE), Stream(<<"text", "done">>, TRUE),
              Stream(<<"stop", "text", "done">>, TRUE), Stream(<<"stop", "done">>, TRUE),
              Stream(<<"text", "length", "done">>, TRUE), Stream(<<"text", "stop">>, TRUE)}
=============================================================================
