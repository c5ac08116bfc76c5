------------------------------- MODULE Checkout -------------------------------
(* The files of a project checkout that the factory's short commands share,   *)
(* and how a command replaces one: it looks at the file, prepares a complete  *)
(* sibling, looks again, and renames the sibling over the name.  Nothing      *)
(* locks these files: people edit them, other commands replace them and       *)
(* processes die between any two steps.  A change that falls between the last *)
(* look and the rename is beyond what the code claims to protect, and is      *)
(* recorded as such in "gap".                                                 *)
(*                                                                            *)
(* Settings models the commands on factory.yaml, Setup those that install and *)
(* synchronise; this module holds what they share.                            *)
EXTENDS Naturals, Sequences, FiniteSets

CONSTANTS
  Procs,       \* processes, each running one command
  Scenarios,   \* starting points: commands, files present, names people edit
  Edits,       \* what people may write, each once
  MaxFaults    \* bound on failed calls and deaths

\* The factory's files by role.  "source" is opencode.json with the role files it
\* names; "adapter" and "codex" are generated from it; "kept" is the fixed name for
\* a replaced CLAUDE.md; "asset" is a framework file.
Names == {"yaml", "config", "migrated", "workflow", "source", "adapter", "codex",
          "claude", "kept", "ignore", "asset", "runtime", "current", "factory",
          "version", "pending"}
Nobody == "nobody"

VARIABLES
  tree,      \* [Names -> leaf]: what is under each name
  backups,   \* contents under names that were created exclusively at random
  proc,      \* [Procs -> the process]
  lease,     \* holder of the exclusive lease on the checkout, or Nobody
  authored,  \* what people wrote: pairs of a kind of content and a text
  gap,       \* pairs written between another process's last look and its rename
  toWrite,   \* what people have not written yet
  editable,  \* names people touch in this scenario
  faults     \* failures so far

files == <<tree, backups, gap>>
people == <<authored, toWrite, editable>>
vars == <<files, proc, lease, people, faults>>

\* "id" counts the changes under the name, so that two observations of one file
\* are equal exactly if nobody replaced or rewrote it in between.
\* "mark" is the lane of the YAML, or whether the factory generated the file; "from"
\* the id of the source an adapter was generated from.
Leaf(kind, text, mark) == [id |-> 0, kind |-> kind, text |-> text, mark |-> mark, from |-> 0]
Nothing == Leaf("none", {}, "")
Here(n) == tree[n].kind # "none"
Same(a, b) == IF a.kind = "none" THEN b.kind = "none" ELSE a = b
Unchanged(p, n) == Same(proc[p].seen[n], tree[n])

\* What kind of content a name holds: settings are one, wherever they are written.
Content(n) == IF n \in {"yaml", "config"} THEN "settings" ELSE n

\* Adapters and a workflow with the factory's header are nobody's to keep.
Owned(n, leaf) == n \notin {"adapter", "codex"} /\ leaf.mark # "managed"

Blank == [cmd |-> "", pc |-> "start", stage |-> "", lane |-> "", seen |-> [n \in Names |-> Nothing],
          prev |-> [n \in Names |-> Nothing], left |-> <<>>, edits |-> <<>>, back |-> "",
          fall |-> {}, told |-> {}, aim |-> "", result |-> ""]

Init ==
  \E s \in Scenarios :
    /\ tree = [n \in Names |-> IF n \in DOMAIN s.held THEN [s.held[n] EXCEPT !.id = 1] ELSE Nothing]
    /\ backups = {} /\ gap = {} /\ lease = Nobody /\ faults = 0
    /\ authored = UNION {{<<Content(n), t>> : t \in s.held[n].text} : n \in {n \in DOMAIN s.held : Owned(n, s.held[n])}}
    /\ toWrite = Edits /\ editable = s.editable
    /\ proc = [p \in Procs |-> [Blank EXCEPT !.cmd = s.cmd[p], !.lane = s.lane,
                                             !.pc = IF s.cmd[p] = "none" THEN "end" ELSE "start"]]

-----------------------------------------------------------------------------
(* Changing a name.                                                          *)

Aimed(p, n) == \E q \in Procs \ {p} : proc[q].aim = n
Exposed(p, n, text) == IF Aimed(p, n) THEN {<<Content(n), t>> : t \in (text \ tree[n].text) \cup {""}} ELSE {}

\* A sibling is written, flushed and read back before it may be published: what is
\* renamed is complete, and a file of its own.
Prepared(leaf, before) == [leaf EXCEPT !.id = before.id + 1]

\* A publication that must not replace anything finds the name free, in one call.
Free(n) == ~Here(n)

Put(p, n, leaf) ==
  /\ tree' = [tree EXCEPT ![n] = Prepared(leaf, @)]
  /\ gap' = gap \cup Exposed(p, n, leaf.text)
  /\ UNCHANGED backups

Gone(leaf) == [Nothing EXCEPT !.id = leaf.id + 1]
Remove(p, n) ==
  /\ tree' = [tree EXCEPT ![n] = Gone(@)]
  /\ gap' = gap \cup Exposed(p, n, {})
  /\ UNCHANGED backups

-----------------------------------------------------------------------------
(* How a command goes on and ends.                                           *)

Become(p, m) == proc' = [proc EXCEPT ![p] = m]
Goto(p, pc) == Become(p, [proc[p] EXCEPT !.pc = pc])

Finish(p, m, result) ==
  /\ Become(p, [Blank EXCEPT !.cmd = m.cmd, !.pc = "end", !.told = m.told, !.result = result])
  /\ lease' = IF lease = p THEN Nobody ELSE lease

Initializing(m) == m.cmd \in {"init", "reinit"}

\* The end of a command, or of a stage of an initialization that runs it: an unsafe
\* synchronization or a cancellation aborts the initialization, any other failure is
\* a warning.
Leave(p, m, how) ==
  CASE m.stage = "sync" /\ how # "unsafe" ->
         /\ Become(p, [Blank EXCEPT !.cmd = m.cmd, !.lane = m.lane, !.told = m.told,
                                    !.stage = IF m.lane = "on" THEN "lane" ELSE "",
                                    !.pc = IF m.lane = "on" THEN "en-look" ELSE "in-prove"])
         /\ UNCHANGED lease
    [] m.stage = "lane" ->
         /\ Become(p, [Blank EXCEPT !.cmd = m.cmd, !.lane = m.lane, !.pc = "in-prove",
                                    !.told = m.told \cup (IF how = "done" THEN {} ELSE {"warned"})])
         /\ UNCHANGED lease
    [] OTHER -> Finish(p, m, how)

\* A Set of one or more settings, one after the other: where the command goes on
\* and what it tells if one of them fails.
Setting(m, edits, back, fall) ==
  [m EXCEPT !.pc = "set-read", !.edits = edits, !.back = back, !.fall = fall, !.aim = ""]
SetPcs == {"set-read", "set-check", "set-guard", "set-rename"}
SyncPcs == {"sy-source", "sy-inspect", "sy-check", "sy-prepare", "sy-aim", "sy-publish"}

\* Mutant: a failed publication of the workflow is only reported.
Mutant_RollBack(m) == [m EXCEPT !.pc = "end", !.result = "refused", !.aim = ""]
\* A failed publication of the workflow turns the lane off again.
RollBack(m) == Setting(m, <<"off">>, "leave", {"unrolled"})

\* The error path of whatever the process is doing.
Refused(p) ==
  LET m == proc[p] IN
    CASE m.pc \in {"en-check", "en-publish"} -> Become(p, RollBack(m)) /\ UNCHANGED lease
      [] m.pc \in SetPcs -> Leave(p, [m EXCEPT !.told = @ \cup m.fall], "refused")
      [] m.pc \in {"mig-check", "mig-rename"} -> Leave(p, [m EXCEPT !.told = @ \cup {"partial"}], "refused")
      [] m.pc \in SyncPcs -> Leave(p, m, "unsafe")
      [] OTHER -> Leave(p, m, "refused")

\* A step whose condition does not hold ends in the error path.
Decide(p, condition, step) ==
  IF condition THEN step ELSE Refused(p) /\ UNCHANGED <<files, authored>>

-----------------------------------------------------------------------------
(* The surroundings.                                                         *)

\* A call fails or is refused (an unsafe file, a permission, a cancellation).
CallFails(p) ==
  /\ faults < MaxFaults /\ proc[p].pc # "end"
  /\ faults' = faults + 1
  /\ Refused(p)
  /\ UNCHANGED <<files, people>>

\* An initialization is cancelled in one of its stages: the stage ends in its error
\* path, and the initialization with it.  A rollback has a context of its own.
Cancelled(p) ==
  LET m == [proc[p] EXCEPT !.stage = "cancelled"] IN
    /\ faults < MaxFaults /\ proc[p].stage \in {"sync", "lane"}
    /\ faults' = faults + 1
    /\ CASE m.pc \in {"en-check", "en-publish"} -> Become(p, RollBack(m)) /\ UNCHANGED lease
         [] m.back = "leave" -> Become(p, m) /\ UNCHANGED lease
         [] OTHER -> Leave(p, m, "refused")
    /\ UNCHANGED <<files, people>>

Dies(p) ==
  /\ faults < MaxFaults /\ proc[p].pc # "end"
  /\ faults' = faults + 1
  /\ Finish(p, [proc[p] EXCEPT !.told = @ \cup {"died"}], "died")
  /\ UNCHANGED <<files, people>>

\* People add to a file, or write a new one.
Edit(n, t) ==
  /\ toWrite' = toWrite \ {t} /\ UNCHANGED editable
  /\ tree[n].kind # "link"
  /\ Put(Nobody, n, [tree[n] EXCEPT !.kind = "file", !.text = @ \cup {t}])
  /\ authored' = authored \cup (IF Owned(n, tree[n]) THEN {<<Content(n), t>>} ELSE {})
  /\ UNCHANGED <<proc, lease, faults>>

\* People put a file of theirs away, with what they wrote in it.
PutAway(n) ==
  /\ Here(n) /\ toWrite # {} /\ n \in {"yaml", "config", "source", "claude"}
  /\ toWrite' = toWrite \ {CHOOSE t \in toWrite : TRUE} /\ UNCHANGED editable
  /\ Remove(Nobody, n)
  /\ authored' = authored \ {<<Content(n), t>> : t \in tree[n].text}
  /\ UNCHANGED <<proc, lease, faults>>

Surroundings ==
  \/ \E p \in Procs : CallFails(p) \/ Cancelled(p) \/ Dies(p)
  \/ \E n \in editable, t \in toWrite : Edit(n, t)
  \/ \E n \in editable : PutAway(n)
=============================================================================
