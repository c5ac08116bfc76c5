--------------------------------- MODULE Setup ---------------------------------
(* The commands that fill a checkout: "sync", which generates the adapters of   *)
(* the other harnesses from opencode.json and its roles, and "init", which      *)
(* installs the framework and then runs sync and the review lane.  "init" is    *)
(* the initialization by a qualified Go runtime: it holds the exclusive lease   *)
(* and a pending marker while the installation is incomplete.  "reinit" is the  *)
(* unqualified one, which runs over existing checkouts and keeps a backup of    *)
(* whatever it replaces.                                                        *)
EXTENDS Settings

-----------------------------------------------------------------------------
(* Synchronization.                                                          *)

Active == Here("config") \/ "profile" \in tree["yaml"].text
Targets(active) == (IF active THEN <<"source">> ELSE <<>>) \o <<"adapter", "claude", "codex">>

\* Model pins are all that changes in the source; its text is the one that was read.
RenderOpenCode(m) == m.seen["source"]

\* Settings, servers and agents of the other harnesses come from the source that was
\* read, whatever was under their names.
RenderClaude(m) == [Leaf("file", {}, "generated") EXCEPT !.from = m.seen["source"].id]
RenderCodex(m)  == [Leaf("file", {}, "generated") EXCEPT !.from = m.seen["source"].id]

Rendered(m, n) ==
  CASE n = "source" -> RenderOpenCode(m)
    [] n = "adapter" -> RenderClaude(m)
    [] n = "codex" -> RenderCodex(m)
    [] n = "kept" -> Leaf("file", m.prev["claude"].text, "")
    [] n = "claude" -> Leaf("link", {}, "")

\* Mutant: the source is not looked at again before anything is published.
Mutant_SourceUnchanged(p) == TRUE
SourceUnchanged(p) == Unchanged(p, "source")
TargetUnchanged(p, n) == Same(proc[p].prev[n], tree[n])

SyncStart(p) ==
  /\ proc[p].pc = "start" /\ proc[p].cmd = "sync"
  /\ Become(p, [proc[p] EXCEPT !.pc = "sy-source", !.left = Targets(Active)])
  /\ UNCHANGED <<files, lease, people, faults>>

SyncSource(p) ==
  /\ proc[p].pc = "sy-source" /\ Here("source")
  /\ Become(p, [proc[p] EXCEPT !.pc = "sy-inspect", !.seen["source"] = tree["source"]])
  /\ UNCHANGED <<files, lease, people, faults>>

\* A source that is missing, or is not one sync understands, ends it before anything
\* is inspected, and is no more than a warning to an initialization.
SyncUnusable(p) ==
  /\ proc[p].pc = "sy-source"
  /\ Leave(p, proc[p], "refused")
  /\ UNCHANGED <<files, people, faults>>

\* What inspecting a target adds to the publication.  A CLAUDE.md that is a file is
\* kept under a name of its own, published before the link replaces it; one that is
\* the link already stays.
Inspected(m, n) ==
  LET seen == [m EXCEPT !.prev[n] = tree[n], !.left = Tail(@)] IN
    CASE n = "claude" /\ tree[n].kind = "link" -> seen
      [] n = "claude" /\ tree[n].kind = "file" ->
           [seen EXCEPT !.back = IF Free("kept") THEN "kept" ELSE "random", !.edits = @ \o <<"kept", "claude">>]
      [] OTHER -> [seen EXCEPT !.edits = Append(@, n)]

\* All targets are inspected before anything is prepared.
SyncInspect(p) ==
  /\ proc[p].pc = "sy-inspect"
  /\ LET m == Inspected(proc[p], Head(proc[p].left)) IN
       Become(p, IF m.left = <<>> THEN [m EXCEPT !.pc = "sy-check", !.left = m.edits] ELSE m)
  /\ UNCHANGED <<files, lease, people, faults>>

\* A backup name is the fixed one, or a random one if that was occupied.
AtRandom(m, n) == n = "kept" /\ m.back = "random"

\* The source is looked at before and after the siblings are prepared, and each
\* target in between.
SyncCheck(p) ==
  /\ proc[p].pc = "sy-check"
  /\ Decide(p, SourceUnchanged(p), Goto(p, "sy-prepare") /\ UNCHANGED <<files, lease, authored>>)
  /\ UNCHANGED <<toWrite, editable, faults>>

SyncPrepare(p) ==
  LET m == proc[p] IN
    /\ m.pc = "sy-prepare"
    /\ IF m.edits = <<>>
       THEN Decide(p, SourceUnchanged(p), Goto(p, "sy-aim") /\ UNCHANGED <<files, lease, authored>>)
       ELSE Decide(p, AtRandom(m, m.edits[1]) \/ TargetUnchanged(p, m.edits[1]),
              /\ Become(p, [m EXCEPT !.edits = Tail(@)])
              /\ UNCHANGED <<files, lease, authored>>)
    /\ UNCHANGED <<toWrite, editable, faults>>

\* Each target is looked at once more, then replaced; one that was absent is created
\* exclusively.
SyncAim(p) ==
  LET m == proc[p] IN
    /\ m.pc = "sy-aim"
    /\ IF m.left = <<>> THEN Leave(p, m, "done") /\ UNCHANGED <<files, authored>>
       ELSE Decide(p, AtRandom(m, m.left[1]) \/ TargetUnchanged(p, m.left[1]),
              /\ Become(p, [m EXCEPT !.pc = "sy-publish", !.aim = m.left[1]])
              /\ UNCHANGED <<files, lease, authored>>)
    /\ UNCHANGED <<toWrite, editable, faults>>

SyncPublish(p) ==
  LET m == proc[p]
      n == m.left[1]
  IN /\ m.pc = "sy-publish"
     /\ Decide(p, m.prev[n].kind # "none" \/ Free(n) \/ AtRandom(m, n),
          /\ IF AtRandom(m, n)
             THEN backups' = backups \cup {Rendered(m, n).text} /\ UNCHANGED <<tree, gap>>
             ELSE Put(p, n, Rendered(m, n))
          /\ Become(p, [m EXCEPT !.pc = "sy-aim", !.aim = "", !.left = Tail(@)])
          /\ UNCHANGED <<lease, authored>>)
     /\ UNCHANGED <<toWrite, editable, faults>>

-----------------------------------------------------------------------------
(* Initialization.                                                           *)

Framework == {"asset", "runtime", "current", "factory"}
Metadata == {"factory", "yaml", "config", "version", "current", "runtime", "pending"}
Fresh == \A n \in Metadata : Free(n)
IgnoresPrivate == "rules" \in tree["ignore"].text

\* The configuration of the answers given, with the lane that was chosen.
Configuration(m) == Leaf("file", {"profile"}, m.lane)

\* The factory's block is added to a .gitignore that is there.
MergedIgnore(m) == Leaf("file", m.prev["ignore"].text \cup {"rules"}, "")

\* What init writes under a name, given what it saw there.
Planned(m, n) ==
  CASE n = "ignore" -> MergedIgnore(m)
    [] n = "yaml" -> Configuration(m)
    [] n = "source" -> Leaf("file", {"src"}, "")
    [] OTHER -> Leaf("file", {}, "framework")

\* What an observation of a file tells apart from what is planned for it.
Bytes(leaf) == [kind |-> leaf.kind, text |-> leaf.text, mark |-> leaf.mark]

Assets(m) == IF m.cmd = "init" THEN <<"runtime", "asset", "yaml", "source", "current", "factory">>
                               ELSE <<"ignore", "asset", "factory", "yaml", "source">>

\* Mutant: the marker goes up when the files are in place.
Mutant_Barred(targets) == <<"ignore">> \o targets \o <<"pending">>
\* .gitignore and the marker come before anything else.
Barred(targets) == <<"ignore", "pending">> \o targets

\* Freshness, and the plan with an observation of every file it is about.  The
\* qualified initialization refuses a framework file that is there.
InitPlan(p) ==
  LET m == proc[p]
      planned == [m EXCEPT !.prev = tree]
  IN /\ m.pc = "start" /\ Initializing(m)
     /\ Decide(p, m.cmd = "init" => Fresh /\ \A n \in Framework : Free(n),
          /\ Become(p, IF m.cmd = "init" THEN [planned EXCEPT !.pc = "in-lease"]
                       ELSE [planned EXCEPT !.pc = "in-observe", !.left = Assets(m)])
          /\ UNCHANGED <<files, lease, authored>>)
     /\ UNCHANGED <<toWrite, editable, faults>>

\* Exclusion, and freshness again under it.
InitLease(p) ==
  /\ proc[p].pc = "in-lease"
  /\ Decide(p, lease = Nobody /\ Fresh,
       /\ lease' = p
       /\ Become(p, [proc[p] EXCEPT !.pc = "in-observe", !.left = Barred(Assets(proc[p]))])
       /\ UNCHANGED <<files, authored>>)
  /\ UNCHANGED <<toWrite, editable, faults>>

\* The asset is observed again, and must be what the plan saw; a file that already is
\* what the plan wants stays.  The marker waits for git to ignore the private paths.
InitObserve(p) ==
  LET m == proc[p]
      n == m.left[1]
  IN /\ m.pc = "in-observe" /\ m.left # <<>>
     /\ Decide(p, TargetUnchanged(p, n) /\ (n = "pending" => IgnoresPrivate),
          /\ Become(p, CASE Here(n) /\ Bytes(tree[n]) = Bytes(Planned(m, n)) -> [m EXCEPT !.left = Tail(@)]
                         [] Here(n) /\ Bytes(tree[n]) # Bytes(Planned(m, n)) -> [m EXCEPT !.pc = "in-backup"]
                         [] ~Here(n) -> [m EXCEPT !.pc = "in-stage"])
          /\ UNCHANGED <<files, lease, authored>>)
     /\ UNCHANGED <<toWrite, editable, faults>>

InitBackup(p) ==
  /\ proc[p].pc = "in-backup"
  /\ backups' = backups \cup {proc[p].prev[proc[p].left[1]].text}
  /\ Goto(p, "in-stage")
  /\ UNCHANGED <<tree, gap, lease, people, faults>>

\* The staged sibling is complete; the destination is looked at once more.
InitStage(p) ==
  /\ proc[p].pc = "in-stage"
  /\ Decide(p, TargetUnchanged(p, proc[p].left[1]),
       /\ Become(p, [proc[p] EXCEPT !.pc = "in-rename", !.aim = proc[p].left[1]])
       /\ UNCHANGED <<files, lease, authored>>)
  /\ UNCHANGED <<toWrite, editable, faults>>

\* Only the runtime is published without replacing what may have appeared.
InitRename(p) ==
  LET m == proc[p]
      n == m.left[1]
  IN /\ m.pc = "in-rename"
     /\ Decide(p, n = "runtime" => Free(n),
          /\ Put(p, n, Planned(m, n))
          /\ Become(p, [m EXCEPT !.pc = IF n = "version" THEN "in-active" ELSE "in-observe",
                                 !.aim = "", !.left = Tail(@)])
          /\ UNCHANGED <<lease, authored>>)
     /\ UNCHANGED <<toWrite, editable, faults>>

\* With every asset in place, the initialization runs the synchronization.
InitStages(p) ==
  /\ proc[p].pc = "in-observe" /\ proc[p].left = <<>>
  /\ Become(p, [Blank EXCEPT !.cmd = proc[p].cmd, !.lane = proc[p].lane, !.stage = "sync",
                             !.pc = "sy-source", !.left = Targets(Active)])
  /\ UNCHANGED <<files, lease, people, faults>>

\* The gates prove themselves; the unqualified initialization is done then.
InitProve(p) ==
  /\ proc[p].pc = "in-prove"
  /\ IF proc[p].cmd = "init" THEN Goto(p, "in-validate") /\ UNCHANGED lease
                             ELSE Finish(p, proc[p], "done")
  /\ UNCHANGED <<files, people, faults>>

Installed == \A n \in Framework : Bytes(tree[n]) = Bytes(Leaf("file", {}, "framework"))

\* The framework is validated against its descriptor before the version is published,
InitValidate(p) ==
  /\ proc[p].pc = "in-validate"
  /\ Decide(p, Installed /\ IgnoresPrivate,
       /\ Become(p, [proc[p] EXCEPT !.pc = "in-observe", !.left = <<"version">>, !.prev["version"] = Nothing])
       /\ UNCHANGED <<files, lease, authored>>)
  /\ UNCHANGED <<toWrite, editable, faults>>

\* and again, with the version, before the marker goes.
InitActive(p) ==
  /\ proc[p].pc = "in-active"
  /\ Decide(p, Installed /\ Here("version"),
       Goto(p, "in-remove") /\ UNCHANGED <<files, lease, authored>>)
  /\ UNCHANGED <<toWrite, editable, faults>>

InitRemove(p) ==
  /\ proc[p].pc = "in-remove"
  /\ Decide(p, Here("pending"),
       /\ Remove(p, "pending")
       /\ Finish(p, proc[p], "done")
       /\ UNCHANGED authored)
  /\ UNCHANGED <<toWrite, editable, faults>>

SetupStep(p) ==
  \/ SyncStart(p) \/ SyncSource(p) \/ SyncUnusable(p) \/ SyncInspect(p) \/ SyncCheck(p) \/ SyncPrepare(p)
  \/ SyncAim(p) \/ SyncPublish(p)
  \/ InitPlan(p) \/ InitLease(p) \/ InitObserve(p) \/ InitBackup(p) \/ InitStage(p) \/ InitRename(p)
  \/ InitStages(p) \/ InitProve(p) \/ InitValidate(p) \/ InitActive(p) \/ InitRemove(p)

Next == Surroundings \/ \E p \in Procs : SettingsStep(p) \/ SetupStep(p)
Spec == Init /\ [][Next]_vars

-----------------------------------------------------------------------------
(* Properties.                                                               *)

\* Where the content written under a name may be found again: settings in the files
\* they take effect from, everything else under its name or CLAUDE.md's kept name,
\* and what an initialization replaced in the backups.
Held(kind) ==
  UNION backups \cup
    IF kind = "settings" THEN tree["yaml"].text \cup tree["config"].text
    ELSE IF kind = "claude" THEN tree["claude"].text \cup tree["kept"].text
    ELSE tree[kind].text

\* What people wrote, and what a command acknowledged as set, is never lost to a
\* command: settings stay in effect or in a backup, other files under their name or
\* in the copy kept of them.  (Excepted is what was written between another
\* process's last look and its rename, which config/write.go:20 and
\* migrateconfigcmd/files.go:160 say they do not protect.)
AuthoredIsKept == \A a \in authored \ gap : a[2] \in Held(a[1])

\* An adapter is never replaced by one generated from an older source than its own:
\* a synchronization that read the source before it changed fails rather than
\* undoing one that read it after (synccmd/command.go:90, publication.go:184).
AdaptersMoveForward ==
  [][\A n \in {"adapter", "codex"} :
       Here(n) /\ Here(n)' /\ <<n, "">> \notin gap' => tree'[n].from >= tree[n].from]_vars

\* A lane that is on has its workflow, unless a command is at it, died, said that it
\* left the lane so, or aborted an initialization (reviewlanecmd/mutation.go:125).
LaneIsInstalled ==
  tree["yaml"].mark = "on" /\ ~Here("workflow") =>
    \/ {<<"settings", "">>, <<"workflow", "">>} \cap gap # {}
    \/ \E p \in Procs : LET m == proc[p] IN
         \/ m.pc # "end" /\ (Initializing(m) \/ m.cmd \in {"enable", "disable"})
         \/ m.told \cap {"unrolled", "half", "warned", "died"} # {}
         \/ Initializing(m) /\ m.result \in {"refused", "unsafe"}

\* A checkout with a runtime and no pending marker has the whole framework, its
\* version, and git ignoring its private paths: wherever an initialization fails or
\* dies, what it leaves cannot be taken for an installation (initcmd/selection.go:116).
RunnableIsWhole ==
  Here("runtime") /\ ~Here("pending") =>
    IgnoresPrivate /\ \A n \in Framework \cup {"version"} : Here(n)
=============================================================================
