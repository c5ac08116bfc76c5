------------------------------- MODULE Settings -------------------------------
(* The commands on factory.yaml: "config set" (config.Set), "migrate-config",  *)
(* and "review-lane enable" and "disable", which install and remove the        *)
(* workflow of the review lane beside the setting that turns the lane on.      *)
EXTENDS Checkout

SettingNames == {"review_secret", "review_model", "user_key"}

\* Set replaces the line of the key, or appends one.
Rewritten(leaf, edit) ==
  IF edit \in {"on", "off"} THEN [leaf EXCEPT !.mark = edit] ELSE [leaf EXCEPT !.text = @ \cup {edit}]

\* Rows are added for the keys the YAML does not have; a key it has keeps its row.
Edited(yaml, keys) == [yaml EXCEPT !.text = @ \cup keys]

\* Every legacy setting the YAML does not have is added to it, and the marker.
Merged(yaml, legacy) == Edited(yaml, legacy.text \cup {"config_migrated"})

Replacement(m) == IF m.cmd = "migrate" THEN Merged(m.seen["yaml"], m.seen["config"])
                                       ELSE Rewritten(m.seen["yaml"], Head(m.edits))

\* Mutant: the input is not looked at again.
Mutant_InputUnchanged(p) == TRUE
\* Identity, metadata and bytes of the input are looked at again before the rename.
InputUnchanged(p) == Unchanged(p, "yaml")

-----------------------------------------------------------------------------
(* config.Transform.                                                         *)

SetStart(p) ==
  /\ proc[p].pc = "start" /\ proc[p].cmd = "set"
  /\ Become(p, Setting(proc[p], <<"user_key">>, "leave", {}))
  /\ UNCHANGED <<files, lease, people, faults>>

SetRead(p) ==
  /\ proc[p].pc = "set-read"
  /\ Decide(p, Here("yaml"),
       /\ Become(p, [proc[p] EXCEPT !.pc = "set-check", !.seen["yaml"] = tree["yaml"]])
       /\ UNCHANGED <<files, lease, authored>>)
  /\ UNCHANGED <<toWrite, editable, faults>>

SetCheck(p) ==
  /\ proc[p].pc = "set-check"
  /\ Decide(p, InputUnchanged(p),
       /\ Become(p, [proc[p] EXCEPT !.pc = IF proc[p].cmd = "migrate" THEN "set-guard" ELSE "set-rename",
                                    !.aim = "yaml"])
       /\ UNCHANGED <<files, lease, authored>>)
  /\ UNCHANGED <<toWrite, editable, faults>>

\* The rename replaces whatever is there by then.
SetRename(p) ==
  LET m == proc[p]
      next == IF m.cmd = "migrate" THEN [m EXCEPT !.aim = "", !.pc = "mig-check"]
              ELSE IF Len(m.edits) > 1 THEN [m EXCEPT !.aim = "", !.pc = "set-read", !.edits = Tail(m.edits)]
              ELSE [m EXCEPT !.aim = "", !.pc = m.back, !.edits = <<>>]
  IN /\ m.pc = "set-rename"
     /\ Put(p, "yaml", Replacement(m))
     /\ authored' = authored \cup
          (IF m.cmd # "migrate" /\ Head(m.edits) \in SettingNames THEN {<<"settings", Head(m.edits)>>} ELSE {})
     /\ IF next.pc = "leave"
        THEN Leave(p, next, IF m.cmd = "set" \/ (m.cmd = "disable" /\ m.fall = {"half"}) THEN "done" ELSE "refused")
        ELSE Become(p, next) /\ UNCHANGED lease
     /\ UNCHANGED <<toWrite, editable, faults>>

-----------------------------------------------------------------------------
(* migrate-config.                                                           *)

LegacyUnmoved(p) == Unchanged(p, "config") /\ Free("migrated")

MigrateRead(p) ==
  /\ proc[p].pc = "start" /\ proc[p].cmd = "migrate"
  /\ Decide(p, Here("yaml"),
       /\ Become(p, [proc[p] EXCEPT !.pc = "mig-legacy", !.seen["yaml"] = tree["yaml"]])
       /\ UNCHANGED <<files, lease, authored>>)
  /\ UNCHANGED <<toWrite, editable, faults>>

MigrateLegacy(p) ==
  /\ proc[p].pc = "mig-legacy"
  /\ IF ~Here("config") THEN Leave(p, proc[p], "done") /\ UNCHANGED <<files, authored>>
     ELSE Decide(p, Free("migrated"),
            /\ Become(p, [proc[p] EXCEPT !.pc = "mig-begin", !.seen["config"] = tree["config"]])
            /\ UNCHANGED <<files, lease, authored>>)
  /\ UNCHANGED <<toWrite, editable, faults>>

\* The guard, and Transform's own read, which must be what the plan was made from.
MigrateBegin(p) ==
  /\ proc[p].pc = "mig-begin"
  /\ Decide(p, LegacyUnmoved(p) /\ Unchanged(p, "yaml"),
       Goto(p, "set-check") /\ UNCHANGED <<files, lease, authored>>)
  /\ UNCHANGED <<toWrite, editable, faults>>

\* The guard once more, after the YAML was looked at and before it is renamed.
MigrateGuard(p) ==
  /\ proc[p].pc = "set-guard"
  /\ Decide(p, LegacyUnmoved(p), Goto(p, "set-rename") /\ UNCHANGED <<files, lease, authored>>)
  /\ UNCHANGED <<toWrite, editable, faults>>

MigrateCheck(p) ==
  /\ proc[p].pc = "mig-check"
  /\ Decide(p, LegacyUnmoved(p),
       /\ Become(p, [proc[p] EXCEPT !.pc = "mig-rename", !.aim = "config"])
       /\ UNCHANGED <<files, lease, authored>>)
  /\ UNCHANGED <<toWrite, editable, faults>>

\* The legacy file takes the backup's name, unless there is one.
MigrateRename(p) ==
  /\ proc[p].pc = "mig-rename"
  /\ Decide(p, Here("config") /\ Free("migrated"),
       /\ tree' = [tree EXCEPT !["migrated"] = [tree["config"] EXCEPT !.id = tree["migrated"].id + 1],
                               !["config"] = Gone(@)]
       /\ gap' = gap \cup Exposed(p, "config", {})
       /\ UNCHANGED <<backups, authored>>
       /\ Leave(p, proc[p], "done"))
  /\ UNCHANGED <<toWrite, editable, faults>>

-----------------------------------------------------------------------------
(* review-lane enable and disable.                                           *)

Managed(leaf) == leaf.mark = "managed"
WorkflowUnchanged(p) == Unchanged(p, "workflow") /\ (Here("workflow") => Managed(tree["workflow"]))

\* The workflow is staged before the settings and published after them.
EnableLook(p) ==
  /\ proc[p].pc = "en-look" \/ (proc[p].pc = "start" /\ proc[p].cmd = "enable")
  /\ Decide(p, Here("yaml") /\ (Here("workflow") => Managed(tree["workflow"])),
       /\ Become(p, Setting([proc[p] EXCEPT !.seen["workflow"] = tree["workflow"]],
                            <<"review_secret", "review_model", "on">>, "en-check", {}))
       /\ UNCHANGED <<files, lease, authored>>)
  /\ UNCHANGED <<toWrite, editable, faults>>

EnableCheck(p) ==
  /\ proc[p].pc = "en-check"
  /\ Decide(p, WorkflowUnchanged(p),
       /\ Become(p, [proc[p] EXCEPT !.pc = "en-publish", !.aim = "workflow"])
       /\ UNCHANGED <<files, lease, authored>>)
  /\ UNCHANGED <<toWrite, editable, faults>>

EnablePublish(p) ==
  /\ proc[p].pc = "en-publish"
  /\ Put(p, "workflow", Leaf("file", {}, "managed"))
  /\ Leave(p, proc[p], "done")
  /\ UNCHANGED <<people, faults>>

\* A workflow the factory did not generate stays; the lane is marked off.
DisableLook(p) ==
  /\ proc[p].pc = "start" /\ proc[p].cmd = "disable"
  /\ Decide(p, Here("yaml"),
       /\ Become(p, IF Here("workflow") /\ ~Managed(tree["workflow"])
                    THEN Setting(proc[p], <<"off">>, "leave", {})
                    ELSE [proc[p] EXCEPT !.pc = "dis-check", !.seen["workflow"] = tree["workflow"]])
       /\ UNCHANGED <<files, lease, authored>>)
  /\ UNCHANGED <<toWrite, editable, faults>>

LaneOff(m) == Setting(m, <<"off">>, "leave", {"half"})

DisableCheck(p) ==
  /\ proc[p].pc = "dis-check"
  /\ Decide(p, WorkflowUnchanged(p),
       /\ Become(p, IF Here("workflow") THEN [proc[p] EXCEPT !.pc = "dis-remove", !.aim = "workflow"]
                                        ELSE LaneOff(proc[p]))
       /\ UNCHANGED <<files, lease, authored>>)
  /\ UNCHANGED <<toWrite, editable, faults>>

DisableRemove(p) ==
  /\ proc[p].pc = "dis-remove"
  /\ Decide(p, Here("workflow"),
       /\ Remove(p, "workflow")
       /\ Become(p, LaneOff(proc[p]))
       /\ UNCHANGED <<lease, authored>>)
  /\ UNCHANGED <<toWrite, editable, faults>>

SettingsStep(p) ==
  \/ SetStart(p) \/ SetRead(p) \/ SetCheck(p) \/ SetRename(p)
  \/ MigrateRead(p) \/ MigrateLegacy(p) \/ MigrateBegin(p) \/ MigrateGuard(p)
  \/ MigrateCheck(p) \/ MigrateRename(p)
  \/ EnableLook(p) \/ EnableCheck(p) \/ EnablePublish(p)
  \/ DisableLook(p) \/ DisableCheck(p) \/ DisableRemove(p)
=============================================================================
