---------------------------- MODULE RecoverySet ----------------------------
(***************************************************************************)
(* internal/assessment, recovery*.go and adoption.go: before an installed  *)
(* file is replaced, its original is saved in a recovery set under         *)
(* .factory/backups, which a line of .git/info/exclude keeps out of Git.   *)
(* A publication (module Assessment) begins over a checked set.            *)
(*                                                                         *)
(* The module tells what the file system shows (now) from what a power     *)
(* failure may leave (disk, a set of values per name).  Each process runs  *)
(* one call, the list of its remaining steps; every step first checks what *)
(* the call has pinned and refuses when another has changed it.            *)
(***************************************************************************)
EXTENDS Naturals, Sequences, FiniteSets, SequencesExt

CONSTANTS
  Catalog,   \* the catalog's paths, in order
  Procs,     \* processes that create recovery sets or publish over them
  MaxEdits,  \* bound on changes by the user
  MaxFaults, \* bound on failed calls, deaths and power failures
  None

Assets == ToSet(Catalog)
ASSUME CatalogAssumption == Catalog \in Seq(Assets) /\ IsInjective(Catalog)

VARIABLES
  now, disk,  \* each name's value, and the values a power failure may leave
  listed,     \* the assets the manifest lists
  w,          \* the call of each process
  todo,       \* its remaining steps
  holder,     \* the process with the creation lock
  custom,     \* originals the user has customised
  exposed,    \* the user tracks or un-ignores the recovery paths
  held,       \* the user holds the set
  tampered,   \* the user has removed the rule (history)
  imported,   \* the set was copied here by the user (history)
  reported, published, \* the assets a call has promised to be saved (history)
  edits, faults

vars == <<now, disk, listed, w, todo, holder, custom, exposed, held, tampered,
          imported, reported, published, edits, faults>>

\* The directory, or file, that holds a name; "rule" is the content of "exclude".
Parent(n) ==
  CASE n \in {"lock", "exclude"} -> "info"
    [] n = "rule" -> "exclude"
    [] n = "backups" -> "factory"
    [] n = "set" -> "backups"
    [] n \in {"files", "manifest"} -> "set"
    [] OTHER -> "files"
Names == Assets \cup {"lock", "exclude", "rule", "backups", "set", "files", "manifest"}
SetNames == Assets \cup {"files", "manifest"}
Roots == {"info", "factory"}

\* The line: a comment until its first character is activated; "length" of it
\* was written (0, a part, or all of it).
NoRule == [lead |-> "#", length |-> 0]
Narrow(rule) == rule.lead = "/" /\ rule.length = 2
Gone(n) == IF n = "rule" THEN NoRule ELSE "absent"

Exists(n) == n \in Roots \cup {m \in Names \ {"rule"} : now[m] # "absent"}

TypeOK ==
  /\ DOMAIN now = Names /\ \A n \in Names : now[n] \in disk[n]
  /\ listed \subseteq Assets /\ custom \subseteq Assets
  /\ \A p \in Procs : w[p] = None <=> todo[p] = <<>>
  /\ holder \in Procs \cup {None} /\ (holder # None => w[holder] # None)

\* A set the user has copied here (docs/adr/0091:188-190): neither its originals
\* nor its name are synced.
Imported(want) ==
  LET copied == want \cup {"backups", "set", "files", "manifest"} IN
  /\ now = [n \in Names |-> IF n \in copied \cup {"exclude"} THEN "whole" ELSE Gone(n)]
  /\ disk = [n \in Names |-> IF n \in want THEN {"part", "whole"}
                             ELSE IF n = "set" THEN {"absent", "whole"} ELSE {now[n]}]

Init ==
  /\ \/ /\ \E file \in {"absent", "whole"} :
             now = [n \in Names |-> IF n = "exclude" THEN file ELSE Gone(n)]
        /\ disk = [n \in Names |-> {now[n]}] /\ listed = {}
     \/ listed = {Head(Catalog)} /\ Imported(listed)
  /\ imported = (listed # {})
  /\ w = [p \in Procs |-> None] /\ todo = [p \in Procs |-> <<>>] /\ holder = None
  /\ custom = {} /\ exposed = FALSE /\ held = FALSE /\ tampered = FALSE
  /\ reported = {} /\ published = {} /\ edits = 0 /\ faults = 0

-----------------------------------------------------------------------------
(* The file system.                                                         *)

\* The names a step of p changed: other calls that pinned them, or their
\* directory, will notice.
Touched(p, names) ==
  [q \in Procs |-> IF q = p \/ w[q] = None THEN w[q]
                   ELSE [w[q] EXCEPT !.stale = @ \/ (names \cup {Parent(n) : n \in names}) \cap w[q].pins # {}]]

Write(n, value, torn) ==
  /\ now' = [now EXCEPT ![n] = value]
  /\ disk' = [disk EXCEPT ![n] = @ \cup torn \cup {value}]

\* A file's content, or the names in a directory, reach the disk.
Synced(n) ==
  [m \in Names |->
     IF m = n /\ n \in Assets \cup {"manifest"} THEN {now[n]} \cup (disk[n] \cap {"absent"})
     ELSE IF n = "exclude" /\ m = "rule" THEN {now.rule}
     ELSE IF Parent(m) = n /\ m # "rule" THEN disk[m] \ (IF now[m] = "absent" THEN {} ELSE {"absent"})
     ELSE disk[m]]

\* What a power failure may leave of the names, and what is reachable of it.
RECURSIVE Outcomes(_)
Outcomes(names) ==
  IF names = {} THEN {<<>>}
  ELSE LET n == CHOOSE n \in names : TRUE IN
       {(n :> value) @@ left : value \in disk[n], left \in Outcomes(names \ {n})}
RECURSIVE Reached(_, _)
Reached(n, left) == n \in Roots \/ (left[n] # "absent" /\ Reached(Parent(n), left))
Survivor(left) == [n \in Names |-> IF Reached(Parent(n), left) THEN left[n] ELSE Gone(n)]

\* parseRecoveryManifest, and readRecoveryFile: the bytes a manifest row states.
Manifested == now.manifest = "whole"
Saved(a) == now[a] = "whole"

\* walkRecovery: what the manifest lists, and nothing else.
Walked == \A a \in Assets : Exists(a) <=> a \in listed

\* inspectRecoverySet.
Checked == Manifested /\ Walked /\ \A a \in listed : Saved(a)

-----------------------------------------------------------------------------
(* Calls.                                                                   *)

\* recoveryWriter.syncDirectories, from the leaves to the root.
Directories == << <<"sync", "files">>, <<"sync", "set">>, <<"sync", "backups">>, <<"sync", "factory">> >>
Selected(want) == SelectSeq(Catalog, LAMBDA a : a \in want)
Each(want, calls) ==
  FlattenSeq([i \in 1..Cardinality(want) |-> [k \in DOMAIN calls |-> <<calls[k], Selected(want)[i]>>]])

\* Mutant: the payload is not synced before the manifest is written.
Mutant_Saving(want) ==
  << <<"create", "files">> >>
  \o Each(want, <<"save">>)
  \o << <<"sync", "files">>, <<"sync", "set">>, <<"checks", "set">>,
        <<"save", "manifest">>, <<"sync", "manifest">> >>
  \o Directories \o << <<"complete", "set">>, <<"report", "set">> >>

\* createRecovery over a fresh reservation: originals, directories, manifest.
Saving(want) ==
  << <<"create", "files">> >>
  \o Each(want, <<"save", "sync">>)
  \o Directories \o << <<"checks", "set">> >>
  \o << <<"save", "manifest">>, <<"sync", "manifest">> >>
  \o Directories \o << <<"complete", "set">>, <<"report", "set">> >>

\* Mutant: an intact set is reported as it is.
Mutant_Reusing(want) == << <<"complete", "set">>, <<"report", "set">> >>

\* recoveryWriter.reuse: an intact set is synced again.
Reusing(want) ==
  Each(want, <<"sync">>) \o << <<"sync", "manifest">> >>
  \o Directories \o << <<"complete", "set">>, <<"report", "set">> >>

\* Mutant: the line is activated in the page cache only.
Mutant_Staging == << <<"append", "rule">>, <<"activate", "rule">>, <<"sync", "exclude">> >>

\* recoveryGit.ensureIgnored: an inert comment first.
Staging == << <<"append", "rule">>, <<"sync", "exclude">>, <<"activate", "rule">> >>

\* Mutant: a rule that is visible is taken for durable.
Mutant_Ignoring == << <<"ignored", "rule">> >>

\* The rest of ensureIgnored, and of requireIgnored: the rule is synced in any case.
Ignoring == << <<"sync", "exclude">>, <<"sync", "info">>, <<"ignored", "rule">> >>

\* proposalFromAssets: every selected file is observed as its reference.
Unmodified(want) == want # {} /\ want \cap custom = {}

\* requireIgnored's exact line; untracked, and ignored.
Ruled == Narrow(now.rule)
Hidden == ~exposed

\* A call holds what it has pinned; "stale" says another has changed it.
Call(p, want, steps) ==
  /\ w[p] = None /\ Unmodified(want)
  /\ w' = [w EXCEPT ![p] = [want |-> want, pins |-> {}, stale |-> FALSE]]
  /\ todo' = [todo EXCEPT ![p] = steps]
  /\ UNCHANGED <<now, disk, listed, holder, custom, exposed, held, tampered, imported, reported, published, edits, faults>>

\* CreateRecovery with the digest of an unchanged selection.
CreateRecovery(p, want) ==
  Call(p, want, << <<"preflight", "set">>, <<"qualify", "info">>, <<"create", "lock">>,
                   <<"flock", "lock">>, <<"look", "rule">> >>)

\* recoveryWriter.syncDirectories over what checkedBackup retains.
Backing(a) == << <<"inspect", a>>, <<"sync", a>> >> \o Directories

\* Mutant: the saved original is read and not synced.
Mutant_Publish(p, a) ==
  Call(p, {a}, << <<"inspect", a>>, <<"require", "rule">> >> \o Ignoring \o << <<"publish", a>> >>)

\* constructPublication, one at a time under the transition guard: the checked
\* backup, then the exact rule.
Publish(p, a) ==
  /\ ~\E q \in Procs : todo[q] # <<>> /\ Last(todo[q])[1] = "publish"
  /\ Call(p, {a}, Backing(a) \o << <<"require", "rule">> >> \o Ignoring \o << <<"publish", a>> >>)

\* The end of a call: its descriptors and its lock are closed.
Leave(p) ==
  /\ w' = [w EXCEPT ![p] = None] /\ todo' = [todo EXCEPT ![p] = <<>>]
  /\ holder' = IF holder = p THEN None ELSE holder
  /\ UNCHANGED <<listed, custom, exposed, held, tampered, imported, reported, published, edits>>

At(p, op) == todo[p] # <<>> /\ Head(todo[p])[1] = op
On(p) == Head(todo[p])[2]

\* What a step requires, else the call refuses.
Ready(p) ==
  /\ ~w[p].stale
  /\ At(p, "preflight") => (Exists("set") => Checked /\ ~held)
  /\ At(p, "flock") => holder = None
  /\ At(p, "create") => On(p) \in {"lock", "backups"} \/ ~Exists(On(p))
  /\ At(p, "inventory") => (Exists("set") => Checked /\ ~held /\ listed = w[p].want)
  /\ At(p, "inspect") => Checked /\ On(p) \in listed
  /\ At(p, "complete") => Checked /\ ~held
  /\ At(p, "look") \/ At(p, "ignored") => Hidden
  /\ At(p, "require") \/ At(p, "ignored") => Ruled
  /\ At(p, "checks") \/ At(p, "complete") =>
       Unmodified(w[p].want) /\ Hidden /\ Ruled
Doing(p, op) == At(p, op) /\ Ready(p)
Then(p, steps) == todo' = [todo EXCEPT ![p] = steps \o Tail(@)]
Pin(p, names) == w' = [w EXCEPT ![p].pins = @ \cup names]
Aside == UNCHANGED <<custom, exposed, held, tampered, imported, edits, faults>>

-----------------------------------------------------------------------------
(* Steps.                                                                   *)

\* preflightStorage: an occupied reservation is intact and not held.
Preflight(p) ==
  /\ Doing(p, "preflight")
  /\ Pin(p, {"factory"} \cup {n \in {"backups"} : Exists(n)}) /\ Then(p, <<>>)
  /\ Aside /\ UNCHANGED <<now, disk, listed, holder, reported, published>>

\* localGit, and existingFile for the lock.
Qualify(p) ==
  /\ Doing(p, "qualify") /\ Pin(p, {"info"}) /\ Then(p, <<>>)
  /\ Aside /\ UNCHANGED <<now, disk, listed, holder, reported, published>>

\* recoveryGit.acquire: one attempt, without waiting.
Flock(p) ==
  /\ Doing(p, "flock") /\ holder' = p
  /\ Pin(p, {"lock"}) /\ Then(p, <<>>)
  /\ Aside /\ UNCHANGED <<now, disk, listed, reported, published>>

\* excludeFile, and the search for the exact rule.
Look(p) ==
  /\ Doing(p, "look")
  /\ Pin(p, {"exclude"})
  /\ Then(p, (IF Ruled THEN <<>>
              ELSE (IF Exists("exclude") THEN <<>> ELSE << <<"create", "exclude">> >>) \o Staging)
             \o Ignoring \o << <<"create", "backups">>, <<"inventory", "set">> >>)
  /\ Aside /\ UNCHANGED <<now, disk, listed, holder, reported, published>>

\* directory, and createFile with O_EXCL; backups and the lock may be there already.
Create(p) ==
  /\ Doing(p, "create")
  /\ LET n == On(p) IN
     /\ IF Exists(n) THEN Pin(p, {n}) /\ UNCHANGED <<now, disk>>
        ELSE /\ Write(n, "whole", {})
             /\ w' = [Touched(p, {n}) EXCEPT ![p].pins = @ \cup {n}]
  /\ Then(p, <<>>)
  /\ Aside /\ UNCHANGED <<listed, holder, reported, published>>

\* recoveryWriter.write of the staged line, and writeAt of its first character.
Stage(p) ==
  /\ Doing(p, "append")
  /\ Write("rule", [lead |-> "#", length |-> 2], {[lead |-> "#", length |-> 1]})
  /\ w' = Touched(p, {"rule"}) /\ Then(p, <<>>)
  /\ Aside /\ UNCHANGED <<listed, holder, reported, published>>

Activate(p) ==
  /\ Doing(p, "activate")
  /\ Write("rule", [now.rule EXCEPT !.lead = "/"], {[r EXCEPT !.lead = "/"] : r \in disk.rule})
  /\ w' = Touched(p, {"rule"}) /\ Then(p, <<>>)
  /\ Aside /\ UNCHANGED <<listed, holder, reported, published>>

\* recoveryGit.ignored and untracked.
Ignored(p) ==
  /\ Doing(p, "ignored")
  /\ Then(p, <<>>)
  /\ Aside /\ UNCHANGED <<now, disk, listed, w, holder, reported, published>>

\* createRecovery: the reservation is made, or an intact set is used again.
Inventory(p) ==
  /\ Doing(p, "inventory")
  /\ \/ /\ Exists("set")
        /\ Pin(p, SetNames \cup {"set"}) /\ Then(p, Reusing(w[p].want)) /\ UNCHANGED <<now, disk>>
     \/ /\ ~Exists("set") /\ Write("set", "whole", {})
        /\ w' = [Touched(p, {"set"}) EXCEPT ![p].pins = @ \cup {"set"}]
        /\ Then(p, Saving(w[p].want))
  /\ Aside /\ UNCHANGED <<listed, holder, reported, published>>

\* saveOriginals and the manifest: a new file, which a power failure may tear.
Save(p) ==
  /\ Doing(p, "save") /\ Write(On(p), "whole", {"part"})
  /\ w' = [Touched(p, {On(p)}) EXCEPT ![p].pins = @ \cup {On(p)}] /\ Then(p, <<>>)
  /\ listed' = IF On(p) = "manifest" THEN w[p].want ELSE listed
  /\ Aside /\ UNCHANGED <<holder, reported, published>>

\* recoveryWriter.sync, with the readback that follows it.
Sync(p) ==
  /\ Doing(p, "sync")
  /\ disk' = Synced(On(p)) /\ Then(p, <<>>)
  /\ Aside /\ UNCHANGED <<now, listed, w, holder, reported, published>>

\* completionChecks, and checkComplete before the last of them.
Check(p) ==
  /\ Doing(p, "checks") \/ Doing(p, "complete")
  /\ Then(p, <<>>)
  /\ Aside /\ UNCHANGED <<now, disk, listed, w, holder, reported, published>>

\* checkedBackup: the set is intact and holds the original.
Inspect(p) ==
  /\ Doing(p, "inspect")
  /\ Pin(p, SetNames \cup {"set", "backups", "factory"}) /\ Then(p, <<>>)
  /\ Aside /\ UNCHANGED <<now, disk, listed, holder, reported, published>>

\* requireIgnored: the rule is there already.
Require(p) ==
  /\ Doing(p, "require")
  /\ Pin(p, {"info", "exclude"}) /\ Then(p, <<>>)
  /\ Aside /\ UNCHANGED <<now, disk, listed, holder, reported, published>>

\* The call's last step: what it answers.
Answer(p) ==
  /\ \/ At(p, "report") /\ reported' = w[p].want /\ UNCHANGED published
     \/ At(p, "publish") /\ published' = published \cup w[p].want /\ UNCHANGED reported
  /\ w' = [w EXCEPT ![p] = None] /\ todo' = [todo EXCEPT ![p] = <<>>]
  /\ holder' = IF holder = p THEN None ELSE holder
  /\ Aside /\ UNCHANGED <<now, disk, listed>>

\* recoveryWriter.check and the other refusals: what was written stays.
Refuse(p) == w[p] # None /\ ~Ready(p) /\ ~At(p, "report") /\ ~At(p, "publish") /\ Leave(p) /\ UNCHANGED <<now, disk, faults>>

\* A failed write leaves a part of its content; the process dies, or reports it.
Fault(p) ==
  /\ w[p] # None /\ faults < MaxFaults /\ faults' = faults + 1 /\ Leave(p)
  /\ \/ Doing(p, "save") /\ Write(On(p), "part", {})
     \/ Doing(p, "append") /\ Write("rule", [lead |-> "#", length |-> 1], {})
     \/ UNCHANGED <<now, disk>>

-----------------------------------------------------------------------------
(* Around the calls.                                                        *)

PowerLoss ==
  /\ faults < MaxFaults /\ faults' = faults + 1
  /\ \E left \in Outcomes(Names) : now' = Survivor(left)
  /\ disk' = [n \in Names |-> {now'[n]}]
  /\ w' = [p \in Procs |-> None] /\ todo' = [p \in Procs |-> <<>>] /\ holder' = None
  /\ UNCHANGED <<listed, custom, exposed, held, tampered, imported, reported, published, edits>>

\* The user customises an original, tracks the paths, holds the set, or removes
\* the rule.
Edit ==
  /\ edits < MaxEdits /\ edits' = edits + 1
  /\ \/ (\E a \in Assets : custom' = custom \cup {a}) /\ UNCHANGED <<now, disk, exposed, held, tampered, w>>
     \/ exposed' = TRUE /\ UNCHANGED <<now, disk, custom, held, tampered, w>>
     \/ /\ now.manifest = "whole" /\ held' = TRUE
        /\ disk' = [disk EXCEPT !.manifest = {"whole"}] /\ w' = Touched(None, {"manifest"})
        /\ UNCHANGED <<now, custom, exposed, tampered>>
     \/ /\ now.exclude = "whole"
        /\ now' = [now EXCEPT !.rule = NoRule] /\ disk' = [disk EXCEPT !.rule = {NoRule}]
        /\ tampered' = TRUE /\ w' = Touched(None, {"rule"}) /\ UNCHANGED <<custom, exposed, held>>
  /\ UNCHANGED <<listed, todo, holder, imported, reported, published, faults>>

Step(p) ==
  \/ Preflight(p) \/ Qualify(p) \/ Flock(p) \/ Look(p) \/ Create(p) \/ Stage(p) \/ Activate(p)
  \/ Ignored(p) \/ Inventory(p) \/ Save(p) \/ Sync(p) \/ Check(p) \/ Inspect(p) \/ Require(p) \/ Answer(p)
  \/ Refuse(p) \/ Fault(p)

Next ==
  \/ \E p \in Procs : \/ \E want \in SUBSET Assets : CreateRecovery(p, want)
                      \/ \E a \in Assets : Publish(p, a)
                      \/ Step(p)
  \/ PowerLoss \/ Edit

Spec == Init /\ [][Next]_vars

-----------------------------------------------------------------------------
(* Properties.                                                              *)

Durable(names) == \A n \in names : disk[n] = {"whole"}
Path == {"backups", "set", "files"}

\* docs/adr/0091:162-188, recovery_create.go:112-115: Git ignores the recovery sets
\* and nothing more.  Whatever a failed append or a power failure leaves of the new
\* line is never a wider rule, and no saved original is on a disk without the rule.
IgnoresTheSetsAlone ==
  \A rule \in disk.rule :
    /\ rule.lead = "/" => rule.length = 2
    /\ ~tampered /\ ~imported /\ "whole" \in disk.set => Narrow(rule) /\ Durable({"exclude"})

\* recovery_create.go:150-197, 428-488: what is said of a set is true of the disk.  A
\* manifest that a power failure leaves is a manifest of files that it leaves too, and
\* a set that was reported is there with everything that leads to it.
ClaimsAreDurable ==
  ~tampered =>
    /\ ~imported /\ "whole" \in disk.manifest => \A a \in listed : Durable({a, "files"})
    /\ reported # {} => Durable(reported \cup Path \cup {"manifest", "exclude"})

\* publication_storage.go:122-187: before a file is replaced its saved original
\* is on disk, whoever wrote the set and whatever became of its writer.
BackupBeforePublication == ~tampered => \A a \in published : Durable({a, "exclude"} \cup Path)
=============================================================================
