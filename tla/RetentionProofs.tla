-------------------------- MODULE RetentionProofs ---------------------------
(***************************************************************************)
(* Proofs about Retention, for every number of releases and recovery sets  *)
(* and whatever the user touches: the sets agree with what is on record    *)
(* about them, and no removal takes a way back from the current release.   *)
(***************************************************************************)
EXTENDS Retention, WellFoundedInduction, TLAPS

Removing == {"intend", "unlink", "sync", "advance"}
Working  == {"record"} \cup Removing

\* What was selected for removal was whole.
Whole(files) ==
  /\ files["assets"] = 1 /\ files["manifest"] = 1 /\ files["directory"] = 1
  /\ files["journal"] # 0
Whatever(id) == \A part \in Parts \ {"hold"} : File(id, part) # 0

\* The record accounts for what is missing from its set; before the first row is removed
\* a rollback may still have rewritten the journal.
ProgressInv ==
  progress # NoProgress =>
    /\ progress.id \in Known /\ Whole(progress.files)
    /\ progress.id \notin touched => Remaining(progress) \/ (progress.next = 0 /\ Whatever(progress.id))

\* Only the row on record can have been removed and not be synced.
UnsyncedInv ==
  \A e \in unsynced : Pruning /\ progress.intent /\ e = <<progress.id, Row(progress)>>

\* Nothing is missing from a set that is not on record, or everything is.
SetsInv ==
  \A id \in Known \ touched :
    (progress # NoProgress /\ progress.id = id) \/ Whatever(id) \/ sets[id].files = Gone

\* A set held for reference is not one that is removed.
KeptInv ==
  /\ kept \subseteq Known /\ touched \subseteq Known
  /\ \A id \in kept \ touched :
       /\ Complete(id) /\ Held(id)
       /\ progress # NoProgress => progress.id # id
       /\ pc \in Working => mem.work.id # id

\* The set a command relies on while it removes another one.
Relied(q) == q \in Known /\ sets[q].after = current /\ (Complete(q) \/ q \in touched)

\* An upgrade goes on with the sets of its plan, which the new one is not among.
QueueInv ==
  /\ pc # "idle" => \A id \in mem.queue :
       /\ id # mem.new /\ mem.seen[id] \in Sets
       /\ Whole(mem.seen[id].files) /\ mem.seen[id].files["hold"] = 0 /\ ~mem.seen[id].stray
  /\ pc \in {"install", "finish", "choose"} => mem.op = "upgrade"
  /\ pc = "install" => mem.new \notin Known
  /\ pc = "finish" => mem.new \in Known /\ sets[mem.new].after = current
  /\ pc = "choose" => ~Pruning /\ Relied(mem.new)

\* What a removal knows: its record, what is left of the set, and another set to rely on.
WorkInv ==
  pc \in Working =>
    LET w == mem.work IN
    /\ w \in Progress /\ Readable(w) /\ Whole(w.files) /\ w.phase = "pruning" /\ w.id \in Known
    /\ w.protect # w.id /\ Relied(w.protect)
    /\ mem.op = "upgrade" => w.protect = mem.new
    /\ pc \in Removing => progress = w
    /\ pc = "record" /\ Pruning => w = [progress EXCEPT !.protect = w.protect]
    /\ w.id \notin touched => Remaining(w)
    /\ pc \in {"unlink", "sync", "advance"} => w.intent
    /\ pc \in {"sync", "advance"} /\ w.id \notin touched => File(w.id, Row(w)) = 0
    /\ pc = "advance" => unsynced = {}

\* What is removed, now or later, does not lead back from the current release, and the
\* set of the upgrade that removes it does.
AwayInv ==
  /\ pc = "install" => \A id \in mem.queue : mem.seen[id].after # mem.release
  /\ pc \in {"finish", "choose"} \cup Working =>
       /\ \A id \in mem.queue : mem.seen[id].after # current
       /\ mem.op = "upgrade" =>
            mem.new \in Known /\ sets[mem.new].forward /\ sets[mem.new].after = current
  /\ pc \in Working => sets[mem.work.id].after # current

IInv ==
  /\ TypeOK /\ ProgressInv /\ UnsyncedInv /\ SetsInv /\ KeptInv /\ QueueInv /\ WorkInv
-----------------------------------------------------------------------------
(* The rows of a removal.                                                   *)

LEMMA PartsAre ==
  /\ Order[1] = "assets" /\ Order[2] = "hold" /\ Order[3] = "manifest" /\ Order[4] = "directory"
  /\ Order[5] = "journal" /\ Len(Order) = 5
  /\ Parts = {"assets", "hold", "manifest", "directory", "journal"}
<1>1. Len(Order) = 5 /\ DOMAIN Order = 1..5
  BY DEF Order
<1>2. /\ Order[1] = "assets" /\ Order[2] = "hold" /\ Order[3] = "manifest" /\ Order[4] = "directory"
      /\ Order[5] = "journal"
  BY DEF Order
<1>3. 1..5 = {1, 2, 3, 4, 5}
  OBVIOUS
<1> QED  BY <1>1, <1>2, <1>3 DEF Parts

\* A list of different parts, which are those of a set.
Lists(rows, parts) ==
  /\ rows \in Seq(Parts)
  /\ \A i, j \in 1..Len(rows) : rows[i] = rows[j] => i = j
  /\ \A part \in Parts : part \in parts <=> \E i \in 1..Len(rows) : rows[i] = part

LEMMA ListsOne ==
  ASSUME NEW rows, NEW parts \in SUBSET Parts, Lists(rows, parts),
         NEW part \in Parts, part \notin parts, NEW more
  PROVE  /\ Len(rows) \in Nat
         /\ more = <<part>> =>
              Lists(rows \o more, parts \cup {part}) /\ Len(rows \o more) = Len(rows) + 1
         /\ more = <<>> => Lists(rows \o more, parts) /\ Len(rows \o more) = Len(rows)
<1>1. rows \in Seq(Parts) /\ Len(rows) \in Nat
  BY DEF Lists
<1>2. ASSUME more = <<part>>
      PROVE  Lists(rows \o more, parts \cup {part}) /\ Len(rows \o more) = Len(rows) + 1
  <2> DEFINE longer == rows \o more
  <2>1. longer \in Seq(Parts) /\ Len(longer) = Len(rows) + 1
    BY <1>1, <1>2
  <2>2. /\ \A i \in 1..Len(rows) : longer[i] = rows[i]
        /\ longer[Len(rows) + 1] = part
    BY <1>1, <1>2
  <2>3. \A i \in 1..Len(longer) : i \in 1..Len(rows) \/ i = Len(rows) + 1
    BY <2>1, <1>1
  <2>4. \A i \in 1..Len(rows) : rows[i] # part /\ i \in 1..Len(longer)
    BY <1>1, <2>1 DEF Lists
  <2>5. Len(rows) + 1 \in 1..Len(longer)
    BY <1>1, <2>1
  <2> HIDE DEF longer
  <2>6. \A i, j \in 1..Len(longer) : longer[i] = longer[j] => i = j
    BY <2>2, <2>3, <2>4 DEF Lists
  <2>7. \A q \in Parts : q \in parts \cup {part} <=> \E i \in 1..Len(longer) : longer[i] = q
    BY <2>2, <2>3, <2>4, <2>5 DEF Lists
  <2> QED  BY <2>1, <2>6, <2>7 DEF Lists, longer
<1>3. ASSUME more = <<>>
      PROVE  Lists(rows \o more, parts) /\ Len(rows \o more) = Len(rows)
  <2>1. rows \o more = rows
    BY <1>1, <1>3
  <2> QED  BY <2>1
<1> QED  BY <1>1, <1>2, <1>3

Present(p, S) == {part \in S : p.files[part] # 0}

LEMMA ListsNext ==
  ASSUME NEW p, NEW S \in SUBSET Parts, NEW part \in Parts, part \notin S,
         NEW rows, Lists(rows, Present(p, S)),
         NEW n \in Nat, Len(rows) \in 0..n, NEW T, T = S \cup {part}, NEW more,
         more = IF p.files[part] # 0 THEN <<part>> ELSE <<>>
  PROVE  Lists(rows \o more, Present(p, T)) /\ Len(rows \o more) \in 0..n + 1
<1>1. part \notin Present(p, S) /\ Present(p, S) \in SUBSET Parts
  BY DEF Present
<1>2. CASE p.files[part] # 0
  <2>1. Present(p, S \cup {part}) = Present(p, S) \cup {part}
    BY <1>2 DEF Present
  <2>2. Lists(rows \o more, Present(p, T)) /\ Len(rows \o more) = Len(rows) + 1
    <3>1. more = <<part>>
      BY <1>2
    <3>2. Lists(rows \o more, Present(p, S) \cup {part}) /\ Len(rows \o more) = Len(rows) + 1
      BY <1>1, <3>1, ListsOne
    <3> QED  BY <2>1, <3>2
  <2> QED  BY <2>2
<1>3. CASE p.files[part] = 0
  <2>1. Present(p, S \cup {part}) = Present(p, S)
    BY <1>3 DEF Present
  <2>2. Lists(rows \o more, Present(p, T)) /\ Len(rows \o more) = Len(rows)
    <3>1. more = <<>>
      BY <1>3
    <3> QED  BY <1>1, <2>1, <3>1, ListsOne
  <2> QED  BY <2>2
<1> QED  BY <1>2, <1>3

LEMMA RowsAre ==
  ASSUME NEW p
  PROVE  /\ Lists(Rows(p), Present(p, Parts))
         /\ Len(Rows(p)) \in 0..5
         /\ p.files["assets"] # 0 => Len(Rows(p)) > 0 /\ Rows(p)[1] = "assets"
<1> DEFINE Only(i) == IF p.files[Order[i]] # 0 THEN <<Order[i]>> ELSE <<>>
           r1 == Only(1)
           r2 == r1 \o Only(2)
           r3 == r2 \o Only(3)
           r4 == r3 \o Only(4)
           r5 == r4 \o Only(5)
           s1 == {"assets"}
           s2 == s1 \cup {"hold"}
           s3 == s2 \cup {"manifest"}
           s4 == s3 \cup {"directory"}
<1>0. Lists(<<>>, Present(p, {})) /\ Len(<<>>) \in 0..0 /\ <<>> \o r1 = r1
  BY DEF Lists, Present
<1>1. Lists(r1, Present(p, s1)) /\ Len(r1) \in 0..1
  <2>1. /\ {} \in SUBSET Parts /\ "assets" \in Parts /\ "assets" \notin {}
        /\ s1 = {} \cup {"assets"} /\ Order[1] = "assets"
    BY PartsAre
  <2>2. Only(1) = IF p.files["assets"] # 0 THEN <<"assets">> ELSE <<>>
    BY <2>1
  <2> HIDE DEF Only, s1
  <2>3. Lists(<<>> \o Only(1), Present(p, s1)) /\ Len(<<>> \o Only(1)) \in 0..0 + 1
    BY <1>0, <2>1, <2>2, ListsNext
  <2> QED  BY <1>0, <2>3
<1>2. Lists(r2, Present(p, s2)) /\ Len(r2) \in 0..2
  <2>1. /\ s1 \in SUBSET Parts /\ "hold" \in Parts /\ "hold" \notin s1
        /\ s2 = s1 \cup {"hold"} /\ Order[2] = "hold"
    BY PartsAre
  <2>2. Only(2) = IF p.files["hold"] # 0 THEN <<"hold">> ELSE <<>>
    BY <2>1
  <2> HIDE DEF r1, Only, s1, s2
  <2>3. Lists(r1 \o Only(2), Present(p, s2)) /\ Len(r1 \o Only(2)) \in 0..1 + 1
    BY <1>1, <2>1, <2>2, ListsNext
  <2> QED  BY <2>3
<1>3. Lists(r3, Present(p, s3)) /\ Len(r3) \in 0..3
  <2>1. /\ s2 \in SUBSET Parts /\ "manifest" \in Parts /\ "manifest" \notin s2
        /\ s3 = s2 \cup {"manifest"} /\ Order[3] = "manifest"
    BY PartsAre
  <2>2. Only(3) = IF p.files["manifest"] # 0 THEN <<"manifest">> ELSE <<>>
    BY <2>1
  <2> HIDE DEF r2, Only, s2, s3
  <2>3. Lists(r2 \o Only(3), Present(p, s3)) /\ Len(r2 \o Only(3)) \in 0..2 + 1
    BY <1>2, <2>1, <2>2, ListsNext
  <2> QED  BY <2>3
<1>4. Lists(r4, Present(p, s4)) /\ Len(r4) \in 0..4
  <2>1. /\ s3 \in SUBSET Parts /\ "directory" \in Parts /\ "directory" \notin s3
        /\ s4 = s3 \cup {"directory"} /\ Order[4] = "directory"
    BY PartsAre
  <2>2. Only(4) = IF p.files["directory"] # 0 THEN <<"directory">> ELSE <<>>
    BY <2>1
  <2> HIDE DEF r3, Only, s3, s4
  <2>3. Lists(r3 \o Only(4), Present(p, s4)) /\ Len(r3 \o Only(4)) \in 0..3 + 1
    BY <1>3, <2>1, <2>2, ListsNext
  <2> QED  BY <2>3
<1>5. Lists(r5, Present(p, Parts)) /\ Len(r5) \in 0..5
  <2>1. /\ s4 \in SUBSET Parts /\ "journal" \in Parts /\ "journal" \notin s4
        /\ Parts = s4 \cup {"journal"} /\ Order[5] = "journal"
    BY PartsAre
  <2>2. Only(5) = IF p.files["journal"] # 0 THEN <<"journal">> ELSE <<>>
    BY <2>1
  <2> HIDE DEF r4, Only, s4
  <2>3. Lists(r4 \o Only(5), Present(p, Parts)) /\ Len(r4 \o Only(5)) \in 0..4 + 1
    BY <1>4, <2>1, <2>2, ListsNext
  <2> QED  BY <2>3
<1>6. Rows(p) = r5
  BY DEF Rows
<1>7. ASSUME p.files["assets"] # 0  PROVE Len(r5) > 0 /\ r5[1] = "assets"
  <2>1. r1 = <<"assets">>
    <3>1. Order[1] = "assets"
      BY PartsAre
    <3> QED  BY <1>7, <3>1
  <2>2. Only(2) \in Seq(Parts) /\ Only(3) \in Seq(Parts) /\ Only(4) \in Seq(Parts) /\ Only(5) \in Seq(Parts)
    <3>1. <<>> \in Seq(Parts) /\ \A part \in Parts : <<part>> \in Seq(Parts)
      OBVIOUS
    <3>2. Order[2] \in Parts /\ Order[3] \in Parts /\ Order[4] \in Parts /\ Order[5] \in Parts
      BY PartsAre
    <3> QED  BY <3>1, <3>2
  <2>3. r1 \in Seq(Parts) /\ r2 \in Seq(Parts) /\ r3 \in Seq(Parts) /\ r4 \in Seq(Parts)
    BY <1>1, <1>2, <1>3, <1>4 DEF Lists
  <2> HIDE DEF r1, Only
  <2>4. Len(r2) > 0 /\ r2[1] = "assets"
    BY <2>1, <2>2
  <2> HIDE DEF r2
  <2>5. Len(r3) > 0 /\ r3[1] = "assets"
    BY <2>2, <2>3, <2>4
  <2> HIDE DEF r3
  <2>6. Len(r4) > 0 /\ r4[1] = "assets"
    BY <2>2, <2>3, <2>5
  <2> HIDE DEF r4
  <2> QED  BY <2>2, <2>3, <2>6
<1> HIDE DEF r5
<1> QED  BY <1>5, <1>6, <1>7
\* The rows done and the one in hand.
LEMMA RowFacts ==
  ASSUME NEW p \in Progress, p.next <= Len(Rows(p))
  PROVE  /\ Len(Rows(p)) \in 0..5 /\ p.next \in Nat
         /\ RowsOf(p) = {part \in Parts : p.files[part] # 0}
         /\ Done(p) \subseteq RowsOf(p)
         /\ p.next = Len(Rows(p)) => Done(p) = RowsOf(p)
         /\ p.next = 0 => Done(p) = {}
         /\ p.next < Len(Rows(p)) => Row(p) \in RowsOf(p) /\ Row(p) \notin Done(p)
         /\ p.files["assets"] # 0 => Len(Rows(p)) # 0 /\ (p.next # 0 => "assets" \in Done(p))
<1> DEFINE rows == Rows(p)
<1>1. p.next \in 0..5
  BY PartsAre DEF Progress
<1>2. Lists(rows, Present(p, Parts)) /\ Len(rows) \in 0..5
  BY RowsAre
<1>3. p.files["assets"] # 0 => Len(rows) > 0 /\ rows[1] = "assets"
  BY RowsAre
<1>4. Done(p) = {rows[i] : i \in 1..p.next} /\ Row(p) = rows[p.next + 1]
  BY DEF Done, Row
<1> HIDE DEF rows
<1>5. RowsOf(p) = {part \in Parts : p.files[part] # 0}
  BY DEF RowsOf
<1>6. \A i \in 1..Len(rows) : rows[i] \in Parts
  BY <1>2 DEF Lists
<1>7. RowsOf(p) = {rows[i] : i \in 1..Len(rows)}
  BY <1>2, <1>5, <1>6 DEF Lists, Present
<1>8. p.next <= Len(rows)
  BY DEF rows
<1>9. 1..p.next \subseteq 1..Len(rows)
  BY <1>1, <1>2, <1>8
<1>10. Done(p) \subseteq RowsOf(p) /\ (p.next = Len(rows) => Done(p) = RowsOf(p))
  BY <1>4, <1>7, <1>9
<1>11. p.next = 0 => Done(p) = {}
  BY <1>4
<1>12. ASSUME p.next < Len(rows)  PROVE Row(p) \in RowsOf(p) /\ Row(p) \notin Done(p)
  <2>1. p.next + 1 \in 1..Len(rows) /\ p.next + 1 \notin 1..p.next
    BY <1>1, <1>2, <1>12
  <2>2. \A i \in 1..p.next : i \in 1..Len(rows) /\ i # p.next + 1
    BY <1>9, <2>1
  <2>3. \A i \in 1..p.next : rows[i] # rows[p.next + 1]
    BY <1>2, <2>1, <2>2 DEF Lists
  <2> QED  BY <1>4, <1>7, <2>1, <2>3
<1>13. ASSUME p.files["assets"] # 0, p.next # 0  PROVE "assets" \in Done(p)
  <2>1. 1 \in 1..p.next
    BY <1>1, <1>13
  <2> QED  BY <1>3, <1>4, <1>13, <2>1
<1>14. p.files["assets"] # 0 => Len(rows) # 0
  BY <1>2, <1>3
<1> QED  BY <1>1, <1>2, <1>5, <1>10, <1>11, <1>12, <1>13, <1>14 DEF rows

LEMMA SameRows ==
  ASSUME NEW p, NEW q, p.files = q.files
  PROVE  /\ Rows(p) = Rows(q) /\ RowsOf(p) = RowsOf(q)
         /\ p.next = q.next => Done(p) = Done(q) /\ Row(p) = Row(q)
<1>1. Rows(p) = Rows(q)
  BY DEF Rows
<1> QED  BY <1>1 DEF RowsOf, Done, Row

LEMMA NextRow ==
  ASSUME NEW p \in Progress, p.next < Len(Rows(p)), NEW q, q.files = p.files, q.next = p.next + 1
  PROVE  Done(q) = Done(p) \cup {Row(p)}
<1>1. p.next \in 0..5 /\ Rows(q) = Rows(p)
  BY PartsAre, SameRows DEF Progress
<1>2. 1..q.next = 1..p.next \cup {p.next + 1}
  BY <1>1
<1> QED  BY <1>1, <1>2 DEF Done, Row
LEMMA FirstIsIn ==
  ASSUME NEW S, S \subseteq Ids, S # {}
  PROVE  First(S) \in S
<1>1. S \subseteq Nat
  BY IdsAssumption
<1>2. PICK i \in S : \A j \in S : <<j, i>> \notin OpToRel(<, Nat)
  BY <1>1, WFMin, NatLessThanWellFounded
<1>3. \A j \in S : ~(j < i)
  BY <1>1, <1>2 DEF OpToRel
<1>4. \A j \in S : i <= j
  BY <1>1, <1>3
<1> QED  BY <1>4 DEF First

-----------------------------------------------------------------------------
(* What a command does not touch.                                           *)

LEMMA SameSets ==
  ASSUME ProgressInv, UnsyncedInv, SetsInv,
         UNCHANGED <<sets, progress, unsynced, touched>>
  PROVE  ProgressInv' /\ UnsyncedInv' /\ SetsInv'
<1>1. ProgressInv'
  BY DEF ProgressInv, Known, Remaining, File, Whatever, Whole
<1>2. UnsyncedInv'
  BY DEF UnsyncedInv, Pruning
<1>3. SetsInv'
  BY DEF SetsInv, Known, File, Whatever
<1> QED  BY <1>1, <1>2, <1>3

LEMMA NobodyWorks ==
  ASSUME KeptInv, Stop, kept' \subseteq kept, UNCHANGED <<sets, progress, touched>>
  PROVE  KeptInv' /\ QueueInv' /\ WorkInv'
<1>1. pc' = "idle" /\ pc' \notin Working
  BY DEF Stop, Working, Removing
<1>2. KeptInv'
  BY <1>1 DEF KeptInv, Known, Complete, Held, File
<1>3. QueueInv' /\ WorkInv'
  BY <1>1 DEF QueueInv, WorkInv
<1> QED  BY <1>2, <1>3

LEMMA InitInv == Init => IInv
<1> SUFFICES ASSUME Init  PROVE IInv
  OBVIOUS
<1>1. TypeOK
  BY ReleasesAssumption DEF Init, TypeOK
<1>2. ProgressInv /\ UnsyncedInv
  BY DEF Init, ProgressInv, UnsyncedInv
<1>3. Known = {}
  BY DEF Init, Known
<1>4. SetsInv /\ KeptInv
  BY <1>3 DEF Init, SetsInv, KeptInv
<1>5. QueueInv /\ WorkInv
  BY DEF Init, QueueInv, WorkInv, Working, Removing
<1> QED  BY <1>1, <1>2, <1>4, <1>5 DEF IInv

LEMMA AbortInv ==
  ASSUME IInv, Abort
  PROVE  IInv'
<1>1. TypeOK'
  BY DEF IInv, TypeOK, Abort, Stop, Readable
<1>2. ProgressInv' /\ UnsyncedInv' /\ SetsInv'
  BY SameSets DEF IInv, Abort
<1>3. KeptInv' /\ QueueInv' /\ WorkInv'
  BY NobodyWorks DEF IInv, Abort
<1> QED  BY <1>1, <1>2, <1>3 DEF IInv

LEMMA BeginUpgradeInv ==
  ASSUME IInv, NEW r \in Releases, BeginUpgrade(r)
  PROVE  IInv'
<1>1. TypeOK
  BY DEF IInv
<1>2. Ids \ Known # {} /\ Known \subseteq Ids
  BY DEF BeginUpgrade, Known
<1>3. mem'.new \in Ids \ Known /\ mem'.new = First(Ids \ Known)
  BY <1>2, FirstIsIn DEF BeginUpgrade
<1>4. mem' \in Mem
  BY <1>1, <1>3 DEF BeginUpgrade, Mem, TypeOK
<1>5. TypeOK'
  BY <1>1, <1>4, NullAssumption DEF TypeOK, BeginUpgrade, Readable
<1>6. ProgressInv' /\ UnsyncedInv' /\ SetsInv'
  BY SameSets DEF IInv, BeginUpgrade
<1>7. KeptInv'
  BY DEF IInv, KeptInv, BeginUpgrade, Known, Complete, Held, File, Working, Removing
<1>8. QueueInv'
  <2>1. ASSUME NEW id \in mem'.queue
        PROVE  /\ id # mem'.new /\ mem'.seen[id] \in Sets
               /\ Whole(mem'.seen[id].files) /\ mem'.seen[id].files["hold"] = 0 /\ ~mem'.seen[id].stray
    <3>1. id \in Ids /\ Eligible(id, r)
      BY <2>1 DEF BeginUpgrade
    <3>2. mem'.seen[id] = sets[id] /\ id \in Known
      BY <3>1 DEF BeginUpgrade, Eligible, Complete
    <3>3. sets[id] \in Sets
      BY <1>1, <3>1, <3>2 DEF TypeOK, Known
    <3> QED  BY <1>3, <3>1, <3>2, <3>3, PartsAre DEF Eligible, Complete, Held, File, Whole
  <2>2. mem'.op = "upgrade" /\ pc' = "install" /\ Known' = Known
    BY DEF BeginUpgrade, Known
  <2> QED  BY <1>3, <2>1, <2>2 DEF QueueInv
<1>9. WorkInv'
  BY DEF WorkInv, BeginUpgrade, Working, Removing
<1> QED  BY <1>5, <1>6, <1>7, <1>8, <1>9 DEF IInv
LEMMA InstallInv ==
  ASSUME IInv, Install
  PROVE  IInv'
<1>1. TypeOK /\ mem \in Mem /\ pc = "install" /\ mem.new \in Ids \ Known
  BY DEF IInv, TypeOK, QueueInv, Install, Mem
<1>2. PICK forward \in BOOLEAN :
        /\ sets' = [sets EXCEPT ![mem.new] =
             [before |-> current, after |-> mem.release, forward |-> forward,
              stray |-> FALSE, files |-> NewFiles]]
        /\ IF forward THEN current' = mem.release /\ pc' = "finish" /\ UNCHANGED mem
                      ELSE Stop /\ UNCHANGED current
  BY DEF Install
<1> DEFINE set == [before |-> current, after |-> mem.release, forward |-> forward,
                   stray |-> FALSE, files |-> NewFiles]
<1>3. set \in Sets /\ mem.release \in Releases
  <2>1. NewFiles \in Files
    BY PartsAre DEF NewFiles, Files
  <2> QED  BY <1>1, <2>1 DEF Sets, TypeOK, Mem
<1>4. /\ sets'[mem.new] = set /\ \A id \in Ids \ {mem.new} : sets'[id] = sets[id]
      /\ Known' = Known \cup {mem.new}
  <2>1. sets'[mem.new] = set /\ \A id \in Ids \ {mem.new} : sets'[id] = sets[id]
    BY <1>1, <1>2 DEF TypeOK
  <2> QED  BY <1>1, <1>3, <2>1, NullAssumption DEF Known
<1>5. TypeOK'
  <2>1. current' \in Releases /\ (pc' = "idle" <=> mem' = NoMem) /\ mem' \in Mem \cup {NoMem}
    BY <1>1, <1>2, <1>3, NullAssumption DEF TypeOK, Stop
  <2>2. sets' \in [Ids -> Sets \cup {NoSet}]
    BY <1>1, <1>2, <1>3 DEF TypeOK
  <2>3. pc' \in {"idle", "finish"}
    BY <1>2 DEF Stop
  <2> QED  BY <1>1, <2>1, <2>2, <2>3 DEF TypeOK, Install, Readable
<1>6. ProgressInv'
  <2>1. progress # NoProgress => progress.id \in Known /\ progress.id \in Ids \ {mem.new}
    BY <1>1 DEF IInv, ProgressInv, Known
  <2>2. progress # NoProgress => sets'[progress.id] = sets[progress.id]
    BY <1>4, <2>1
  <2> QED  BY <1>4, <2>1, <2>2 DEF IInv, ProgressInv, Install, Remaining, File, Whatever, Whole
<1>7. UnsyncedInv'
  BY DEF IInv, UnsyncedInv, Install, Pruning
<1>8. SetsInv'
  <2>1. \A part \in Parts \ {"hold"} : sets'[mem.new].files[part] # 0
    BY <1>4, PartsAre DEF NewFiles
  <2>2. \A id \in Known : id \in Ids \ {mem.new} /\ sets'[id] = sets[id]
    BY <1>1, <1>4 DEF Known
  <2>3. \A id \in Known \ touched :
          (progress # NoProgress /\ progress.id = id) \/ Whatever(id)' \/ sets'[id].files = Gone
    BY <2>2 DEF IInv, SetsInv, Whatever, File
  <2>4. mem.new \in Ids /\ \A id : id \in Known' \ touched' => id \in Known \ touched \/ id = mem.new
    BY <1>1, <1>4 DEF Install
  <2>5. ASSUME NEW id \in Known' \ touched'
        PROVE  (progress' # NoProgress /\ progress'.id = id) \/ Whatever(id)' \/ sets'[id].files = Gone
    <3>1. CASE id = mem.new
      BY <2>1, <3>1 DEF Whatever, File, Install
    <3>2. CASE id \in Known \ touched
      BY <2>3, <3>2 DEF Install
    <3> QED  BY <2>4, <3>1, <3>2
  <2> QED  BY <2>5 DEF SetsInv
<1>9. KeptInv'
  <2>1. \A id \in Known : id \in Ids \ {mem.new} /\ sets'[id] = sets[id]
    BY <1>1, <1>4 DEF Known
  <2>2. kept' \subseteq Known' /\ touched' \subseteq Known'
    BY <1>4 DEF IInv, KeptInv, Install
  <2>3. pc' \notin Working
    BY <1>2 DEF Stop, Working, Removing
  <2>4. ASSUME NEW id \in kept' \ touched'
        PROVE  Complete(id)' /\ Held(id)' /\ (progress' # NoProgress => progress'.id # id)
    <3>1. id \in kept \ touched /\ id \in Known /\ sets'[id] = sets[id] /\ id \in Known'
      BY <1>4, <2>1 DEF IInv, KeptInv, Install
    <3>2. Complete(id) /\ Held(id) /\ (progress # NoProgress => progress.id # id)
      BY <3>1 DEF IInv, KeptInv
    <3> QED  BY <3>1, <3>2 DEF Complete, Held, File, Install
  <2> QED  BY <2>2, <2>3, <2>4 DEF KeptInv
<1>10. QueueInv'
  <2>1. CASE forward
    <3>1. pc' = "finish" /\ mem' = mem /\ current' = mem.release
      BY <1>2, <2>1
    <3>2. mem.new \in Known' /\ sets'[mem.new].after = current' /\ mem.op = "upgrade"
      BY <1>1, <1>4, <3>1 DEF IInv, QueueInv
    <3>3. \A id \in mem.queue :
            /\ id # mem.new /\ mem.seen[id] \in Sets
            /\ Whole(mem.seen[id].files) /\ mem.seen[id].files["hold"] = 0 /\ ~mem.seen[id].stray
      BY <1>1 DEF IInv, QueueInv
    <3> QED  BY <3>1, <3>2, <3>3 DEF QueueInv
  <2>2. CASE ~forward
    BY <1>2, <2>2 DEF Stop, QueueInv
  <2> QED  BY <2>1, <2>2
<1>11. WorkInv'
  BY <1>2 DEF Stop, WorkInv, Working, Removing
<1> QED  BY <1>5, <1>6, <1>7, <1>8, <1>9, <1>10, <1>11 DEF IInv

LEMMA FinishInv ==
  ASSUME IInv, Finish
  PROVE  IInv'
<1>1. TypeOK'
  BY DEF IInv, TypeOK, Finish, Stop, Readable
<1>2. ProgressInv' /\ UnsyncedInv' /\ SetsInv'
  BY SameSets DEF IInv, Finish
<1>3. CASE Complete(mem.new) /\ ~Pruning /\ mem.queue # {}
  <2>1. pc' = "choose" /\ mem' = mem /\ mem.op = "upgrade"
    BY <1>3 DEF IInv, QueueInv, Finish
  <2>2. KeptInv' /\ WorkInv'
    BY <2>1 DEF IInv, KeptInv, WorkInv, Finish, Known, Complete, Held, File, Working, Removing
  <2>3. Relied(mem.new)' /\ ~Pruning'
    BY <1>3 DEF IInv, QueueInv, Finish, Relied, Known, Complete, File, Pruning
  <2>4. QueueInv'
    BY <2>1, <2>3 DEF IInv, QueueInv, Finish
  <2> QED  BY <1>1, <1>2, <2>2, <2>4 DEF IInv
<1>4. CASE ~(Complete(mem.new) /\ ~Pruning /\ mem.queue # {})
  BY <1>1, <1>2, <1>4, NobodyWorks DEF IInv, Finish
<1> QED  BY <1>3, <1>4
\* What a removal starts with.
LEMMA SelectedFacts ==
  ASSUME TypeOK, NEW id \in Ids, Complete(id), NEW protect \in Ids \ {id}
  PROVE  LET w == Selected(id, protect) IN
         /\ w \in Progress /\ Readable(w) /\ Whole(w.files) /\ Remaining(w)
         /\ w.phase = "pruning" /\ w.id = id /\ w.protect = protect
<1> DEFINE w == Selected(id, protect)
<1>1. id \in Known /\ sets[id] \in Sets
  BY DEF Complete, Known, TypeOK
<1>2. /\ w.phase = "pruning" /\ w.id = id /\ w.files = sets[id].files /\ w.protect = protect
      /\ w.next = 0 /\ w.intent = FALSE
  BY DEF Selected
<1>3. w \in Progress
  BY <1>1, PartsAre DEF Selected, Progress, Sets
<1>4. Whole(w.files)
  BY <1>2, PartsAre DEF Whole, Complete, File
<1> HIDE DEF w
<1>5. Len(Rows(w)) \in 0..5 /\ w.next <= Len(Rows(w))
  BY <1>2, RowsAre
<1>6. RowsOf(w) = {part \in Parts : w.files[part] # 0} /\ Done(w) = {} /\ Len(Rows(w)) # 0
  BY <1>2, <1>3, <1>4, <1>5, RowFacts DEF Whole
<1>7. Readable(w)
  BY <1>2, <1>5, <1>6 DEF Readable
<1>8. Remaining(w)
  <2>1. ~sets[id].stray
    BY DEF Complete
  <2> QED  BY <1>2, <1>6, <2>1 DEF Remaining, File
<1> QED  BY <1>2, <1>3, <1>4, <1>7, <1>8 DEF w

LEMMA ChooseInv ==
  ASSUME IInv, Choose
  PROVE  IInv'
<1>1. TypeOK /\ mem \in Mem /\ mem.queue \subseteq Ids /\ pc = "choose"
  BY DEF IInv, TypeOK, Choose, Mem
<1>2. ProgressInv' /\ UnsyncedInv' /\ SetsInv'
  BY SameSets DEF IInv, Choose
<1>0. PICK id, new, w : id = First(mem.queue) /\ new = mem.new /\ w = Selected(id, new)
  OBVIOUS
<1>3. CASE mem.queue # {} /\ sets[id] = mem.seen[id]
  <2>1. /\ pc' = "record" /\ mem' = [mem EXCEPT !.queue = @ \ {id}, !.work = w]
    BY <1>0, <1>3 DEF Choose
  <2>2. id \in mem.queue /\ id \in Ids
    BY <1>0, <1>1, <1>3, FirstIsIn
  <2>3. /\ mem.op = "upgrade" /\ Relied(new) /\ ~Pruning /\ new \in Ids
        /\ \A i \in mem.queue :
             /\ i # new /\ mem.seen[i] \in Sets
             /\ Whole(mem.seen[i].files) /\ mem.seen[i].files["hold"] = 0 /\ ~mem.seen[i].stray
    BY <1>0, <1>1 DEF IInv, QueueInv, Mem
  <2>4. sets[id] \in Sets /\ Whole(sets[id].files) /\ sets[id].files["hold"] = 0 /\ ~sets[id].stray /\ id # new
    BY <1>3, <2>2, <2>3
  <2>5. Complete(id) /\ id \in Known /\ ~Held(id)
    BY <2>2, <2>4, NullAssumption DEF Complete, Known, Whole, File, Held
  <2>6. /\ w \in Progress /\ Readable(w) /\ Whole(w.files) /\ Remaining(w)
        /\ w.phase = "pruning" /\ w.id = id /\ w.protect = new
    BY <1>0, <1>1, <2>2, <2>3, <2>4, <2>5, SelectedFacts
  <2>7. /\ mem' \in Mem /\ mem'.work = w /\ mem'.queue = mem.queue \ {id} /\ mem'.op = "upgrade"
        /\ mem'.new = new /\ mem'.seen = mem.seen
    BY <1>0, <1>1, <2>1, <2>3, <2>6 DEF Mem
  <2>8. TypeOK'
    BY <1>1, <2>1, <2>7, NullAssumption DEF TypeOK, Choose, Readable
  <2>9. KeptInv'
    <3>1. \A i \in kept \ touched : Complete(i) /\ Held(i) /\ (progress # NoProgress => progress.id # i) /\ i # id
      BY <2>5 DEF IInv, KeptInv
    <3> QED  BY <2>6, <2>7, <3>1 DEF IInv, KeptInv, Choose, Known, Complete, Held, File
  <2>10. QueueInv'
    BY <2>1, <2>3, <2>7 DEF QueueInv
  <2>11. WorkInv'
    <3>3. Relied(new)'
      BY <2>3 DEF Relied, Choose, Known, Complete, File
    <3>4. ~Pruning' /\ w.id \in Known' /\ Remaining(w)' /\ mem'.work = w /\ pc' = "record"
      BY <2>1, <2>3, <2>5, <2>6, <2>7 DEF Choose, Pruning, Known, Remaining, File
    <3> QED  BY <2>3, <2>4, <2>6, <2>7, <3>3, <3>4 DEF WorkInv, Removing
  <2> QED  BY <1>2, <2>8, <2>9, <2>10, <2>11 DEF IInv
<1>4. CASE ~(mem.queue # {} /\ sets[id] = mem.seen[id])
  <2>1. Stop
    BY <1>0, <1>4 DEF Choose
  <2>2. KeptInv' /\ QueueInv' /\ WorkInv'
    BY <2>1, NobodyWorks DEF IInv, Choose
  <2>3. TypeOK'
    BY <1>1, <2>1 DEF TypeOK, Choose, Stop, Readable
  <2> QED  BY <1>2, <2>2, <2>3 DEF IInv
<1> QED  BY <1>3, <1>4
LEMMA BeginPruneInv ==
  ASSUME IInv, NEW id \in Ids, BeginPrune(id)
  PROVE  IInv'
<1>1. TypeOK
  BY DEF IInv
<1>2. PICK w0, w, q :
        /\ w0 = IF Pruning /\ progress.id = id THEN progress ELSE Selected(id, id)
        /\ q = First(Alternates(id)) /\ w = [w0 EXCEPT !.protect = q]
  OBVIOUS
<1>3. /\ pc = "idle" /\ id \in Known /\ Alternates(id) # {} /\ pc' = "record"
      /\ mem' = [op |-> "prune", release |-> current, new |-> id, queue |-> {},
                 seen |-> [i \in Ids |-> NoSet], work |-> w, was |-> FALSE]
      /\ kept' = kept \ {id} /\ UNCHANGED <<current, sets, progress, unsynced, touched>>
  BY <1>2 DEF BeginPrune
<1>4. q \in Ids \ {id} /\ Complete(q) /\ sets[q].after = current /\ q \in Known
  <2>1. Alternates(id) \subseteq Ids
    BY DEF Alternates
  <2>2. q \in Alternates(id)
    BY <1>2, <1>3, <2>1, FirstIsIn
  <2> QED  BY <2>2 DEF Alternates, Complete
<1>5. /\ w \in Progress /\ Readable(w) /\ Whole(w.files) /\ Remaining(w)
      /\ w.phase = "pruning" /\ w.id = id /\ w.protect = q
      /\ Pruning => w = [progress EXCEPT !.protect = w.protect]
  <2>1. CASE Pruning
    <3>1. progress.id = id /\ w0 = progress /\ Remaining(progress)
      BY <1>2, <2>1 DEF BeginPrune
    <3>2. progress \in Progress /\ Readable(progress) /\ Whole(progress.files) /\ progress.phase = "pruning"
      BY <1>1, <2>1 DEF IInv, TypeOK, ProgressInv, Pruning
    <3>3. w \in Progress /\ w.phase = "pruning" /\ w.id = id /\ w.protect = q
          /\ w.files = progress.files /\ w.next = progress.next /\ w.intent = progress.intent
          /\ w = [progress EXCEPT !.protect = w.protect]
      BY <1>2, <1>4, <3>1, <3>2 DEF Progress
    <3>4. Rows(w) = Rows(progress) /\ RowsOf(w) = RowsOf(progress) /\ Done(w) = Done(progress) /\ Row(w) = Row(progress)
      BY <3>3, SameRows
    <3>5. Readable(w)
      BY <1>4, <3>2, <3>3, <3>4 DEF Readable
    <3>6. Remaining(w)
      BY <3>1, <3>3, <3>4 DEF Remaining
    <3> QED  BY <3>2, <3>3, <3>5, <3>6
  <2>2. CASE ~Pruning
    <3>1. Complete(id) /\ w0 = Selected(id, id)
      BY <1>2, <2>2 DEF BeginPrune
    <3>2. w = Selected(id, q)
      <4>1. w = [Selected(id, id) EXCEPT !.protect = q]
        BY <1>2, <3>1
      <4> QED  BY <4>1 DEF Selected
    <3> QED  BY <1>1, <1>4, <2>2, <3>1, <3>2, SelectedFacts
  <2> QED  BY <2>1, <2>2
<1>6. mem' \in Mem /\ mem'.work = w /\ mem'.queue = {} /\ mem'.op = "prune"
  BY <1>1, <1>3, <1>5 DEF Mem, TypeOK
<1>7. TypeOK'
  BY <1>1, <1>3, <1>6, NullAssumption DEF TypeOK, Readable
<1>8. ProgressInv' /\ UnsyncedInv' /\ SetsInv'
  BY <1>3, SameSets DEF IInv
<1>9. KeptInv'
  BY <1>3, <1>5, <1>6 DEF IInv, KeptInv, Known, Complete, Held, File
<1>10. QueueInv'
  BY <1>3, <1>6 DEF QueueInv
<1>11. WorkInv'
  <2>1. Relied(q)'
    BY <1>3, <1>4 DEF Relied, Known, Complete, File
  <2>2. w.id \in Known' /\ Remaining(w)' /\ (Pruning' => w = [progress' EXCEPT !.protect = w.protect])
    BY <1>3, <1>5 DEF Pruning, Known, Remaining, File
  <2> QED  BY <1>3, <1>4, <1>5, <1>6, <2>1, <2>2 DEF WorkInv, Removing
<1> QED  BY <1>7, <1>8, <1>9, <1>10, <1>11 DEF IInv

\* A removal that is over left nothing of its set.
LEMMA CompletedIsGone ==
  ASSUME IInv, progress # NoProgress, progress.phase = "completed", progress.id \notin touched
  PROVE  sets[progress.id].files = Gone
<1>1. /\ progress \in Progress /\ Readable(progress) /\ progress.id \in Known
      /\ sets[progress.id] \in Sets /\ Whole(progress.files)
      /\ Remaining(progress) \/ (progress.next = 0 /\ Whatever(progress.id))
  BY DEF IInv, TypeOK, ProgressInv, Known
<1>2. progress.next = Len(Rows(progress))
  BY <1>1 DEF Readable
<1>3. Len(Rows(progress)) \in 0..5
  BY RowsAre
<1>4. progress.next <= Len(Rows(progress)) /\ progress.files["assets"] # 0
  BY <1>1, <1>2, <1>3 DEF Whole
<1>5. progress.next # 0 /\ RowsOf(progress) = Done(progress)
  BY <1>1, <1>2, <1>4, RowFacts
<1>6. \A part \in Parts : sets[progress.id].files[part] = 0
  BY <1>1, <1>5 DEF Remaining, File
<1> QED  BY <1>1, <1>6 DEF Sets, Files, Gone

LEMMA RecordInv ==
  ASSUME IInv, Record
  PROVE  IInv'
<1>1. TypeOK /\ mem \in Mem /\ pc = "record"
  BY DEF IInv, TypeOK, Record
<1>2. PICK w : w = mem.work
  OBVIOUS
<1>3. /\ w \in Progress /\ Readable(w) /\ Whole(w.files) /\ w.phase = "pruning" /\ w.id \in Known
      /\ w.protect # w.id /\ Relied(w.protect)
      /\ mem.op = "upgrade" => w.protect = mem.new
      /\ Pruning => w = [progress EXCEPT !.protect = w.protect]
      /\ w.id \notin touched => Remaining(w)
  BY <1>1, <1>2 DEF IInv, WorkInv, Working
<1>4. /\ progress' = w /\ pc' = "intend" /\ mem' = mem
      /\ UNCHANGED <<current, sets, unsynced, kept, touched>>
      /\ Pruning => progress.id = w.id
  BY <1>1, <1>2 DEF Record, Stage, Mem
<1>5. w # NoProgress
  BY <1>3, NullAssumption
<1>6. TypeOK'
  BY <1>1, <1>3, <1>4 DEF TypeOK, Readable
<1>7. ProgressInv'
  BY <1>3, <1>4 DEF ProgressInv, Known, Remaining, File, Whole
<1>8. UnsyncedInv'
  <2>1. ASSUME NEW e \in unsynced
        PROVE  w.intent /\ e = <<w.id, Row(w)>>
    <3>1. Pruning /\ progress.intent /\ e = <<progress.id, Row(progress)>> /\ progress \in Progress
      BY <1>1 DEF IInv, UnsyncedInv, TypeOK, Pruning
    <3>2. w.intent = progress.intent /\ w.id = progress.id /\ w.files = progress.files /\ w.next = progress.next
      BY <1>3, <3>1 DEF Progress
    <3> QED  BY <3>1, <3>2, SameRows
  <2>2. Pruning'
    BY <1>3, <1>4, <1>5 DEF Pruning
  <2> QED  BY <1>4, <2>1, <2>2 DEF UnsyncedInv
<1>9. SetsInv'
  <2>1. ASSUME NEW id \in Known \ touched
        PROVE  w.id = id \/ Whatever(id) \/ sets[id].files = Gone
    <3>1. CASE progress # NoProgress /\ progress.id = id
      <4>1. progress.phase \in {"pruning", "completed"}
        BY <1>1, <3>1 DEF TypeOK, Progress
      <4> QED  BY <1>4, <2>1, <3>1, <4>1, CompletedIsGone DEF Pruning
    <3> QED  BY <2>1, <3>1 DEF IInv, SetsInv
  <2>2. Known' = Known /\ touched' = touched /\ progress' # NoProgress
    BY <1>4, <1>5 DEF Known
  <2> QED  BY <1>4, <2>1, <2>2 DEF SetsInv, Whatever, File
<1>10. KeptInv'
  <2>1. \A id \in kept \ touched : Complete(id) /\ Held(id) /\ w.id # id
    BY <1>1, <1>2 DEF IInv, KeptInv, Working
  <2> QED  BY <1>2, <1>4, <2>1 DEF IInv, KeptInv, Known, Complete, Held, File
<1>11. QueueInv'
  BY <1>1, <1>4 DEF IInv, QueueInv
<1>12. WorkInv'
  <2>1. Relied(w.protect)' /\ w.id \in Known' /\ (w.id \notin touched' => Remaining(w)')
    BY <1>3, <1>4 DEF Relied, Known, Complete, Remaining, File
  <2> QED  BY <1>2, <1>3, <1>4, <2>1 DEF WorkInv
<1> QED  BY <1>6, <1>7, <1>8, <1>9, <1>10, <1>11, <1>12 DEF IInv
-----------------------------------------------------------------------------
(* The steps of a removal.                                                  *)

LEMMA InHand ==
  ASSUME IInv, pc \in Removing, NEW w, w = mem.work
  PROVE  /\ TypeOK /\ mem \in Mem /\ pc \in Working
         /\ progress = w /\ w # NoProgress /\ Pruning
         /\ w \in Progress /\ Readable(w) /\ Whole(w.files) /\ w.phase = "pruning"
         /\ w.id \in Known /\ w.id \in Ids /\ sets[w.id] \in Sets
         /\ w.protect # w.id /\ Relied(w.protect)
         /\ mem.op = "upgrade" => w.protect = mem.new
         /\ w.id \notin touched => Remaining(w)
         /\ pc \in {"unlink", "sync", "advance"} => w.intent
         /\ pc \in {"sync", "advance"} /\ w.id \notin touched => File(w.id, Row(w)) = 0
         /\ pc = "advance" => unsynced = {}
<1>1. TypeOK /\ pc \in Working /\ pc # "record"
  BY DEF IInv, Working, Removing
<1>2. mem \in Mem
  BY <1>1 DEF TypeOK, Removing
<1>3. w \in Progress /\ w.id \in Known /\ progress = w /\ w.phase = "pruning"
  BY <1>1 DEF IInv, WorkInv
<1>4. w # NoProgress /\ Pruning
  BY <1>3, NullAssumption DEF Pruning
<1>5. w.id \in Ids /\ sets[w.id] \in Sets
  BY <1>1, <1>3 DEF TypeOK, Known
<1> QED  BY <1>1, <1>2, <1>3, <1>4, <1>5 DEF IInv, WorkInv

\* A step that writes the record and leaves the sets alone.
LEMMA RecordMoves ==
  ASSUME IInv, pc \in Removing, NEW w, w = mem.work, NEW v, progress' = v,
         v \in Progress, Readable(v), v.files = w.files, v.id = w.id,
         UNCHANGED <<current, sets, unsynced, kept, touched>>,
         w.id \notin touched => Remaining(v),
         unsynced # {} => v.phase = "pruning" /\ v.intent /\ v.next = w.next
  PROVE  /\ v # NoProgress /\ ProgressInv' /\ UnsyncedInv' /\ SetsInv'
         /\ (pc' \in Working => mem'.work.id = w.id) => KeptInv'
         /\ w.id \in Known' /\ Relied(w.protect)' /\ (w.id \notin touched' => Remaining(v)')
<1>1. v # NoProgress
  BY NullAssumption
<1>2. progress = w /\ w \in Progress /\ w.id \in Known /\ Whole(w.files) /\ Relied(w.protect) /\ w # NoProgress
  BY InHand
<1>3. w.id \in Known' /\ Relied(w.protect)' /\ (w.id \notin touched' => Remaining(v)')
  BY <1>2 DEF Relied, Known, Complete, Remaining, File
<1>4. ProgressInv'
  BY <1>2, <1>3 DEF ProgressInv
<1>5. UnsyncedInv'
  <2>1. ASSUME NEW e \in unsynced
        PROVE  v.phase = "pruning" /\ v.intent /\ e = <<v.id, Row(v)>>
    <3>1. e = <<w.id, Row(w)>> /\ v.phase = "pruning" /\ v.intent /\ v.next = w.next
      BY <1>2 DEF IInv, UnsyncedInv
    <3>2. Row(v) = Row(w)
      BY <3>1, SameRows
    <3> QED  BY <3>1, <3>2
  <2> QED  BY <1>1, <2>1 DEF UnsyncedInv, Pruning
<1>6. SetsInv'
  BY <1>1, <1>2 DEF IInv, SetsInv, Known, Whatever, File
<1>7. ASSUME pc' \in Working => mem'.work.id = w.id  PROVE KeptInv'
  <2>1. \A id \in kept \ touched : Complete(id) /\ Held(id) /\ w.id # id
    BY <1>2 DEF IInv, KeptInv
  <2> QED  BY <1>7, <2>1 DEF IInv, KeptInv, Known, Complete, Held, File
<1> QED  BY <1>1, <1>3, <1>4, <1>5, <1>6, <1>7

LEMMA IntendInv ==
  ASSUME IInv, Intend
  PROVE  IInv'
<1>1. pc = "intend" /\ pc \in Removing
  BY DEF Intend, Removing
<1>2. PICK w : w = mem.work
  OBVIOUS
<1>3. /\ TypeOK /\ mem \in Mem /\ progress = w /\ w \in Progress /\ Readable(w) /\ w.phase = "pruning"
      /\ Whole(w.files) /\ w.protect # w.id /\ (mem.op = "upgrade" => w.protect = mem.new)
      /\ w.id \notin touched => Remaining(w)
  BY <1>1, <1>2, InHand
<1>4. Len(Rows(w)) \in 0..5 /\ w.next <= Len(Rows(w)) /\ w.next \in 0..5
  BY <1>3, RowsAre, PartsAre DEF Readable, Progress
<1>5. CASE w.next < Len(Rows(w))
  <2>1. PICK v : v = [w EXCEPT !.intent = TRUE]
    OBVIOUS
  <2>2. /\ progress' = v /\ pc' = "unlink" /\ mem' = [mem EXCEPT !.was = w.intent, !.work.intent = TRUE]
        /\ UNCHANGED <<current, sets, unsynced, kept, touched>>
    BY <1>2, <1>5, <2>1 DEF Intend
  <2>3. /\ v \in Progress /\ v.files = w.files /\ v.id = w.id /\ v.next = w.next /\ v.phase = "pruning"
        /\ v.intent /\ v.protect = w.protect
    BY <1>3, <2>1 DEF Progress
  <2>4. mem' \in Mem /\ mem'.work = v /\ mem'.op = mem.op /\ mem'.new = mem.new /\ mem'.queue = mem.queue
        /\ mem'.seen = mem.seen
    <3>1. w.intent \in BOOLEAN
      BY <1>3 DEF Progress
    <3>2. mem' = [mem EXCEPT !.was = w.intent, !.work = v]
      BY <1>2, <1>3, <2>1, <2>2 DEF Mem
    <3> QED  BY <1>3, <2>3, <3>1, <3>2 DEF Mem
  <2>5. Rows(v) = Rows(w) /\ RowsOf(v) = RowsOf(w) /\ Done(v) = Done(w) /\ Row(v) = Row(w)
    BY <2>3, SameRows
  <2>6. Readable(v)
    BY <1>3, <1>5, <2>3, <2>5 DEF Readable
  <2>7. w.id \notin touched => Remaining(v)
    BY <1>3, <2>3, <2>5 DEF Remaining
  <2>8. /\ v # NoProgress /\ ProgressInv' /\ UnsyncedInv' /\ SetsInv' /\ KeptInv'
        /\ w.id \in Known' /\ Relied(w.protect)' /\ (w.id \notin touched' => Remaining(v)')
    <3>1. unsynced # {} => v.phase = "pruning" /\ v.intent /\ v.next = w.next
      BY <2>3
    <3>2. mem'.work.id = w.id
      BY <2>3, <2>4
    <3> QED  BY <1>1, <1>2, <2>2, <2>3, <2>6, <2>7, <3>1, <3>2, RecordMoves
  <2>9. TypeOK'
    BY <1>3, <2>2, <2>3, <2>4, <2>6, NullAssumption DEF TypeOK, Readable
  <2>10. QueueInv'
    BY <1>1, <2>2, <2>4 DEF IInv, QueueInv
  <2>11. WorkInv'
    BY <1>3, <2>2, <2>3, <2>4, <2>6, <2>8 DEF WorkInv
  <2> QED  BY <2>8, <2>9, <2>10, <2>11 DEF IInv
<1>6. CASE ~(w.next < Len(Rows(w)))
  <2>1. PICK v : v = [w EXCEPT !.phase = "completed"]
    OBVIOUS
  <2>2. /\ progress' = v /\ (IF mem.op = "upgrade" THEN Stage("choose", NoProgress) ELSE Stop)
        /\ UNCHANGED <<current, sets, unsynced, kept, touched>>
    BY <1>2, <1>6, <2>1 DEF Intend
  <2>3. /\ v \in Progress /\ v.files = w.files /\ v.id = w.id /\ v.next = w.next /\ v.phase = "completed"
        /\ v.intent = w.intent /\ v.protect = w.protect
    BY <1>3, <2>1 DEF Progress
  <2>4. Rows(v) = Rows(w) /\ RowsOf(v) = RowsOf(w) /\ Done(v) = Done(w) /\ Row(v) = Row(w)
    BY <2>3, SameRows
  <2>5. ~w.intent /\ w.next = Len(Rows(w))
    BY <1>3, <1>4, <1>6 DEF Readable
  <2>6. Readable(v)
    BY <1>3, <2>3, <2>4, <2>5 DEF Readable
  <2>7. w.id \notin touched => Remaining(v)
    BY <1>3, <2>3, <2>4 DEF Remaining
  <2>8. unsynced = {}
    BY <1>3, <2>5 DEF IInv, UnsyncedInv
  <2>9. pc' \notin Working
    BY <2>2 DEF Stage, Stop, Working, Removing
  <2>10. /\ v # NoProgress /\ ProgressInv' /\ UnsyncedInv' /\ SetsInv' /\ KeptInv' /\ Relied(w.protect)'
    BY <1>1, <1>2, <2>2, <2>3, <2>6, <2>7, <2>8, <2>9, RecordMoves
  <2>11. WorkInv'
    BY <2>9 DEF WorkInv
  <2>12. CASE mem.op = "upgrade"
    <3>1. pc' = "choose" /\ mem' = [mem EXCEPT !.work = NoProgress]
      BY <2>2, <2>12 DEF Stage
    <3>2. /\ mem' \in Mem /\ mem'.op = "upgrade" /\ mem'.new = mem.new /\ mem'.queue = mem.queue
          /\ mem'.seen = mem.seen
      BY <1>3, <2>12, <3>1 DEF Mem
    <3>3. TypeOK'
      BY <1>3, <2>2, <2>3, <2>6, <3>1, <3>2, NullAssumption DEF TypeOK, Readable
    <3>4. PICK new : new = mem.new /\ new = w.protect
      BY <1>3, <2>12
    <3>5. Relied(new)' /\ ~Pruning'
      BY <2>2, <2>3, <2>10, <3>4 DEF Pruning
    <3>6. QueueInv'
      BY <1>1, <3>1, <3>2, <3>4, <3>5 DEF IInv, QueueInv
    <3> QED  BY <2>10, <2>11, <3>3, <3>6 DEF IInv
  <2>13. CASE mem.op # "upgrade"
    <3>1. pc' = "idle" /\ mem' = NoMem
      BY <2>2, <2>13 DEF Stop
    <3>2. TypeOK' /\ QueueInv'
      BY <1>3, <2>2, <2>3, <2>6, <3>1 DEF TypeOK, Readable, QueueInv
    <3> QED  BY <2>10, <2>11, <3>2 DEF IInv
  <2> QED  BY <2>12, <2>13
<1> QED  BY <1>5, <1>6
LEMMA SyncInv ==
  ASSUME IInv, Sync
  PROVE  IInv'
<1>1. pc = "sync" /\ pc \in Removing
  BY DEF Sync, Removing
<1>2. PICK w : w = mem.work
  OBVIOUS
<1>3. /\ TypeOK /\ mem \in Mem /\ progress = w /\ w \in Progress /\ w # NoProgress /\ Pruning
      /\ Readable(w) /\ Whole(w.files) /\ w.phase = "pruning" /\ w.id \in Known
      /\ w.protect # w.id /\ Relied(w.protect)
      /\ mem.op = "upgrade" => w.protect = mem.new
      /\ w.id \notin touched => Remaining(w)
      /\ w.intent /\ (w.id \notin touched => File(w.id, Row(w)) = 0)
  BY <1>1, <1>2, InHand
<1>4. /\ pc' = "advance" /\ unsynced' = unsynced \ {<<w.id, Row(w)>>}
      /\ UNCHANGED <<current, sets, progress, mem, kept, touched>>
  BY <1>2 DEF Sync
<1>5. TypeOK'
  BY <1>1, <1>3, <1>4 DEF TypeOK, Readable
<1>6. unsynced' = {}
  BY <1>3, <1>4 DEF IInv, UnsyncedInv
<1>7. UnsyncedInv'
  BY <1>6 DEF UnsyncedInv
<1>8. ProgressInv' /\ SetsInv'
  BY <1>4 DEF IInv, ProgressInv, SetsInv, Known, Remaining, File, Whatever, Whole
<1>9. KeptInv'
  BY <1>1, <1>4 DEF IInv, KeptInv, Known, Complete, Held, File, Working
<1>10. QueueInv'
  BY <1>1, <1>4 DEF IInv, QueueInv
<1>11. WorkInv'
  <2>1. Relied(w.protect)' /\ w.id \in Known' /\ (w.id \notin touched' => Remaining(w)' /\ File(w.id, Row(w))' = 0)
    BY <1>3, <1>4 DEF Relied, Known, Complete, Remaining, File
  <2> QED  BY <1>2, <1>3, <1>4, <1>6, <2>1 DEF WorkInv
<1> QED  BY <1>5, <1>7, <1>8, <1>9, <1>10, <1>11 DEF IInv

LEMMA AdvanceInv ==
  ASSUME IInv, Advance
  PROVE  IInv'
<1>1. pc = "advance" /\ pc \in Removing
  BY DEF Advance, Removing
<1>0. PICK v : v = [mem.work EXCEPT !.next = @ + 1, !.intent = FALSE]
  OBVIOUS
<1>2. PICK w : w = mem.work
  OBVIOUS
<1>3. /\ TypeOK /\ mem \in Mem /\ progress = w /\ w \in Progress /\ Readable(w) /\ w.phase = "pruning"
      /\ Whole(w.files) /\ w.protect # w.id /\ (mem.op = "upgrade" => w.protect = mem.new)
      /\ w.intent /\ unsynced = {}
      /\ w.id \notin touched => Remaining(w) /\ File(w.id, Row(w)) = 0
  BY <1>1, <1>2, InHand
<1>4. Len(Rows(w)) \in 0..5 /\ w.next < Len(Rows(w)) /\ w.next \in 0..5
  BY <1>3, RowsAre, PartsAre DEF Readable, Progress
<1>5. /\ progress' = v /\ pc' = "intend" /\ mem' = [mem EXCEPT !.work = v]
      /\ UNCHANGED <<current, sets, unsynced, kept, touched>>
  BY <1>0 DEF Advance, Stage
<1>6. /\ v \in Progress /\ v.files = w.files /\ v.id = w.id /\ v.next = w.next + 1 /\ v.phase = "pruning"
      /\ v.intent = FALSE /\ v.protect = w.protect
  <2>1. v = [w EXCEPT !.next = w.next + 1, !.intent = FALSE]
    BY <1>0, <1>2
  <2>2. w.next + 1 \in 0..Len(Order)
    <3>1. PICK n, m \in 0..5 : n = w.next /\ n < m
      BY <1>4
    <3>2. n + 1 \in 0..5
      BY <3>1
    <3> QED  BY <3>1, <3>2, PartsAre
  <2>3. v = [phase |-> w.phase, id |-> w.id, files |-> w.files, protect |-> w.protect,
             next |-> w.next + 1, intent |-> FALSE]
    BY <1>3, <2>1 DEF Progress
  <2>4. /\ w.phase \in {"pruning", "completed"} /\ w.id \in Ids /\ w.files \in Files
        /\ w.protect \in Ids
    BY <1>3 DEF Progress
  <2>5. v \in Progress
    BY <2>2, <2>3, <2>4 DEF Progress
  <2> QED  BY <1>3, <2>3, <2>5
<1>7. /\ mem' \in Mem /\ mem'.work = v /\ mem'.op = mem.op /\ mem'.new = mem.new
      /\ mem'.queue = mem.queue /\ mem'.seen = mem.seen
  BY <1>3, <1>5, <1>6 DEF Mem
<1>8. Rows(v) = Rows(w) /\ RowsOf(v) = RowsOf(w) /\ Done(v) = Done(w) \cup {Row(w)}
  BY <1>3, <1>4, <1>6, SameRows, NextRow
<1>9. Readable(v)
  BY <1>3, <1>4, <1>6, <1>8 DEF Readable
<1>10. w.id \notin touched => Remaining(v)
  BY <1>3, <1>6, <1>8 DEF Remaining
<1>11. /\ v # NoProgress /\ ProgressInv' /\ UnsyncedInv' /\ SetsInv' /\ KeptInv'
       /\ w.id \in Known' /\ Relied(w.protect)' /\ (w.id \notin touched' => Remaining(v)')
  BY <1>1, <1>2, <1>3, <1>5, <1>6, <1>7, <1>9, <1>10, RecordMoves
<1>12. TypeOK'
  BY <1>3, <1>5, <1>6, <1>7, <1>9, NullAssumption DEF TypeOK, Readable
<1>13. QueueInv'
  BY <1>1, <1>5, <1>7 DEF IInv, QueueInv
<1>14. WorkInv'
  BY <1>3, <1>5, <1>6, <1>7, <1>9, <1>11 DEF WorkInv
<1> QED  BY <1>11, <1>12, <1>13, <1>14 DEF IInv
\* One entry of one set changes.
ChangeFile(id, part, file) == sets' = [sets EXCEPT ![id].files[part] = file]

LEMMA OneFile ==
  ASSUME TypeOK, NEW id \in Known, NEW part \in Parts, NEW file \in 0..2,
         ChangeFile(id, part, file)
  PROVE  /\ sets' \in [Ids -> Sets \cup {NoSet}] /\ Known' = Known /\ id \in Ids
         /\ \A q \in Ids \ {id} : sets'[q] = sets[q]
         /\ sets'[id].after = sets[id].after /\ sets'[id].stray = sets[id].stray
         /\ sets'[id].forward = sets[id].forward
         /\ sets'[id].files[part] = file
         /\ \A other \in Parts \ {part} : sets'[id].files[other] = sets[id].files[other]
<1>1. id \in Ids /\ sets[id] \in Sets /\ sets \in [Ids -> Sets \cup {NoSet}]
  BY DEF TypeOK, Known
<1>2. PICK files : files = [sets[id].files EXCEPT ![part] = file]
  OBVIOUS
<1>3. sets[id].files \in Files
  BY <1>1 DEF Sets
<1>4. /\ files \in Files /\ files[part] = file
      /\ \A other \in Parts \ {part} : files[other] = sets[id].files[other]
  BY <1>2, <1>3 DEF Files
<1>5. sets' = [sets EXCEPT ![id] = [sets[id] EXCEPT !.files = files]]
  BY <1>2 DEF ChangeFile
<1>6. PICK set : set = [sets[id] EXCEPT !.files = files]
  OBVIOUS
<1>7. /\ set \in Sets /\ set.files = files /\ set.after = sets[id].after /\ set.stray = sets[id].stray
      /\ set.forward = sets[id].forward
  BY <1>1, <1>4, <1>6 DEF Sets
<1>8. sets' = [sets EXCEPT ![id] = set]
  BY <1>5, <1>6
<1>9. /\ sets' \in [Ids -> Sets \cup {NoSet}] /\ sets'[id] = set
      /\ \A q \in Ids \ {id} : sets'[q] = sets[q]
  BY <1>1, <1>7, <1>8
<1>10. Known' = Known
  BY <1>1, <1>7, <1>9, NullAssumption DEF Known
<1> QED  BY <1>1, <1>4, <1>7, <1>9, <1>10

LEMMA UnlinkInv ==
  ASSUME IInv, Unlink
  PROVE  IInv'
<1>1. pc = "unlink" /\ pc \in Removing
  BY DEF Unlink, Removing
<1>2. PICK w : w = mem.work
  OBVIOUS
<1>3. /\ TypeOK /\ mem \in Mem /\ progress = w /\ w \in Progress /\ w # NoProgress /\ Pruning
      /\ Readable(w) /\ Whole(w.files) /\ w.phase = "pruning" /\ w.id \in Known /\ w.id \in Ids
      /\ w.protect # w.id /\ Relied(w.protect)
      /\ mem.op = "upgrade" => w.protect = mem.new
      /\ w.id \notin touched => Remaining(w)
      /\ w.intent
  BY <1>1, <1>2, InHand
<1>4. PICK row : row = Row(w)
  OBVIOUS
<1>5. row \in Parts /\ row \in RowsOf(w) /\ row \notin Done(w)
  <2>1. w.next < Len(Rows(w)) /\ w.next <= Len(Rows(w))
    BY <1>3 DEF Readable
  <2> QED  BY <1>3, <1>4, <2>1, RowFacts
<1>6. UNCHANGED <<current, progress, kept, touched>>
  BY DEF Unlink
<1>7. CASE /\ sets' = [sets EXCEPT ![w.id].files[row] = 0]
           /\ unsynced' = unsynced \cup {<<w.id, row>>}
           /\ pc' = "sync" /\ UNCHANGED mem
  <2>1. /\ sets' \in [Ids -> Sets \cup {NoSet}] /\ Known' = Known
        /\ \A q \in Ids \ {w.id} : sets'[q] = sets[q]
        /\ sets'[w.id].after = sets[w.id].after /\ sets'[w.id].stray = sets[w.id].stray
        /\ sets'[w.id].files[row] = 0
        /\ \A other \in Parts \ {row} : sets'[w.id].files[other] = sets[w.id].files[other]
    <3>1. ChangeFile(w.id, row, 0) /\ 0 \in 0..2
      BY <1>7 DEF ChangeFile
    <3> QED  BY <1>3, <1>5, <3>1, OneFile
  <2>2. TypeOK'
    <3>1. unsynced' \subseteq Ids \X Parts
      BY <1>3, <1>5, <1>7 DEF TypeOK
    <3>2. pc' # "idle" /\ mem' # NoMem
      BY <1>3, <1>7, NullAssumption
    <3> QED  BY <1>3, <1>6, <1>7, <2>1, <3>1, <3>2 DEF TypeOK, Readable
  <2>3. w.id \notin touched => Remaining(w)'
    BY <1>3, <1>4, <1>5, <2>1 DEF Remaining, File
  <2>4. ProgressInv'
    BY <1>3, <1>6, <2>1, <2>3 DEF ProgressInv
  <2>5. UnsyncedInv'
    BY <1>3, <1>4, <1>6, <1>7 DEF IInv, UnsyncedInv, Pruning
  <2>6. SetsInv'
    <3>1. \A id \in Known \ touched : id # w.id => Whatever(id)' \/ sets'[id].files = Gone
      <4>1. \A id \in Known : id \in Ids
        BY DEF Known
      <4> QED  BY <1>3, <2>1, <4>1 DEF IInv, SetsInv, Whatever, File
    <3> QED  BY <1>3, <1>6, <2>1, <3>1 DEF SetsInv
  <2>7. KeptInv'
    <3>1. \A id \in kept \ touched : Complete(id) /\ Held(id) /\ id # w.id /\ id \in Ids
      BY <1>3 DEF IInv, KeptInv, Known
    <3>2. \A id \in kept \ touched : Complete(id)' /\ Held(id)'
      BY <2>1, <3>1 DEF Complete, Held, File
    <3>3. kept \subseteq Known /\ touched \subseteq Known
      BY DEF IInv, KeptInv
    <3> QED  BY <1>2, <1>3, <1>6, <1>7, <2>1, <3>1, <3>2, <3>3 DEF KeptInv
  <2>8. QueueInv'
    BY <1>1, <1>7 DEF IInv, QueueInv
  <2>9. WorkInv'
    <3>1. w.protect \in Ids \ {w.id}
      BY <1>3 DEF Progress
    <3>2. Relied(w.protect)'
      BY <1>3, <1>6, <2>1, <3>1 DEF Relied, Complete, File
    <3>3. File(w.id, Row(w))' = 0
      BY <1>4, <2>1 DEF File
    <3> QED  BY <1>2, <1>3, <1>6, <1>7, <2>1, <2>3, <3>2, <3>3 DEF WorkInv
  <2> QED  BY <2>2, <2>4, <2>5, <2>6, <2>7, <2>8, <2>9 DEF IInv
<1>8. CASE File(w.id, row) = 0 /\ pc' = "sync" /\ UNCHANGED <<sets, unsynced, mem>>
  <2>1. TypeOK'
    BY <1>1, <1>3, <1>6, <1>8 DEF TypeOK, Readable
  <2>2. ProgressInv' /\ UnsyncedInv' /\ SetsInv'
    BY <1>6, <1>8, SameSets DEF IInv
  <2>3. KeptInv'
    BY <1>1, <1>6, <1>8 DEF IInv, KeptInv, Known, Complete, Held, File, Working, Removing
  <2>4. QueueInv'
    BY <1>1, <1>8 DEF IInv, QueueInv
  <2>5. WorkInv'
    <3>1. /\ Relied(w.protect)' /\ w.id \in Known' /\ File(w.id, Row(w))' = 0
          /\ w.id \notin touched' => Remaining(w)'
      BY <1>3, <1>4, <1>6, <1>8 DEF Relied, Known, Complete, Remaining, File
    <3> QED  BY <1>2, <1>3, <1>6, <1>8, <3>1 DEF WorkInv
  <2> QED  BY <2>1, <2>2, <2>3, <2>4, <2>5 DEF IInv
<1>9. CASE Stop /\ UNCHANGED <<sets, unsynced>>
  <2>1. TypeOK'
    BY <1>3, <1>6, <1>9 DEF TypeOK, Stop, Readable
  <2>2. ProgressInv' /\ UnsyncedInv' /\ SetsInv'
    BY <1>6, <1>9, SameSets DEF IInv
  <2>3. KeptInv' /\ QueueInv' /\ WorkInv'
    BY <1>6, <1>9, NobodyWorks DEF IInv
  <2> QED  BY <2>1, <2>2, <2>3 DEF IInv
<1> QED  BY <1>2, <1>4, <1>7, <1>8, <1>9 DEF Unlink
-----------------------------------------------------------------------------
(* Around the removals.                                                     *)

LEMMA KeepInv ==
  ASSUME IInv, NEW id \in Ids, Keep(id)
  PROVE  IInv'
<1>1. /\ TypeOK /\ pc = "idle" /\ pc' = "idle" /\ ~Pruning /\ Complete(id) /\ id \in Known
      /\ kept' = kept \cup {id} /\ UNCHANGED <<current, progress, unsynced, pc, mem, touched>>
  BY DEF IInv, Keep, Complete
<1>2. /\ sets' \in [Ids -> Sets \cup {NoSet}] /\ Known' = Known
      /\ \A q \in Ids \ {id} : sets'[q] = sets[q]
      /\ sets'[id].stray = sets[id].stray /\ sets'[id].files["hold"] = 1
      /\ \A other \in Parts \ {"hold"} : sets'[id].files[other] = sets[id].files[other]
  <2>1. ChangeFile(id, "hold", 1) /\ "hold" \in Parts /\ 1 \in 0..2
    BY PartsAre DEF Keep, ChangeFile
  <2> QED  BY <1>1, <2>1, OneFile
<1>3. Complete(id)' /\ Held(id)' /\ Whatever(id) /\ Whatever(id)'
  BY <1>1, <1>2, PartsAre DEF Complete, Held, Whatever, File
<1>4. id \notin touched => ~(progress # NoProgress /\ progress.id = id)
  <2>1. SUFFICES ASSUME id \notin touched, progress # NoProgress, progress.id = id  PROVE FALSE
    OBVIOUS
  <2>2. progress.phase = "completed"
    BY <1>1, <2>1 DEF TypeOK, Progress, Pruning
  <2>3. sets[id].files = Gone
    BY <2>1, <2>2, CompletedIsGone
  <2> QED  BY <1>3, <2>3, PartsAre DEF Gone, Whatever, File
<1>5. TypeOK'
  BY <1>1, <1>2 DEF TypeOK, Readable
<1>6. ProgressInv'
  <2>1. progress # NoProgress /\ progress.id \notin touched => progress.id \in Ids \ {id}
    BY <1>4 DEF IInv, ProgressInv, Known
  <2> QED  BY <1>1, <1>2, <2>1 DEF IInv, ProgressInv, Remaining, File, Whatever
<1>7. UnsyncedInv'
  BY <1>1 DEF IInv, UnsyncedInv, Pruning
<1>8. SetsInv'
  <2>1. \A q \in Known \ touched : q # id =>
          (progress # NoProgress /\ progress.id = q) \/ Whatever(q)' \/ sets'[q].files = Gone
    <3>1. \A q \in Known : q \in Ids
      BY DEF Known
    <3> QED  BY <1>2, <3>1 DEF IInv, SetsInv, Whatever, File
  <2> QED  BY <1>1, <1>2, <1>3, <2>1 DEF SetsInv
<1>9. KeptInv'
  <2>1. \A q \in kept \ touched : q # id =>
          Complete(q)' /\ Held(q)' /\ (progress # NoProgress => progress.id # q)
    <3>1. \A q \in kept : q \in Ids
      BY DEF IInv, KeptInv, Known
    <3> QED  BY <1>2, <3>1 DEF IInv, KeptInv, Complete, Held, File
  <2>2. kept \cup {id} \subseteq Known /\ touched \subseteq Known /\ pc' \notin Working
    BY <1>1 DEF IInv, KeptInv, Working, Removing
  <2> QED  BY <1>1, <1>2, <1>3, <1>4, <2>1, <2>2 DEF KeptInv
<1>10. QueueInv' /\ WorkInv'
  BY <1>1 DEF QueueInv, WorkInv, Working, Removing
<1> QED  BY <1>5, <1>6, <1>7, <1>8, <1>9, <1>10 DEF IInv

LEMMA RollbackInv ==
  ASSUME IInv, NEW id \in Ids, Rollback(id)
  PROVE  IInv'
<1>1. /\ TypeOK /\ pc = "idle" /\ pc' = "idle" /\ id \in Known /\ sets[id] \in Sets
      /\ File(id, "assets") = 1 /\ File(id, "manifest") = 1 /\ File(id, "journal") # 0
      /\ current' = sets[id].before /\ UNCHANGED <<progress, unsynced, pc, mem, kept, touched>>
  BY DEF IInv, Rollback, Restorable, TypeOK, Known
<1>2. /\ sets' \in [Ids -> Sets \cup {NoSet}] /\ Known' = Known
      /\ \A q \in Ids \ {id} : sets'[q] = sets[q]
      /\ sets'[id].stray = sets[id].stray /\ sets'[id].files["journal"] = 2
      /\ \A other \in Parts \ {"journal"} : sets'[id].files[other] = sets[id].files[other]
  <2>1. PICK files : files = [sets[id].files EXCEPT !["journal"] = 2]
    OBVIOUS
  <2>2. sets[id].files \in Files /\ "journal" \in Parts
    BY <1>1, PartsAre DEF Sets
  <2>3. /\ files \in Files /\ files["journal"] = 2
        /\ \A other \in Parts \ {"journal"} : files[other] = sets[id].files[other]
    BY <2>1, <2>2 DEF Files
  <2>4. PICK set : set = [sets[id] EXCEPT !.forward = FALSE, !.files = files]
    OBVIOUS
  <2>5. set \in Sets /\ set.files = files /\ set.stray = sets[id].stray
    BY <1>1, <2>3, <2>4 DEF Sets
  <2>6. sets' = [sets EXCEPT ![id] = set]
    <3>1. sets' = [sets EXCEPT ![id].forward = FALSE, ![id].files["journal"] = 2]
      BY DEF Rollback
    <3>2. sets \in [Ids -> Sets \cup {NoSet}]
      BY <1>1 DEF TypeOK
    <3> QED  BY <1>1, <2>1, <2>4, <3>1, <3>2 DEF Sets
  <2>7. /\ sets' \in [Ids -> Sets \cup {NoSet}] /\ sets'[id] = set
        /\ \A q \in Ids \ {id} : sets'[q] = sets[q]
    BY <1>1, <2>5, <2>6 DEF TypeOK
  <2>8. Known' = Known
    BY <1>1, <2>5, <2>7, NullAssumption DEF Known
  <2> QED  BY <2>3, <2>5, <2>7, <2>8
<1>3. TypeOK'
  BY <1>1, <1>2 DEF TypeOK, Readable, Sets
<1>4. ASSUME progress # NoProgress, progress.id = id, id \notin touched
      PROVE  progress.next = 0 /\ Whatever(id)
  <2>1. CASE Remaining(progress)
    <3>1. PICK p \in Progress : p = progress
      BY <1>1, <1>4 DEF TypeOK
    <3>2. Readable(p) /\ Whole(p.files) /\ Remaining(p) /\ p.id = id
      BY <1>1, <1>4, <2>1, <3>1 DEF IInv, TypeOK, ProgressInv
    <3>3. p.next <= Len(Rows(p)) /\ p.files["assets"] # 0 /\ "assets" \in Parts
      BY <3>2, PartsAre DEF Readable, Whole
    <3>4. "assets" \notin Done(p)
      BY <1>1, <3>2, <3>3 DEF Remaining
    <3>5. p.next = 0 /\ Done(p) = {} /\ RowsOf(p) = {part \in Parts : p.files[part] # 0}
      BY <3>3, <3>4, RowFacts
    <3>6. Row(p) = "assets"
      BY <3>3, <3>5, RowsAre DEF Row
    <3>7. Whatever(id)
      BY <1>1, <3>2, <3>5, <3>6, PartsAre DEF Remaining, Whatever, Whole
    <3> QED  BY <3>1, <3>5, <3>7
  <2>2. CASE progress.next = 0 /\ Whatever(progress.id)
    BY <1>4, <2>2
  <2> QED  BY <1>4, <2>1, <2>2 DEF IInv, ProgressInv
<1>5. Whatever(id) => Whatever(id)'
  BY <1>2, PartsAre DEF Whatever, File
<1>6. ProgressInv'
  <2>1. CASE progress # NoProgress /\ progress.id = id
    BY <1>1, <1>2, <1>4, <1>5, <2>1 DEF IInv, ProgressInv
  <2>2. CASE progress # NoProgress /\ progress.id # id
    <3>1. progress.id \in Ids \ {id}
      BY <2>2 DEF IInv, ProgressInv, Known
    <3> QED  BY <1>1, <1>2, <2>2, <3>1 DEF IInv, ProgressInv, Remaining, File, Whatever
  <2> QED  BY <1>1, <2>1, <2>2 DEF ProgressInv
<1>7. UnsyncedInv'
  BY <1>1 DEF IInv, UnsyncedInv, Pruning
<1>8. SetsInv'
  <2>1. sets[id].files # Gone
    BY <1>1, PartsAre DEF Gone, File
  <2>2. \A q \in Known \ touched : q # id =>
          (progress # NoProgress /\ progress.id = q) \/ Whatever(q)' \/ sets'[q].files = Gone
    <3>1. \A q \in Known : q \in Ids
      BY DEF Known
    <3> QED  BY <1>2, <3>1 DEF IInv, SetsInv, Whatever, File
  <2>3. id \notin touched => (progress # NoProgress /\ progress.id = id) \/ Whatever(id)'
    BY <1>1, <1>5, <2>1 DEF IInv, SetsInv
  <2> QED  BY <1>1, <1>2, <2>2, <2>3 DEF SetsInv
<1>9. KeptInv'
  <2>1. \A q \in kept \ touched : Complete(q)' /\ Held(q)'
    <3>1. \A q \in kept : q \in Ids
      BY DEF IInv, KeptInv, Known
    <3>2. \A q \in kept \ touched : q # id => Complete(q)' /\ Held(q)'
      BY <1>2, <3>1 DEF IInv, KeptInv, Complete, Held, File
    <3>3. Complete(id) /\ Held(id) => Complete(id)' /\ Held(id)'
      BY <1>2, PartsAre DEF Complete, Held, File
    <3> QED  BY <3>2, <3>3 DEF IInv, KeptInv
  <2>2. pc' \notin Working
    BY <1>1 DEF Working, Removing
  <2> QED  BY <1>1, <1>2, <2>1, <2>2 DEF IInv, KeptInv
<1>10. QueueInv' /\ WorkInv'
  BY <1>1 DEF QueueInv, WorkInv, Working, Removing
<1> QED  BY <1>3, <1>6, <1>7, <1>8, <1>9, <1>10 DEF IInv
LEMMA TouchInv ==
  ASSUME IInv, NEW id \in Ids, Touch(id)
  PROVE  IInv'
<1>1. /\ TypeOK /\ id \in Known /\ sets[id] \in Sets
      /\ touched' = touched \cup {id} /\ unsynced' \subseteq unsynced
      /\ UNCHANGED <<current, progress, pc, mem, kept>>
  BY DEF IInv, Touch, TypeOK, Known
<1>2. /\ sets' \in [Ids -> Sets \cup {NoSet}] /\ Known' = Known
      /\ \A q \in Ids \ {id} : sets'[q] = sets[q]
      /\ sets'[id].after = sets[id].after
  <2>1. ASSUME NEW part \in {"assets", "hold"}, NEW file \in {0, 2},
               sets' = [sets EXCEPT ![id].files[part] = file]
        PROVE  /\ sets' \in [Ids -> Sets \cup {NoSet}] /\ Known' = Known
               /\ \A q \in Ids \ {id} : sets'[q] = sets[q]
               /\ sets'[id].after = sets[id].after
    <3>1. ChangeFile(id, part, file) /\ part \in Parts /\ file \in 0..2
      BY <2>1, PartsAre DEF ChangeFile
    <3> QED  BY <1>1, <3>1, OneFile
  <2>2. ASSUME sets' = [sets EXCEPT ![id].stray = TRUE]
        PROVE  /\ sets' \in [Ids -> Sets \cup {NoSet}] /\ Known' = Known
               /\ \A q \in Ids \ {id} : sets'[q] = sets[q]
               /\ sets'[id].after = sets[id].after
    <3>1. PICK set : set = [sets[id] EXCEPT !.stray = TRUE]
      OBVIOUS
    <3>2. set \in Sets /\ set.after = sets[id].after
      BY <1>1, <3>1 DEF Sets
    <3>3. /\ sets' \in [Ids -> Sets \cup {NoSet}] /\ sets'[id] = set
          /\ \A q \in Ids \ {id} : sets'[q] = sets[q]
      BY <1>1, <2>2, <3>1, <3>2 DEF TypeOK
    <3>4. Known' = Known
      BY <1>1, <3>2, <3>3, NullAssumption DEF Known
    <3> QED  BY <3>2, <3>3, <3>4
  <2>3. \/ \E part \in {"assets", "hold"} : \E file \in {0, 2} :
             sets' = [sets EXCEPT ![id].files[part] = file]
        \/ sets' = [sets EXCEPT ![id].stray = TRUE]
    BY DEF Touch
  <2> QED  BY <2>1, <2>2, <2>3
<1>3. \A q \in Known \ touched' : q \in Known \ touched /\ sets'[q] = sets[q]
  BY <1>1, <1>2 DEF Known
<1>4. TypeOK'
  BY <1>1, <1>2 DEF TypeOK, Readable
<1>5. ProgressInv'
  BY <1>1, <1>2, <1>3 DEF IInv, ProgressInv, Remaining, File, Whatever
<1>6. UnsyncedInv'
  BY <1>1 DEF IInv, UnsyncedInv, Pruning
<1>7. SetsInv'
  BY <1>1, <1>2, <1>3 DEF IInv, SetsInv, Whatever, File
<1>8. KeptInv'
  <2>1. kept \subseteq Known /\ touched' \subseteq Known
    BY <1>1 DEF IInv, KeptInv
  <2>2. ASSUME NEW q \in kept \ touched'
        PROVE  /\ Complete(q)' /\ Held(q)' /\ (progress # NoProgress => progress.id # q)
               /\ pc \in Working => mem.work.id # q
    <3>1. q \in kept \ touched /\ q \in Known /\ sets'[q] = sets[q]
      BY <1>1, <1>3, <2>1, <2>2
    <3> QED  BY <1>2, <3>1 DEF IInv, KeptInv, Complete, Held, File
  <2> QED  BY <1>1, <1>2, <2>1, <2>2 DEF KeptInv
<1>9. \A q \in Known : Relied(q) => Relied(q)'
  <2>1. ASSUME NEW q \in Known, Relied(q)
        PROVE  q \in Known' /\ sets'[q].after = current' /\ (Complete(q)' \/ q \in touched')
    <3>1. CASE q \in touched'
      <4>1. sets'[q].after = sets[q].after
        BY <1>2, <2>1 DEF Known
      <4> QED  BY <1>1, <1>2, <2>1, <3>1, <4>1 DEF Relied
    <3>2. CASE q \notin touched'
      BY <1>1, <1>2, <1>3, <2>1, <3>2 DEF Relied, Complete, File
    <3> QED  BY <3>1, <3>2
  <2> QED  BY <2>1 DEF Relied
<1>10. QueueInv'
  <2>1. PICK m, new : m = mem /\ new = mem.new
    OBVIOUS
  <2>2. pc = "choose" => Relied(new)' /\ ~Pruning'
    BY <1>1, <1>9, <2>1 DEF IInv, QueueInv, Relied, Pruning
  <2>3. pc = "finish" => new \in Known' /\ sets'[new].after = current'
    BY <1>1, <1>2, <2>1 DEF IInv, QueueInv, Known
  <2> QED  BY <1>1, <1>2, <2>1, <2>2, <2>3 DEF IInv, QueueInv
<1>11. WorkInv'
  <2>1. SUFFICES ASSUME pc \in Working  PROVE WorkInv'
    BY <1>1 DEF WorkInv
  <2>2. PICK w : w = mem.work
    OBVIOUS
  <2>3. Relied(w.protect)'
    BY <1>9, <2>1, <2>2 DEF IInv, WorkInv, Relied
  <2>4. w.id \in Known /\ (w.id \notin touched => Remaining(w))
        /\ (pc \in {"sync", "advance"} /\ w.id \notin touched => File(w.id, Row(w)) = 0)
    BY <2>1, <2>2 DEF IInv, WorkInv
  <2>5. w.id \notin touched' => Remaining(w)' /\ (pc \in {"sync", "advance"} => File(w.id, Row(w))' = 0)
    BY <1>2, <1>3, <2>4 DEF Remaining, File
  <2>6. pc = "advance" => unsynced' = {}
    BY <1>1, <2>1 DEF IInv, WorkInv
  <2> QED  BY <1>1, <1>2, <2>1, <2>2, <2>3, <2>4, <2>5, <2>6 DEF IInv, WorkInv, Pruning
<1> QED  BY <1>4, <1>5, <1>6, <1>7, <1>8, <1>10, <1>11 DEF IInv

LEMMA PowerLossInv ==
  ASSUME IInv, PowerLoss
  PROVE  IInv'
<1>1. TypeOK /\ unsynced # {} /\ unsynced' = {} /\ Stop /\ UNCHANGED <<current, progress, kept, touched>>
  BY DEF IInv, PowerLoss
<1>2. PICK p, row : p = progress /\ row = Row(p)
  OBVIOUS
<1>3. unsynced \subseteq {<<p.id, row>>} /\ Pruning /\ p.intent
  BY <1>1, <1>2 DEF IInv, UnsyncedInv
<1>4. p \in Progress /\ Readable(p) /\ p # NoProgress /\ p.id \in Known /\ Whole(p.files) /\ p.files \in Files
  BY <1>1, <1>2, <1>3 DEF IInv, TypeOK, ProgressInv, Pruning, Progress
<1>5. row \in Parts /\ row \in RowsOf(p) /\ row \notin Done(p) /\ p.files[row] # 0
  <2>1. p.next < Len(Rows(p)) /\ p.next <= Len(Rows(p))
    BY <1>3, <1>4 DEF Readable
  <2> QED  BY <1>2, <1>4, <2>1, RowFacts
<1>6. /\ sets' \in [Ids -> Sets \cup {NoSet}] /\ Known' = Known
      /\ \A q \in Ids \ {p.id} : sets'[q] = sets[q]
      /\ sets'[p.id].stray = sets[p.id].stray
      /\ sets'[p.id].files[row] \in {sets[p.id].files[row], p.files[row]}
      /\ \A other \in Parts \ {row} : sets'[p.id].files[other] = sets[p.id].files[other]
  <2>1. PICK back \in SUBSET unsynced :
          sets' = [id \in Ids |-> IF id \notin Known THEN NoSet ELSE
            [sets[id] EXCEPT !.files = [part \in Parts |->
               IF <<id, part>> \in back THEN p.files[part] ELSE sets[id].files[part]]]]
    BY <1>2 DEF PowerLoss
  <2>2. \A id \in Ids, part \in Parts : <<id, part>> \in back => id = p.id /\ part = row
    BY <1>3
  <2>3. ASSUME NEW id \in Ids, id \notin Known
        PROVE  sets'[id] = sets[id] /\ sets'[id] = NoSet
    BY <2>1, <2>3 DEF Known
  <2>4. ASSUME NEW id \in Known
        PROVE  /\ sets'[id] \in Sets /\ sets'[id].stray = sets[id].stray
               /\ \A part \in Parts : sets'[id].files[part] =
                    IF <<id, part>> \in back THEN p.files[part] ELSE sets[id].files[part]
               /\ id # p.id => sets'[id] = sets[id]
    <3>1. id \in Ids /\ sets[id] \in Sets /\ sets[id].files \in Files
      BY <1>1 DEF Known, TypeOK, Sets
    <3>2. PICK files : files = [part \in Parts |->
                         IF <<id, part>> \in back THEN p.files[part] ELSE sets[id].files[part]]
      OBVIOUS
    <3>3. files \in Files
      BY <1>4, <3>1, <3>2 DEF Files
    <3>4. sets'[id] = [sets[id] EXCEPT !.files = files]
      BY <2>1, <3>1, <3>2
    <3>5. sets'[id] \in Sets /\ sets'[id].stray = sets[id].stray /\ sets'[id].files = files
      BY <3>1, <3>3, <3>4 DEF Sets
    <3>6. ASSUME id # p.id  PROVE sets'[id] = sets[id]
      <4>1. files = sets[id].files
        BY <2>2, <3>1, <3>2, <3>6 DEF Files
      <4> QED  BY <3>1, <3>4, <4>1 DEF Sets
    <3> QED  BY <3>2, <3>5, <3>6
  <2>5. \A id \in Ids : sets'[id] \in Sets \cup {NoSet} /\ (id \in Known <=> sets'[id] # NoSet)
    BY <2>3, <2>4, NullAssumption
  <2>6. sets' \in [Ids -> Sets \cup {NoSet}] /\ Known' = Known
    <3>1. sets' = [id \in Ids |-> sets'[id]]
      BY <2>1
    <3> QED  BY <2>5, <3>1 DEF Known
  <2>7. \A q \in Ids \ {p.id} : sets'[q] = sets[q]
    BY <2>3, <2>4
  <2> QED  BY <1>4, <1>5, <2>2, <2>4, <2>6, <2>7 DEF Known
<1>7. TypeOK'
  BY <1>1, <1>6 DEF TypeOK, Stop, Readable
<1>8. ProgressInv'
  <2>1. p.id \notin touched => Remaining(p) \/ (p.next = 0 /\ Whatever(p.id))
    BY <1>2, <1>4 DEF IInv, ProgressInv
  <2>2. Remaining(p) => Remaining(p)'
    BY <1>5, <1>6 DEF Remaining, File
  <2>3. Whatever(p.id) => Whatever(p.id)'
    BY <1>5, <1>6 DEF Whatever, File
  <2> QED  BY <1>1, <1>2, <1>4, <1>6, <2>1, <2>2, <2>3 DEF ProgressInv
<1>9. UnsyncedInv'
  BY <1>1 DEF UnsyncedInv
<1>10. SetsInv'
  <2>1. \A q \in Known : q \in Ids
    BY DEF Known
  <2> QED  BY <1>1, <1>2, <1>4, <1>6, <2>1 DEF IInv, SetsInv, Whatever, File
<1>11. KeptInv'
  <2>1. \A q \in kept \ touched : q \in Ids \ {p.id} /\ Complete(q) /\ Held(q)
    BY <1>2, <1>4 DEF IInv, KeptInv, Known
  <2>2. \A q \in kept \ touched : Complete(q)' /\ Held(q)'
    BY <1>6, <2>1 DEF Complete, Held, File
  <2>3. pc' \notin Working
    BY <1>1 DEF Stop, Working, Removing
  <2> QED  BY <1>1, <1>2, <1>6, <2>1, <2>2, <2>3 DEF IInv, KeptInv
<1>12. QueueInv' /\ WorkInv'
  BY <1>1 DEF Stop, QueueInv, WorkInv, Working, Removing
<1> QED  BY <1>7, <1>8, <1>9, <1>10, <1>11, <1>12 DEF IInv
LEMMA NextInv ==
  ASSUME IInv, [Next]_vars
  PROVE  IInv'
<1>1. ASSUME NEW r \in Releases, BeginUpgrade(r)  PROVE IInv'
  BY <1>1, BeginUpgradeInv
<1>2. CASE Install \/ Finish \/ Choose
  BY <1>2, InstallInv, FinishInv, ChooseInv
<1>3. ASSUME NEW id \in Ids, BeginPrune(id) \/ Keep(id) \/ Rollback(id) \/ Touch(id)  PROVE IInv'
  BY <1>3, BeginPruneInv, KeepInv, RollbackInv, TouchInv
<1>4. CASE Record \/ Intend \/ Unlink \/ Sync \/ Advance
  BY <1>4, RecordInv, IntendInv, UnlinkInv, SyncInv, AdvanceInv
<1>5. CASE Abort \/ PowerLoss
  BY <1>5, AbortInv, PowerLossInv
<1>6. CASE UNCHANGED vars
  <2>1. TypeOK'
    BY <1>6 DEF IInv, TypeOK, vars, Readable
  <2>2. ProgressInv' /\ UnsyncedInv' /\ SetsInv'
    BY <1>6, SameSets DEF IInv, vars
  <2>3. KeptInv'
    BY <1>6 DEF IInv, KeptInv, vars, Known, Complete, Held, File
  <2>4. QueueInv'
    BY <1>6 DEF IInv, QueueInv, vars, Relied, Known, Complete, File, Pruning
  <2>5. WorkInv'
    BY <1>6 DEF IInv, WorkInv, vars, Relied, Known, Complete, Remaining, File, Pruning
  <2> QED  BY <2>1, <2>2, <2>3, <2>4, <2>5 DEF IInv
<1> QED  BY <1>1, <1>2, <1>3, <1>4, <1>5, <1>6 DEF Next

-----------------------------------------------------------------------------
\* The inductive invariant holds in every reachable state: what retention_prune.go and
\* retention_controls.go keep true of the sets, of the record and of each other.
THEOREM Invariant == Spec => []IInv
BY InitInv, NextInv, PTL DEF Spec

\* Every variable keeps its type, and every progress record a removal leaves is one that
\* readRetentionProgress accepts (retention_prune.go:155), for any number of releases
\* and sets.
THEOREM TypeCorrect == Spec => []TypeOK
<1>1. IInv => TypeOK
  BY DEF IInv
<1> QED  BY <1>1, Invariant, PTL

LEMMA RecordsAgree == IInv => RecordsAreTrue
<1> SUFFICES ASSUME IInv, NEW id \in Known \ touched
             PROVE  /\ id \in kept => Complete(id) /\ Held(id)
                    /\ \/ \A part \in Parts \ {"hold"} : File(id, part) # 0
                       \/ sets[id].files = Gone
                       \/ progress # NoProgress /\ progress.id = id /\ Remaining(progress)
                    /\ progress # NoProgress /\ progress.id = id =>
                         \A part \in Done(progress) : File(id, part) = 0
  BY DEF RecordsAreTrue
<1>1. id \in kept => Complete(id) /\ Held(id)
  BY DEF IInv, KeptInv
<1>2. CASE progress # NoProgress /\ progress.id = id
  <2>1. PICK p \in Progress : p = progress
    BY <1>2 DEF IInv, TypeOK
  <2>2. Readable(p) /\ p.id = id /\ (Remaining(p) \/ (p.next = 0 /\ Whatever(id)))
    BY <1>2, <2>1 DEF IInv, TypeOK, ProgressInv
  <2>3. /\ RowsOf(p) = {part \in Parts : p.files[part] # 0} /\ Done(p) \subseteq RowsOf(p)
        /\ p.next = 0 => Done(p) = {}
    BY <2>2, RowFacts DEF Readable
  <2>4. \A part \in Done(p) : File(id, part) = 0
    BY <2>2, <2>3 DEF Remaining
  <2> QED  BY <1>1, <1>2, <2>1, <2>2, <2>4 DEF Whatever
<1>3. CASE ~(progress # NoProgress /\ progress.id = id)
  BY <1>1, <1>3 DEF IInv, SetsInv, Whatever
<1> QED  BY <1>2, <1>3

\* Through crashes, failed calls and power losses, and whatever is installed or held
\* meanwhile: a held set is whole, only the removal on record explains what is missing
\* from a set, and what it calls removed is gone (retention_prune.go:202-286), for any
\* number of releases and sets.
THEOREM RecordsTrue == Spec => []RecordsAreTrue
BY RecordsAgree, Invariant, PTL

-----------------------------------------------------------------------------
(* What is left to go back with.                                            *)

\* Between the installations a set keeps its releases and its direction.
LEMMA Steady ==
  ASSUME IInv, Unlink \/ \E id \in Ids : Touch(id)
  PROVE  /\ current' = current /\ Known' = Known
         /\ \A q \in Known : sets'[q].after = sets[q].after /\ sets'[q].forward = sets[q].forward
<1>1. TypeOK /\ current' = current
  BY DEF IInv, Unlink, Touch
<1>2. ASSUME NEW id \in Known, NEW part \in Parts, NEW file \in 0..2, ChangeFile(id, part, file)
      PROVE  /\ Known' = Known
             /\ \A q \in Known : sets'[q].after = sets[q].after /\ sets'[q].forward = sets[q].forward
  BY <1>1, <1>2, OneFile DEF Known
<1>3. CASE Unlink
  <2>1. PICK w, row : w = mem.work /\ row = Row(w)
    OBVIOUS
  <2>2. pc = "unlink" /\ pc \in Removing
    BY <1>3 DEF Unlink, Removing
  <2>3. w \in Progress /\ Readable(w) /\ w.intent /\ w.id \in Known
    BY <2>1, <2>2, InHand
  <2>4. row \in Parts
    <3>1. w.next < Len(Rows(w)) /\ w.next <= Len(Rows(w))
      BY <2>3 DEF Readable
    <3> QED  BY <2>1, <2>3, <3>1, RowFacts
  <2>5. sets' = sets \/ ChangeFile(w.id, row, 0)
    BY <1>3, <2>1 DEF Unlink, ChangeFile
  <2> QED  BY <1>1, <1>2, <2>3, <2>4, <2>5 DEF Known
<1>4. ASSUME NEW id \in Ids, Touch(id)
      PROVE  /\ Known' = Known
             /\ \A q \in Known : sets'[q].after = sets[q].after /\ sets'[q].forward = sets[q].forward
  <2>1. id \in Known /\ sets[id] \in Sets
    BY <1>1, <1>4 DEF Touch, Known, TypeOK
  <2>2. ASSUME NEW part \in {"assets", "hold"}, NEW file \in {0, 2},
               sets' = [sets EXCEPT ![id].files[part] = file]
        PROVE  ChangeFile(id, part, file) /\ part \in Parts /\ file \in 0..2
    BY <2>2, PartsAre DEF ChangeFile
  <2>3. CASE sets' = [sets EXCEPT ![id].stray = TRUE]
    <3>1. PICK set : set = [sets[id] EXCEPT !.stray = TRUE]
      OBVIOUS
    <3>2. set \in Sets /\ set.after = sets[id].after /\ set.forward = sets[id].forward
      BY <2>1, <3>1 DEF Sets
    <3>3. sets'[id] = set /\ \A q \in Ids \ {id} : sets'[q] = sets[q]
      BY <1>1, <1>4, <2>3, <3>1 DEF TypeOK
    <3> QED  BY <1>4, <2>1, <3>2, <3>3, NullAssumption DEF Known
  <2>4. \/ \E part \in {"assets", "hold"} : \E file \in {0, 2} :
             sets' = [sets EXCEPT ![id].files[part] = file]
        \/ sets' = [sets EXCEPT ![id].stray = TRUE]
    BY <1>4 DEF Touch
  <2> QED  BY <1>2, <2>1, <2>2, <2>3, <2>4
<1> QED  BY <1>1, <1>3, <1>4

\* A step of the command in hand, or of the user, leaves what was chosen as it is.
LEMMA AwayStays ==
  ASSUME IInv, AwayInv, current' = current, Known \subseteq Known',
         \A q \in Known : sets'[q].after = sets[q].after /\ sets'[q].forward = sets[q].forward,
         pc \in {"finish", "choose"} \cup Working, pc' # "install",
         mem'.queue \subseteq mem.queue, mem'.seen = mem.seen, mem'.op = mem.op, mem'.new = mem.new,
         pc' \in Working =>
           mem'.work.id \in Known /\ sets[mem'.work.id].after # current
  PROVE  AwayInv'
<1>1. /\ \A id \in mem.queue : mem.seen[id].after # current
      /\ mem.op = "upgrade" =>
           mem.new \in Known /\ sets[mem.new].forward /\ sets[mem.new].after = current
  BY DEF AwayInv
<1>2. \A id \in mem'.queue : mem'.seen[id].after # current'
  BY <1>1
<1>3. mem'.op = "upgrade" =>
        mem'.new \in Known' /\ sets'[mem'.new].forward /\ sets'[mem'.new].after = current'
  BY <1>1
<1>4. pc' \in Working => sets'[mem'.work.id].after # current'
  OBVIOUS
<1> QED  BY <1>2, <1>3, <1>4 DEF AwayInv

\* Every step keeps it: an upgrade that removes sets is to a later release, a prune on
\* request refuses the current one.
LEMMA AwaySteps == IInv /\ AwayInv /\ [Next]_vars => AwayInv'
<1> SUFFICES ASSUME IInv, AwayInv, [Next]_vars  PROVE AwayInv'
  OBVIOUS
<1>1. TypeOK /\ (pc # "idle" => mem \in Mem)
  BY DEF IInv, TypeOK
<1>2. CASE pc' = "idle"
  BY <1>2 DEF AwayInv, Working, Removing
<1>3. ASSUME NEW r \in Releases, BeginUpgrade(r)  PROVE AwayInv'
  <2>1. pc' = "install" /\ mem'.release = r /\ mem'.queue = {id \in Ids : Eligible(id, r)}
    BY <1>3 DEF BeginUpgrade
  <2>2. ASSUME NEW id \in mem'.queue  PROVE mem'.seen[id].after # r
    <3>1. id \in Ids /\ Eligible(id, r) /\ mem'.seen[id] = sets[id]
      BY <1>3, <2>1, <2>2 DEF BeginUpgrade
    <3>2. sets[id].after \in Nat /\ current \in Nat /\ r \in Nat
      BY <1>1, <3>1, ReleasesAssumption DEF Eligible, Complete, Known, TypeOK, Sets
    <3> QED  BY <3>1, <3>2 DEF Eligible, Advances
  <2> QED  BY <2>1, <2>2 DEF AwayInv, Working, Removing
<1>4. CASE Install
  <2>1. SUFFICES ASSUME pc' # "idle"  PROVE AwayInv'
    BY <1>2
  <2>2. /\ pc = "install" /\ pc' = "finish" /\ mem' = mem /\ current' = mem.release
        /\ sets' = [sets EXCEPT ![mem.new] =
             [before |-> current, after |-> mem.release, forward |-> TRUE,
              stray |-> FALSE, files |-> NewFiles]]
    BY <1>4, <2>1 DEF Install, Stop
  <2>3. mem.new \in Ids /\ mem.release \in Releases
    BY <1>1, <2>2 DEF Mem
  <2>4. sets'[mem.new] = [before |-> current, after |-> mem.release, forward |-> TRUE,
                          stray |-> FALSE, files |-> NewFiles]
    BY <1>1, <2>2, <2>3 DEF TypeOK
  <2>5. sets'[mem.new] \in Sets
    <3>1. NewFiles \in Files
      BY PartsAre DEF NewFiles, Files
    <3> QED  BY <1>1, <2>3, <2>4, <3>1 DEF Sets, TypeOK
  <2>6. mem.new \in Known'
    BY <2>3, <2>5, NullAssumption DEF Known
  <2>7. \A id \in mem.queue : mem.seen[id].after # mem.release
    BY <2>2 DEF AwayInv
  <2> QED  BY <2>2, <2>4, <2>6, <2>7 DEF AwayInv, Working, Removing
<1>5. CASE Finish /\ pc' # "idle"
  <2>1. pc = "finish" /\ pc' = "choose" /\ UNCHANGED <<mem, current, sets>>
    BY <1>5 DEF Finish, Stop
  <2> QED  BY <2>1, AwayStays DEF Known, Working, Removing
<1>6. CASE Choose /\ pc' # "idle"
  <2>1. PICK id : id = First(mem.queue)
    OBVIOUS
  <2>2. /\ pc = "choose" /\ pc' = "record" /\ mem.queue # {} /\ sets[id] = mem.seen[id]
        /\ mem' = [mem EXCEPT !.queue = @ \ {id}, !.work = Selected(id, mem.new)]
        /\ UNCHANGED <<current, sets>>
    BY <1>6, <2>1 DEF Choose, Stop
  <2>3. mem \in Mem /\ mem.queue \subseteq Ids
    BY <1>1, <2>2 DEF Mem
  <2>4. id \in mem.queue /\ id \in Ids
    BY <2>1, <2>2, <2>3, FirstIsIn
  <2>5. id \in Known
    <3>1. sets[id] \in Sets
      BY <2>2, <2>4 DEF IInv, QueueInv
    <3> QED  BY <2>4, <3>1, NullAssumption DEF Known
  <2>6. /\ mem'.queue = mem.queue \ {id} /\ mem'.seen = mem.seen /\ mem'.op = mem.op
        /\ mem'.new = mem.new /\ mem'.work.id = id
    BY <2>2, <2>3 DEF Mem, Selected
  <2>7. sets[id].after # current
    BY <2>2, <2>4 DEF AwayInv
  <2> QED  BY <2>2, <2>5, <2>6, <2>7, AwayStays DEF Known
<1>7. ASSUME NEW id \in Ids, BeginPrune(id)  PROVE AwayInv'
  <2>1. /\ pc' = "record" /\ mem'.op = "prune" /\ mem'.queue = {} /\ UNCHANGED <<current, sets>>
        /\ mem'.work.id = id
    <3>1. ASSUME NEW w0, NEW q  PROVE [w0 EXCEPT !.protect = q].id = w0.id
      OBVIOUS
    <3>2. Selected(id, id).id = id
      BY DEF Selected
    <3> QED  BY <1>7, <3>1, <3>2 DEF BeginPrune
  <2>2. sets[id].after # current
    BY <1>7 DEF BeginPrune, Older
  <2> QED  BY <2>1, <2>2 DEF AwayInv, Working, Removing
<1>8. CASE (Record \/ Intend \/ Sync \/ Advance) /\ pc' # "idle"
  <2>1. PICK w : w = mem.work
    OBVIOUS
  <2>2. /\ pc \in Working /\ w \in Progress /\ w.id \in Known /\ mem \in Mem
    <3>1. pc \in Working
      BY <1>8 DEF Record, Intend, Sync, Advance, Working, Removing
    <3> QED  BY <1>1, <2>1, <3>1 DEF IInv, WorkInv, Working, Removing
  <2>3. /\ UNCHANGED <<current, sets>> /\ pc' # "install"
        /\ mem'.queue = mem.queue /\ mem'.seen = mem.seen /\ mem'.op = mem.op /\ mem'.new = mem.new
    BY <1>8, <2>2 DEF Record, Intend, Sync, Advance, Stage, Stop, Mem
  <2>4. ASSUME pc' \in Working  PROVE mem'.work.id = w.id
    <3>1. CASE Record \/ Sync
      BY <2>1, <2>2, <3>1 DEF Record, Sync, Stage, Mem
    <3>2. CASE Intend
      <4>1. mem' = [mem EXCEPT !.was = w.intent, !.work.intent = TRUE]
        BY <2>1, <2>4, <3>2 DEF Intend, Stage, Stop, Working, Removing
      <4>2. [w EXCEPT !.intent = TRUE].id = w.id
        BY <2>2 DEF Progress
      <4>3. mem'.work = [w EXCEPT !.intent = TRUE]
        BY <2>1, <2>2, <4>1 DEF Mem
      <4> QED  BY <4>2, <4>3
    <3>3. CASE Advance
      <4>1. PICK v : v = [w EXCEPT !.next = @ + 1, !.intent = FALSE]
        OBVIOUS
      <4>2. mem' = [mem EXCEPT !.work = v]
        BY <2>1, <3>3, <4>1 DEF Advance, Stage
      <4>3. v.id = w.id
        BY <2>2, <4>1 DEF Progress
      <4> QED  BY <2>2, <4>2, <4>3 DEF Mem
    <3> QED  BY <1>8, <3>1, <3>2, <3>3
  <2>5. sets[w.id].after # current
    BY <2>1, <2>2 DEF AwayInv
  <2> QED  BY <2>2, <2>3, <2>4, <2>5, AwayStays DEF Known
<1>9. CASE (Unlink \/ \E id \in Ids : Touch(id)) /\ pc' # "idle"
  <2>1. /\ current' = current /\ Known' = Known
        /\ \A q \in Known : sets'[q].after = sets[q].after /\ sets'[q].forward = sets[q].forward
    BY <1>9, Steady
  <2>2. mem' = mem /\ (pc' = pc \/ (pc = "unlink" /\ pc' = "sync"))
    BY <1>9 DEF Unlink, Touch, Stop
  <2>3. CASE pc \in {"finish", "choose"} \cup Working
    <3>1. pc' \in Working => pc \in Working
      BY <2>2 DEF Working, Removing
    <3>2. pc \in Working => mem.work.id \in Known /\ sets[mem.work.id].after # current
      BY DEF IInv, WorkInv, AwayInv
    <3>3. pc' # "install"
      BY <2>2, <2>3 DEF Working, Removing
    <3> QED  BY <2>1, <2>2, <2>3, <3>1, <3>2, <3>3, AwayStays
  <2>4. CASE pc \notin {"finish", "choose"} \cup Working
    BY <2>2, <2>4 DEF AwayInv, Working, Removing
  <2> QED  BY <2>3, <2>4
<1>10. CASE UNCHANGED vars
  BY <1>10 DEF vars, AwayInv, Known
<1>11. ASSUME pc' # "idle", \E id \in Ids : Keep(id) \/ Rollback(id)  PROVE FALSE
  BY <1>11 DEF Keep, Rollback
<1>12. ASSUME pc' # "idle", Abort \/ PowerLoss  PROVE FALSE
  BY <1>12 DEF Abort, PowerLoss, Stop
<1> QED
  BY <1>2, <1>3, <1>4, <1>5, <1>6, <1>7, <1>8, <1>9, <1>10, <1>11, <1>12 DEF Next

\* A removal takes nothing from a set that a rollback from the installed release would
\* accept, and an upgrade removes nothing while its own set would not be accepted,
\* unless the user touched it (retention_controls.go:300-305, retention_plan.go:96-108,
\* 280-336), for any number of releases and sets.
THEOREM RecoveryStays == Spec => RecoveryRemains
<1>1. Init => AwayInv
  BY DEF Init, AwayInv, Working, Removing
<1>2. IInv /\ AwayInv /\ [Next]_vars =>
        [pc = "unlink" /\ pc' = "sync" /\ sets' # sets =>
           /\ \A q \in Known : Restorable(q) => Restorable(q)'
           /\ mem.op = "upgrade" => mem.new \in touched \/ Restorable(mem.new)']_vars
  <2> SUFFICES ASSUME IInv, AwayInv, [Next]_vars, pc = "unlink", pc' = "sync", sets' # sets
               PROVE  /\ \A q \in Known : Restorable(q) => Restorable(q)'
                      /\ mem.op = "upgrade" => mem.new \in touched \/ Restorable(mem.new)'
    OBVIOUS
  <2>1. Unlink
    BY DEF Next, vars, BeginUpgrade, Install, Finish, Choose, BeginPrune, Keep, Rollback, Touch,
           Record, Intend, Sync, Advance, Abort, PowerLoss, Stop
  <2>2. PICK w, row : w = mem.work /\ row = Row(w)
    OBVIOUS
  <2>3. pc \in Removing
    BY DEF Removing
  <2>4. /\ TypeOK /\ w \in Progress /\ Readable(w) /\ w.intent /\ w.id \in Known
        /\ w.protect # w.id /\ Relied(w.protect) /\ (mem.op = "upgrade" => w.protect = mem.new)
    BY <2>2, <2>3, InHand
  <2>5. /\ sets[w.id].after # current
        /\ mem.op = "upgrade" => sets[mem.new].forward /\ sets[mem.new].after = current
    BY <2>2, <2>3 DEF AwayInv, Working
  <2>6. row \in Parts
    <3>1. w.next < Len(Rows(w)) /\ w.next <= Len(Rows(w))
      BY <2>4 DEF Readable
    <3> QED  BY <2>2, <2>4, <3>1, RowFacts
  <2>7. ChangeFile(w.id, row, 0) /\ current' = current
    BY <2>1, <2>2 DEF Unlink, ChangeFile
  <2>8. Known' = Known /\ \A q \in Known \ {w.id} : sets'[q] = sets[q]
    BY <2>4, <2>6, <2>7, OneFile DEF Known
  <2>9. \A q \in Known : Restorable(q) => Restorable(q)'
    BY <2>5, <2>7, <2>8 DEF Restorable, File
  <2>10. ASSUME mem.op = "upgrade"  PROVE mem.new \in touched \/ Restorable(mem.new)'
    <3>1. mem.new \in touched \/ Restorable(mem.new)
      BY <2>4, <2>5, <2>10 DEF Relied, Complete, Restorable
    <3>2. mem.new \in Known
      BY <2>4, <2>10 DEF Relied
    <3>3. mem' = mem
      BY <2>1 DEF Unlink, Stop
    <3>4. PICK new : new = mem.new
      OBVIOUS
    <3>5. new \in touched \/ Restorable(new)'
      BY <2>9, <3>1, <3>2, <3>4
    <3> QED  BY <3>3, <3>4, <3>5 DEF Restorable, File
  <2> QED  BY <2>9, <2>10
<1>3. AwayInv /\ IInv /\ [Next]_vars => AwayInv'
  BY AwaySteps
<1> QED  BY <1>1, <1>2, <1>3, Invariant, PTL DEF Spec, RecoveryRemains
=============================================================================
