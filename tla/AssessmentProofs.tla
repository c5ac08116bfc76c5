-------------------------- MODULE AssessmentProofs --------------------------
(***************************************************************************)
(* Proofs about Assessment for every number of failures, power failures    *)
(* and edits: its types and the validity of every record, that the barrier *)
(* outlasts doubt, that an interruption can be resolved, that it is        *)
(* resolved as proposed, and that what is settled stays.                   *)
(***************************************************************************)
EXTENDS Assessment, TLAPS

Opening == {"open", "recover", "plain_open"}

\* A record the code has written: valid, and about files that can be told apart.
Sound(r) ==
  /\ Valid(r)
  /\ r.original.image = "before"
  /\ r.candidate # None => r.candidate.inode # r.original.inode
  /\ r.phase = "restored" => r.restored # r.original /\ r.restored.image = "before"

\* What is on disk can be read; once it may hold an outcome, so does the name.
RecordInv ==
  \A r \in disk.record : Recorded(r) =>
    /\ Sound(r)
    /\ r.phase \in Terminal => Recorded(now.record) /\ now.record.phase = r.phase

\* A record tells where its handle is.
Fits(r, g) ==
  /\ Sound(r) /\ r.original = g.original
  /\ r.phase = "prepared" => g.own.leaf = g.original /\ g.direction # "forward"
  /\ r.phase = "forward_prepared" => g.own.leaf = g.original \/ g.own.leaf.image = "after"
  /\ r.phase = "forward_published" => g.own.leaf.image = "after"
  /\ r.phase = "forward_completed" => g.own.leaf.image = "after" /\ g.direction = "forward"
  /\ r.phase = "reverse_prepared" => g.own.leaf # g.original /\ g.direction = "reverse"
  /\ r.phase = "restored" =>
       g.own.leaf # g.original /\ g.own.leaf.image = "before" /\ g.direction = "reverse"
  /\ r.phase = "aborted" => g.own.leaf = g.original /\ g.direction = "reverse"

NoTry == [leaf |-> None, record |-> None]

\* What a handle takes to be in the record.
Knows(g) ==
  /\ Fits(g.record, g)
  /\ g.own.record \in Records
  /\ g.own.record = [g.record EXCEPT !.forward = g.own.record.forward]
  /\ g.direction = None /\ ~g.used => g.record.phase = "prepared"

\* The call at work is one the handle allows.
CallInv ==
  h # None =>
    /\ h.granted <=> call \notin Opening
    /\ call \in {"open", "recover", "apply", "finish", "restore"} => h.durable
    /\ call \in {"plain_open", "plain_apply", "plain_restore"} => ~h.durable
    /\ call = "recover" => h.direction # None
    /\ h.own.leaf.image \in {"before", "after"}
    /\ h.own.leaf.image = "before" => h.direction # "forward"
    /\ ~h.durable => /\ h.direction # "forward"
                     /\ h.try.leaf # None => h.try.leaf.image \in {"before", "after"}

OpenInv ==
  call = "open" =>
    /\ h.direction = None /\ ~h.used /\ h.stage = None /\ h.consent = None
    /\ h.try = NoTry
    /\ h.own.leaf = h.original /\ h.original.image = "before"
    /\ at <= 3 => h.own.record = None
    /\ at = 4 => h.own.record = Blank
    /\ at >= 5 => Fits(h.record, h) /\ h.record.phase = "prepared" /\ h.own.record = h.record

\* ... and what it has left in doubt.
JournalInv ==
  h # None /\ h.durable /\ call # "open" =>
    /\ Knows(h)
    /\ h.try.record # None => Fits(h.try.record, h) /\ h.try.leaf = None
    /\ h.try.leaf # None =>
         /\ h.stage # None /\ h.try.leaf = Renamed(h.stage)
         /\ h.stage.inode # h.original.inode
         /\ \/ h.stage.image = "after" /\ h.own.leaf = h.original
               /\ h.record.phase = "forward_prepared"
            \/ h.stage.image = "before" /\ h.own.leaf.image = "after"
               /\ h.record.phase = "reverse_prepared"
    /\ h.direction = None /\ ~h.used => h.try = NoTry

\* A sibling that is about to take the name.
StagedAs(image) ==
  /\ h.stage # None /\ h.stage.image = image /\ ~h.stage.moved
  /\ h.stage.inode # h.original.inode

ApplyInv ==
  call = "apply" =>
    /\ h.used /\ h.direction = None /\ h.try = NoTry
    /\ at <= 2 => h.record.phase = "prepared"
    /\ at \in 2..4 => StagedAs("after") /\ h.own.leaf = h.original
    /\ at \in 3..4 => /\ h.record.forward = h.stage /\ h.record.candidate = h.stage
                      /\ h.own.record.forward = h.stage
    /\ at \in 3..6 => h.record.phase = "forward_prepared"
    /\ at >= 5 => h.own.leaf.image = "after"

FinishInv ==
  call = "finish" =>
    /\ h.direction = "forward" /\ h.try = NoTry
    /\ h.own.leaf.image = "after"

RestoreInv ==
  call = "restore" =>
    /\ h.direction = "reverse" /\ h.try = NoTry
    /\ at <= 4 => h.own.leaf.image = "after"
    /\ at \in 2..4 => StagedAs("before")
    /\ at \in 3..4 => h.record.phase = "reverse_prepared" /\ h.record.candidate = h.stage
    /\ at >= 5 => h.own.leaf.image = "before"

PlainInv ==
  call \in {"plain_apply", "plain_restore"} /\ at = 2 =>
    h.stage # None /\ h.stage.image = (IF call = "plain_apply" THEN "after" ELSE "before")

\* The last look holds until the rename.
QuiescentInv == Quiescent => now.leaf = h.own.leaf

\* A recovery goes the way that was consented to, or has gone back already.
ConsentInv ==
  h # None /\ h.consent # None =>
    /\ h.durable /\ h.used /\ h.direction # None
    /\ \/ h.own.leaf = h.consent.leaf /\ h.direction = h.consent.direction
       \/ h.direction = "reverse" /\ h.stage # None /\ h.stage.image = "before"
          /\ SamePrepared(h.own.leaf, h.stage)
    /\ h.try.leaf # None => h.direction = "reverse" /\ h.stage.image = "before"

-----------------------------------------------------------------------------
\* Without edits, and without a publication that has no record.
Quiet == edits = 0 /\ ~legacy

\* A forward image under its name, as a later reversal remembers it.
Remembered(r, leaf) == r.forward # None /\ (r.forward = leaf \/ ~r.forward.moved)

\* What a power failure may leave: a record, and a file it explains.
Explained(r, leaf) ==
  IF ~Recorded(r) THEN r # Foreign /\ leaf.image = "before"
  ELSE \/ /\ leaf.image = "before"
          /\ \/ r.phase \in {"prepared", "forward_prepared", "aborted"} /\ leaf = r.original
             \/ r.phase = "reverse_prepared" /\ (leaf = r.original \/ SamePrepared(leaf, r.candidate))
             \/ r.phase = "restored" /\ leaf = r.restored
       \/ /\ leaf.image = "after" /\ Remembered(r, leaf)
          /\ \/ r.phase = "forward_prepared" /\ SamePrepared(leaf, r.forward) /\ SamePrepared(leaf, r.candidate)
             \/ r.phase \in {"forward_published", "forward_completed"} /\ leaf = r.forward
             \/ r.phase = "reverse_prepared"

\* File and record agree on the outcome.
Agreed(leaf, r) == leaf.image = "after" <=> Recorded(r) /\ r.phase = "forward_completed"

DiskInv ==
  /\ \A leaf \in disk.leaf, r \in disk.record : Explained(r, leaf)
  /\ \A r, s \in disk.record : Recorded(r) /\ Recorded(s) => r.original = s.original
  /\ now.record = None => disk.record = {None}
  /\ ~Recorded(now.record) => disk.leaf = {now.leaf}
  /\ now.leaf.image = "after" =>
       \A leaf \in disk.leaf, r \in disk.record : leaf = now.leaf \/ leaf = r.original
  /\ FALSE \in disk.pending => \A leaf \in disk.leaf, r \in disk.record : Agreed(leaf, r)

\* The barrier is up, and outlasts a power failure.
Barred == now.pending = TRUE
Lasting == disk.pending = {TRUE}

OwnerInv ==
  h # None =>
    /\ h.durable
    /\ \A r \in disk.record : Recorded(r) => r.original = h.original
    /\ call # "open" /\ now.leaf.image = "after" => Remembered(h.record, now.leaf)
    /\ call # "none" => now.leaf = h.own.leaf /\ now.record = h.own.record
    /\ h.granted /\ h.direction = None => Lasting

SyncedInv ==
  /\ call = "open" =>
       /\ at >= 2 => Barred
       /\ at >= 3 => Lasting
  /\ call = "apply" =>
       /\ at <= 4 => disk.leaf = {h.original}
       /\ at = 4 => disk.record = {now.record}
       /\ at >= 6 => disk.leaf = {now.leaf}
  /\ call = "finish" =>
       /\ at >= 2 => disk.leaf = {now.leaf}
       /\ at >= 3 => now.record.phase = "forward_completed"
       /\ at >= 4 => disk.record = {now.record}
  /\ call = "restore" =>
       /\ at = 4 => disk.record = {now.record}
       /\ at >= 7 => disk.leaf = {now.leaf}
       /\ at >= 8 => now.record.phase \in {"restored", "aborted"}
       /\ at >= 9 => disk.record = {now.record}

QuietInv == Quiet => DiskInv /\ OwnerInv /\ SyncedInv

IInv ==
  /\ TypeOK /\ RecordInv /\ CallInv /\ OpenInv /\ JournalInv
  /\ ApplyInv /\ FinishInv /\ RestoreInv /\ PlainInv
  /\ QuiescentInv /\ ConsentInv /\ QuietInv

-----------------------------------------------------------------------------
(* The steps of a call, and what they say of the next one.                   *)

\* The values that stand for nothing are no files, records or handles.
LEMMA NullFacts ==
  /\ None # Blank /\ None # Foreign /\ Blank # Foreign
  /\ None \notin Files /\ None \notin Records /\ None \notin Handles /\ None \notin Interrupted
  /\ Blank \notin Records /\ Foreign \notin Records
  /\ None # "forward" /\ None # "reverse"
BY NullAssumption

LEMMA Calls ==
  DOMAIN Steps = {"none", "open", "recover", "apply", "finish", "restore",
                  "plain_open", "plain_apply", "plain_restore"}
BY DEF Steps

\* Which step of which call it is.
LEMMA Where ==
  ASSUME call \in DOMAIN Steps, NEW step, Doing(step)
  PROVE  \/ call = "open" /\ <<at, step>> \in
              {<<1, "pending">>, <<2, "sync_pending">>, <<3, "slot">>, <<4, "prepared">>,
               <<5, "sync_record">>, <<6, "grant">>}
         \/ call = "recover" /\ <<at, step>> \in {<<1, "sync_pending">>, <<2, "grant">>}
         \/ call = "apply" /\ <<at, step>> \in
              {<<1, "stage_after">>, <<2, "forward_prepared">>, <<3, "sync_record">>, <<4, "swap">>,
               <<5, "sync_leaf">>, <<6, "forward_published">>, <<7, "sync_record">>}
         \/ call = "finish" /\ <<at, step>> \in
              {<<1, "sync_leaf">>, <<2, "forward_completed">>, <<3, "sync_record">>,
               <<4, "unlink">>, <<5, "sync_pending">>, <<6, "done">>}
         \/ call = "restore" /\ <<at, step>> \in
              {<<1, "stage_before">>, <<2, "reverse_prepared">>, <<3, "sync_record">>, <<4, "swap">>,
               <<5, "sync_leaf">>, <<6, "sync_leaf">>, <<7, "reversed">>, <<8, "sync_record">>,
               <<9, "unlink">>, <<10, "sync_pending">>, <<11, "done">>}
         \/ call = "plain_open" /\ <<at, step>> \in
              {<<1, "pending">>, <<2, "sync_pending">>, <<3, "grant">>}
         \/ call = "plain_apply" /\ <<at, step>> \in
              {<<1, "stage_after">>, <<2, "swap">>, <<3, "sync_leaf">>}
         \/ call = "plain_restore" /\ <<at, step>> \in
              {<<1, "stage_before">>, <<2, "swap">>, <<3, "sync_leaf">>, <<4, "sync_leaf">>,
               <<5, "unlink">>, <<6, "sync_pending">>, <<7, "done">>}
<1>1. CASE call = "none"
  BY <1>1 DEF Steps, Doing
<1>2. CASE call = "open"
  BY <1>2 DEF Steps, Doing
<1>3. CASE call = "recover"
  BY <1>3 DEF Steps, Doing
<1>4. CASE call = "apply"
  BY <1>4 DEF Steps, Doing
<1>5. CASE call = "finish"
  BY <1>5 DEF Steps, Doing
<1>6. CASE call = "restore"
  BY <1>6 DEF Steps, Doing
<1>7. CASE call = "plain_open"
  BY <1>7 DEF Steps, Doing
<1>8. CASE call = "plain_apply"
  BY <1>8 DEF Steps, Doing
<1>9. CASE call = "plain_restore"
  BY <1>9 DEF Steps, Doing
<1> QED  BY <1>1, <1>2, <1>3, <1>4, <1>5, <1>6, <1>7, <1>8, <1>9, Calls

\* How many steps a call has.
Last(c) ==
  CASE c = "open" -> 6 [] c = "recover" -> 2 [] c = "apply" -> 7 [] c = "finish" -> 6
    [] c = "restore" -> 11 [] c \in {"plain_open", "plain_apply"} -> 3 [] c = "plain_restore" -> 7
    [] c = "none" -> 0

LEMMA Lengths ==
  ASSUME NEW c \in DOMAIN Steps
  PROVE  Len(Steps[c]) = Last(c) /\ DOMAIN Steps[c] = 1..Last(c)
<1>1. CASE c = "none"
  BY <1>1 DEF Steps, Last
<1>2. CASE c = "open"
  BY <1>2 DEF Steps, Last
<1>3. CASE c = "recover"
  BY <1>3 DEF Steps, Last
<1>4. CASE c = "apply"
  BY <1>4 DEF Steps, Last
<1>5. CASE c = "finish"
  BY <1>5 DEF Steps, Last
<1>6. CASE c = "restore"
  BY <1>6 DEF Steps, Last
<1>7. CASE c = "plain_open"
  BY <1>7 DEF Steps, Last
<1>8. CASE c = "plain_apply"
  BY <1>8 DEF Steps, Last
<1>9. CASE c = "plain_restore"
  BY <1>9 DEF Steps, Last
<1> QED  BY <1>1, <1>2, <1>3, <1>4, <1>5, <1>6, <1>7, <1>8, <1>9, Calls

\* A step that is done leads to the next one, or ends the call.
LEMMA Onward ==
  ASSUME TypeOK, call # "none", NEW g, Done(g)
  PROVE  /\ h' = g
         /\ UNCHANGED <<agreed, edits, faults, legacy>>
         /\ \/ at < Last(call) /\ at' = at + 1 /\ call' = call
            \/ at = Last(call) /\ at' = 1 /\ call' = "none"
BY Lengths DEF Done, Rest, TypeOK

\* The types of where a call is.
LEMMA OnwardType ==
  ASSUME TypeOK, call # "none",
         \/ at < Last(call) /\ at' = at + 1 /\ call' = call
         \/ at = Last(call) /\ at' = 1 /\ call' = "none"
  PROVE  /\ call' \in DOMAIN Steps /\ at' \in 1..11
         /\ call' # "none" => at' \in DOMAIN Steps[call']
<1>1. at \in 1..Last(call) /\ call \in DOMAIN Steps
  BY Lengths DEF TypeOK
<1>2. Last(call) \in 0..11
  BY <1>1, Calls DEF Last
<1>3. CASE at < Last(call) /\ at' = at + 1 /\ call' = call
  <2>1. DOMAIN Steps[call] = 1..Last(call)
    BY <1>1, Lengths
  <2> QED  BY <1>1, <1>2, <1>3, <2>1
<1>4. CASE at = Last(call) /\ at' = 1 /\ call' = "none"
  BY <1>4, Calls
<1> QED  BY <1>3, <1>4

\* Nothing is at work any more.
LEMMA Resting ==
  ASSUME Rest
  PROVE  /\ call' \in DOMAIN Steps /\ at' \in 1..11 /\ call' = "none"
         /\ OpenInv' /\ ApplyInv' /\ FinishInv' /\ RestoreInv' /\ PlainInv' /\ QuiescentInv'
         /\ SyncedInv'
<1>1. call' = "none" /\ at' = 1
  BY DEF Rest
<1>2. DOMAIN Steps["none"] = {}
  BY DEF Steps
<1>3. ~Quiescent'
  BY <1>1, <1>2 DEF Quiescent, Doing
<1> QED  BY <1>1, <1>3, Calls DEF OpenInv, ApplyInv, FinishInv, RestoreInv, PlainInv, QuiescentInv, SyncedInv

\* Where a rename is next and nobody comes before it.
SwapNext(c, n) ==
  \/ c \in {"apply", "restore"} /\ n \in 3..4
  \/ c \in {"plain_apply", "plain_restore"} /\ n = 2

LEMMA SwapSteps ==
  ASSUME NEW c \in DOMAIN Steps, NEW n \in DOMAIN Steps[c]
  PROVE  SwapNext(c, n) <=> \/ Steps[c][n] = "swap"
                            \/ Steps[c][n] = "sync_record" /\ n < Len(Steps[c]) /\ Steps[c][n + 1] = "swap"
<1> USE DEF SwapNext, Steps
<1>0. n \in 1..Last(c)
  BY Lengths
<1>1. CASE c = "none"
  BY <1>1
<1>2. CASE c = "open"
  BY <1>2, <1>0 DEF Last
<1>3. CASE c = "recover"
  BY <1>3, <1>0 DEF Last
<1>4. CASE c = "apply"
  BY <1>4, <1>0 DEF Last
<1>5. CASE c = "finish"
  BY <1>5, <1>0 DEF Last
<1>6. CASE c = "restore"
  BY <1>6, <1>0 DEF Last
<1>7. CASE c = "plain_open"
  BY <1>7, <1>0 DEF Last
<1>8. CASE c = "plain_apply"
  BY <1>8, <1>0 DEF Last
<1>9. CASE c = "plain_restore"
  BY <1>9, <1>0 DEF Last
<1> QED  BY <1>0, <1>1, <1>2, <1>3, <1>4, <1>5, <1>6, <1>7, <1>8, <1>9, Calls

LEMMA QuiescentAt ==
  ASSUME call \in DOMAIN Steps, call # "none" => at \in DOMAIN Steps[call]
  PROVE  Quiescent <=> SwapNext(call, at)
<1>1. CASE call = "none"
  <2>1. DOMAIN Steps["none"] = {}
    BY DEF Steps
  <2> QED  BY <1>1, <2>1 DEF Quiescent, Doing, SwapNext
<1>2. CASE call # "none"
  BY <1>2, SwapSteps DEF Quiescent, Doing
<1> QED  BY <1>1, <1>2

LEMMA QuiescentNext ==
  ASSUME call' \in DOMAIN Steps, call' # "none" => at' \in DOMAIN Steps[call']
  PROVE  Quiescent' <=> SwapNext(call', at')
<1>1. CASE call' = "none"
  <2>1. DOMAIN Steps["none"] = {}
    BY DEF Steps
  <2> QED  BY <1>1, <2>1 DEF Quiescent, Doing, SwapNext
<1>2. CASE call' # "none"
  BY <1>2, SwapSteps DEF Quiescent, Doing
<1> QED  BY <1>1, <1>2

-----------------------------------------------------------------------------
(* Types in three parts: the names, the handle, the rest.                    *)

NamesOK ==
  /\ now \in [leaf : Files, record : Records \cup {None, Blank, Foreign}, pending : BOOLEAN]
  /\ disk \in [leaf : SUBSET Files, record : SUBSET (Records \cup {None, Blank, Foreign}),
               pending : SUBSET BOOLEAN]
  /\ now.leaf \in disk.leaf /\ now.record \in disk.record /\ now.pending \in disk.pending
HandleOK ==
  /\ h \in Handles \cup {None} /\ (h # None /\ h.record # None => Valid(h.record))
CountsOK ==
  agreed \subseteq Interrupted /\ edits \in 0..MaxEdits /\ faults \in 0..MaxFaults /\ legacy \in BOOLEAN

\* The parts make up the types; that records are valid follows from RecordInv.
LEMMA TypeParts ==
  /\ TypeOK => NamesOK /\ HandleOK /\ CountsOK
  /\ TypeOK /\ h # None => h \in Handles
  /\ NamesOK /\ HandleOK /\ CountsOK /\ RecordInv /\ call \in DOMAIN Steps /\ at \in 1..11
       /\ (call # "none" => h # None /\ at \in DOMAIN Steps[call]) => TypeOK
BY DEF TypeOK, NamesOK, HandleOK, CountsOK, RecordInv, Sound

LEMMA TypeNext ==
  ASSUME NamesOK', HandleOK', CountsOK', RecordInv', call' \in DOMAIN Steps, at' \in 1..11,
         call' # "none" => h' # None /\ at' \in DOMAIN Steps[call']
  PROVE  TypeOK'
BY DEF TypeOK, NamesOK, HandleOK, CountsOK, RecordInv, Sound

\* What leaves the names alone leaves alone what is true of them.
LEMMA Untouched ==
  ASSUME IInv, UNCHANGED <<now, disk>>
  PROVE  /\ NamesOK' /\ RecordInv' /\ (Quiet => DiskInv')
         /\ now' = now /\ disk' = disk
BY TypeParts DEF IInv, NamesOK, RecordInv, QuietInv, DiskInv, Explained, Agreed, Remembered

\* A handle that is given up leaves only what is on disk.
LEMMA Abandoned ==
  ASSUME IInv, h' = None, Rest, NamesOK', CountsOK', RecordInv', Quiet' => DiskInv'
  PROVE  IInv'
<1>1. TypeOK'
  <2>1. HandleOK'
    BY DEF HandleOK
  <2> QED  BY <2>1, Resting, TypeNext
<1>2. CallInv' /\ JournalInv' /\ ConsentInv' /\ OwnerInv'
  BY DEF CallInv, JournalInv, ConsentInv, OwnerInv
<1> QED  BY <1>1, <1>2, Resting DEF IInv, QuietInv

\* No file is replaced and no record written before the first publication.
LEMMA InitInv == Init => IInv
<1> SUFFICES ASSUME Init  PROVE IInv
  OBVIOUS
<1>1. Original \in Files
  BY InodesAssumption DEF Original, Files
<1>2. NamesOK /\ HandleOK /\ CountsOK
  <2>1. NamesOK
    BY <1>1 DEF Init, NamesOK
  <2>2. HandleOK
    BY DEF Init, HandleOK
  <2>3. edits \in 0..MaxEdits /\ faults \in 0..MaxFaults
    BY BoundsAssumption DEF Init
  <2>4. legacy \in BOOLEAN /\ agreed \subseteq Interrupted
    BY DEF Init
  <2> QED  BY <2>1, <2>2, <2>3, <2>4 DEF CountsOK
<1>3. RecordInv
  BY DEF Init, RecordInv, Recorded
<1>4. TypeOK
  BY <1>2, <1>3, TypeParts, Calls DEF Init
<1>5. DiskInv
  BY NullFacts DEF Init, DiskInv, Explained, Agreed, Recorded, Original
<1>6. ~Quiescent
  <2>1. DOMAIN Steps["none"] = {}
    BY DEF Steps
  <2> QED  BY <2>1 DEF Init, Quiescent, Doing
<1> QED  BY <1>3, <1>4, <1>5, <1>6 DEF Init, IInv, CallInv, OpenInv, JournalInv, ApplyInv, FinishInv,
           RestoreInv, PlainInv, QuiescentInv, ConsentInv, QuietInv, OwnerInv, SyncedInv

-----------------------------------------------------------------------------
(* One lemma per action: it preserves the inductive invariant.               *)

\* Close, or the death of the process.
LEMMA LeaveInv == IInv /\ Leave => IInv'
<1> SUFFICES ASSUME IInv, Leave  PROVE IInv'
  OBVIOUS
<1>1. CountsOK'
  BY BoundsAssumption, TypeParts DEF Leave, IInv, CountsOK
<1> QED  BY <1>1, Untouched, Abandoned DEF Leave, Quiet

\* A power failure leaves one of the values on disk, and nothing in memory.
LEMMA PowerLossInv == IInv /\ PowerLoss => IInv'
<1> SUFFICES ASSUME IInv, PowerLoss  PROVE IInv'
  OBVIOUS
<1>1. PICK leaf \in disk.leaf, record \in disk.record, pending \in disk.pending :
        /\ now' = [leaf |-> leaf, record |-> record, pending |-> pending]
        /\ disk' = [leaf |-> {leaf}, record |-> {record}, pending |-> {pending}]
  BY DEF PowerLoss
<1>2. CountsOK'
  BY BoundsAssumption, TypeParts DEF PowerLoss, IInv, CountsOK
<1>3. NamesOK'
  BY <1>1, TypeParts DEF IInv, NamesOK
<1>4. RecordInv'
  BY <1>1 DEF IInv, RecordInv
<1>5. ASSUME Quiet'  PROVE DiskInv'
  <2>1. DiskInv
    BY <1>5 DEF PowerLoss, Quiet, IInv, QuietInv
  <2>2. FALSE \in disk'.pending => Agreed(leaf, record)
    BY <1>1, <2>1 DEF DiskInv
  <2>3. Explained(record, leaf)
    BY <2>1 DEF DiskInv
  <2>4. now'.record = record /\ now'.leaf = leaf /\ disk'.record = {record} /\ disk'.leaf = {leaf}
    BY <1>1
  <2> QED  BY <1>1, <2>2, <2>3, <2>4 DEF DiskInv
<1> QED  BY <1>2, <1>3, <1>4, <1>5, Abandoned DEF PowerLoss

\* The user writes a file of his own, or touches the record.
LEMMA EditInv == IInv /\ Edit => IInv'
<1> SUFFICES ASSUME IInv, Edit  PROVE IInv'
  OBVIOUS
<1>1. CountsOK'
  BY BoundsAssumption, TypeParts DEF Edit, IInv, CountsOK
<1>2. NamesOK' /\ RecordInv'
  <2>1. CASE \E image \in {"before", "after", "other"}, i \in Inodes :
               LET file == [Prepared(image, i) EXCEPT !.mine = FALSE] IN
               now' = [now EXCEPT !.leaf = file] /\ disk' = [disk EXCEPT !.leaf = {file}]
    <3>1. PICK image \in {"before", "after", "other"}, i \in Inodes :
               LET file == [Prepared(image, i) EXCEPT !.mine = FALSE] IN
               now' = [now EXCEPT !.leaf = file] /\ disk' = [disk EXCEPT !.leaf = {file}]
      BY <2>1
    <3>2. [Prepared(image, i) EXCEPT !.mine = FALSE] \in Files
      BY DEF Prepared, Files
    <3> QED  BY <3>1, <3>2, TypeParts DEF IInv, NamesOK, RecordInv
  <2>2. CASE now' = [now EXCEPT !.record = Foreign] /\ disk' = [disk EXCEPT !.record = {Foreign}]
    BY <2>2, TypeParts DEF IInv, NamesOK, RecordInv, Recorded
  <2> QED  BY <2>1, <2>2 DEF Edit
<1>3. TypeOK'
  <2>1. UNCHANGED <<h, call, at>>
    BY DEF Edit
  <2>2. HandleOK'
    BY <2>1, TypeParts DEF IInv, HandleOK, Valid
  <2> QED  BY <1>1, <1>2, <2>1, <2>2, TypeNext DEF IInv, TypeOK
<1>4. ~Quiescent' /\ ~Quiet'
  BY TypeParts DEF Edit, Quiescent, Doing, Quiet, CountsOK, IInv
<1> QED  BY <1>2, <1>3, <1>4 DEF Edit, IInv, CallInv, OpenInv, JournalInv, ApplyInv, FinishInv, RestoreInv,
           PlainInv, StagedAs, QuiescentInv, ConsentInv, QuietInv, Fits, Knows

\* A proposal is evidence of what is there now.
LEMMA ProposeInv ==
  ASSUME IInv, NEW direction \in {"forward", "reverse"}, Propose(direction)
  PROVE  IInv'
<1>1. Evidence(direction) \in Interrupted
  BY TypeParts DEF IInv, Propose, Eligible, Recorded, Evidence, Interrupted, NamesOK
<1>2. TypeOK'
  BY <1>1, TypeParts DEF IInv, TypeOK, Propose, Valid
<1>3. CallInv' /\ OpenInv' /\ JournalInv' /\ ApplyInv' /\ FinishInv' /\ RestoreInv' /\ PlainInv'
  BY DEF IInv, Propose, CallInv, OpenInv, JournalInv, ApplyInv, FinishInv, RestoreInv, PlainInv,
         StagedAs, Fits, Knows
<1>4. QuiescentInv' /\ ConsentInv'
  BY DEF IInv, Propose, QuiescentInv, Quiescent, Doing, ConsentInv
<1>5. QuietInv'
  BY Untouched DEF IInv, Propose, QuietInv, Quiet, OwnerInv, SyncedInv, Remembered, Lasting, Barred
<1> QED  BY <1>2, <1>3, <1>4, <1>5, Untouched DEF IInv, Propose

\* An error leaves the handle as it is; one that was not granted is closed.
LEMMA ErrorInv == IInv /\ Error => IInv'
<1> SUFFICES ASSUME IInv, Error  PROVE IInv'
  OBVIOUS
<1>1. CountsOK' /\ UNCHANGED <<now, disk>> /\ Rest
  BY BoundsAssumption, TypeParts DEF Error, Fail, IInv, CountsOK
<1>2. NamesOK' /\ RecordInv' /\ (Quiet' => Quiet /\ DiskInv')
  BY <1>1, Untouched DEF Quiet, Error, Fail
<1>3. h # None
  BY DEF Error, Idle, IInv, TypeOK
<1>4. CASE ~h.granted
  BY <1>1, <1>2, <1>4, Abandoned DEF Error, Fail
<1>5. CASE h.granted
  <2>1. h' = h
    BY <1>5 DEF Error, Fail
  <2>2. TypeOK'
    <3>1. HandleOK'
      BY <2>1, TypeParts DEF IInv, HandleOK, Valid
    <3> QED  BY <1>1, <1>2, <3>1, Resting, TypeNext
  <2>3. CallInv' /\ JournalInv' /\ ConsentInv'
    <3>1. call \notin Opening /\ call' = "none"
      BY <1>1, <1>3, <1>5 DEF IInv, CallInv, Rest
    <3> QED  BY <1>3, <1>5, <2>1, <3>1 DEF IInv, CallInv, JournalInv, ConsentInv, Opening, Fits, Knows
  <2>4. Quiet' => OwnerInv'
    <3>1. call \notin Opening /\ call' = "none"
      BY <1>1, <1>3, <1>5 DEF IInv, CallInv, Rest
    <3> QED  BY <1>1, <1>2, <1>5, <2>1, <3>1 DEF IInv, QuietInv, OwnerInv, Opening, Lasting
  <2> QED  BY <1>1, <1>2, <2>2, <2>3, <2>4, Resting DEF IInv, QuietInv
<1> QED  BY <1>4, <1>5

LEMMA HandleType ==
  ASSUME NEW durable \in BOOLEAN, NEW leaf \in Files
  PROVE  Handle(durable, leaf) \in Handles
BY NullFacts DEF Handle, Handles

\* constructPublication: what is there is the original.
LEMMA BeginInv ==
  ASSUME IInv, NEW durable \in BOOLEAN, Begin(durable)
  PROVE  IInv'
<1> DEFINE g == Handle(durable, now.leaf)
<1>1. /\ h' = g /\ call' = (IF durable THEN "open" ELSE "plain_open") /\ at' = 1
      /\ UNCHANGED <<now, disk>> /\ now.leaf.image = "before" /\ (durable => now.record = None)
  BY DEF Begin, SlotFree
<1>2. now.leaf \in Files /\ g \in Handles /\ g # None
  BY HandleType, NullFacts, TypeParts DEF IInv, NamesOK
<1>3. /\ g.durable = durable /\ ~g.granted /\ ~g.used /\ g.direction = None /\ g.original = now.leaf
      /\ g.own = [leaf |-> now.leaf, record |-> None] /\ g.record = None /\ g.stage = None
      /\ g.try = NoTry /\ g.consent = None
  BY DEF Handle, NoTry
<1>4. NamesOK' /\ RecordInv' /\ (Quiet => DiskInv')
  BY <1>1, Untouched
<1>5. TypeOK'
  <2>1. HandleOK'
    BY <1>1, <1>2, <1>3 DEF HandleOK
  <2>2. CountsOK'
    BY TypeParts DEF Begin, IInv, CountsOK
  <2>3. 1 \in DOMAIN Steps["open"] /\ 1 \in DOMAIN Steps["plain_open"]
    BY DEF Steps
  <2> QED  BY <1>1, <1>2, <1>4, <2>1, <2>2, <2>3, TypeNext, Calls
<1>6. CallInv' /\ OpenInv'
  BY <1>1, <1>2, <1>3, NullFacts DEF CallInv, OpenInv, Opening, NoTry
<1>7. JournalInv' /\ ApplyInv' /\ FinishInv' /\ RestoreInv' /\ PlainInv' /\ ConsentInv'
  BY <1>1, <1>3 DEF JournalInv, ApplyInv, FinishInv, RestoreInv, PlainInv, ConsentInv
<1>8. QuiescentInv'
  BY <1>1, <1>5, QuiescentNext DEF QuiescentInv, SwapNext, TypeOK
<1>9. QuietInv'
  <2> SUFFICES ASSUME Quiet'  PROVE DiskInv' /\ OwnerInv' /\ SyncedInv'
    BY DEF QuietInv
  <2>1. Quiet /\ durable
    BY DEF Quiet, Begin
  <2>2. disk.record = {None}
    BY <1>1, <2>1 DEF IInv, QuietInv, DiskInv
  <2>3. OwnerInv'
    <3>1. h'.durable /\ ~h'.granted
      BY <1>1, <1>3, <2>1
    <3>2. \A s \in disk'.record : ~Recorded(s)
      BY <1>1, <2>2 DEF Recorded
    <3>3. call' = "open" /\ now'.leaf = h'.own.leaf /\ now'.record = h'.own.record
      BY <1>1, <1>3, <2>1
    <3> QED  BY <3>1, <3>2, <3>3 DEF OwnerInv, Recorded
  <2>4. SyncedInv'
    BY <1>1, <2>1 DEF SyncedInv
  <2> QED  BY <1>4, <2>1, <2>3, <2>4
<1> QED  BY <1>4, <1>5, <1>6, <1>7, <1>8, <1>9 DEF IInv

\* beginInterruptedRecovery: record and file are what the record explains.
LEMMA BeginRecoveryInv ==
  ASSUME IInv, NEW direction \in {"forward", "reverse"}, BeginRecovery(direction)
  PROVE  IInv'
<1> DEFINE r == now.record
           kept == IF now.leaf.image = "after" THEN [r EXCEPT !.forward = now.leaf] ELSE r
<1>1. /\ call' = "recover" /\ at' = 1 /\ UNCHANGED <<now, disk>>
      /\ Evidence(direction) \in agreed /\ Recorded(r) /\ Image(r, now.leaf, direction) /\ now.pending
  BY DEF BeginRecovery, Eligible
<1>2. r \in Records /\ now.leaf \in Files /\ Sound(r) /\ Evidence(direction) \in Interrupted
  BY <1>1, TypeParts DEF IInv, NamesOK, RecordInv, Recorded, CountsOK
<1>3. kept \in Records /\ Sound(kept) /\ kept.original = r.original /\ kept.phase = r.phase
  <2>1. CASE now.leaf.image = "after"
    <3>1. r.phase \in {"forward_prepared", "forward_published", "reverse_prepared", "forward_completed"}
      BY <1>1, <2>1 DEF Image
    <3>2. kept = [r EXCEPT !.forward = now.leaf]
      BY <2>1
    <3> QED  BY <1>2, <3>1, <3>2, NullFacts DEF Sound, Valid, Records, Terminal
  <2> QED  BY <1>2, <2>1
<1>4. r.original \in Files /\ r.forward \in Files \cup {None} /\ r.candidate \in Files \cup {None}
  BY <1>2 DEF Records
<1>5. /\ h'.durable /\ ~h'.granted /\ h'.used /\ h'.direction = direction /\ h'.original = r.original
      /\ h'.own = [leaf |-> now.leaf, record |-> r] /\ h'.record = kept /\ h'.stage = None
      /\ h'.try = NoTry /\ h'.consent = Evidence(direction)
      /\ h' \in Handles /\ h' # None
  <2>1. Handle(TRUE, r.original) \in Handles
    BY <1>4, HandleType
  <2>2. h' = [Handle(TRUE, r.original) EXCEPT !.used = TRUE, !.direction = direction,
                !.own = [leaf |-> now.leaf, record |-> r], !.record = kept, !.consent = Evidence(direction)]
    BY DEF BeginRecovery
  <2>3. h' \in Handles
    BY <1>2, <1>3, <2>1, <2>2 DEF Handles
  <2> QED  BY <2>2, <2>3, NullFacts DEF Handle, NoTry
<1>6. Fits(kept, h')
  <2>1. now.leaf.image = "before" \/ now.leaf.image = "after"
    BY <1>1 DEF Image
  <2>2. CASE now.leaf.image = "before"
    <3>1. kept = r /\ direction = "reverse"
      BY <1>1, <2>2 DEF Image
    <3>2. r.phase = "reverse_prepared" => now.leaf # r.original
      BY <1>1, <1>2, <1>4, <2>2, NullFacts DEF Image, SamePrepared, Renamed, Sound, Files
    <3> QED  BY <1>1, <1>2, <1>3, <1>5, <2>2, <3>1, <3>2 DEF Image, Fits, Sound
  <2>3. CASE now.leaf.image = "after"
    BY <1>1, <1>2, <1>3, <1>5, <2>3 DEF Image, Fits, Sound
  <2> QED  BY <2>1, <2>2, <2>3
<1>7. NamesOK' /\ RecordInv' /\ (Quiet => DiskInv')
  BY <1>1, Untouched
<1>8. TypeOK'
  <2>1. HandleOK'
    BY <1>3, <1>5 DEF HandleOK, Sound
  <2>2. CountsOK'
    BY TypeParts DEF BeginRecovery, IInv, CountsOK
  <2>3. 1 \in DOMAIN Steps["recover"]
    BY DEF Steps
  <2> QED  BY <1>1, <1>5, <1>7, <2>1, <2>2, <2>3, TypeNext, Calls
<1>9. CallInv' /\ OpenInv'
  <2>1. now.leaf.image \in {"before", "after"} /\ (now.leaf.image = "before" => direction = "reverse")
    BY <1>1 DEF Image
  <2> QED  BY <1>1, <1>5, <2>1, NullFacts DEF CallInv, OpenInv, Opening, NoTry
<1>10. JournalInv'
  <2>1. r = [kept EXCEPT !.forward = r.forward]
    BY <1>2 DEF Records
  <2>2. Knows(h')
    BY <1>2, <1>5, <1>6, <2>1, NullFacts DEF Knows
  <2> QED  BY <1>5, <2>2 DEF JournalInv, NoTry, Knows, Fits
<1>11. ApplyInv' /\ FinishInv' /\ RestoreInv' /\ PlainInv'
  BY <1>1 DEF ApplyInv, FinishInv, RestoreInv, PlainInv
<1>12. ConsentInv'
  BY <1>5, NullFacts DEF ConsentInv, Evidence, NoTry
<1>13. QuiescentInv'
  BY <1>1, <1>8, QuiescentNext DEF QuiescentInv, SwapNext, TypeOK
<1>14. QuietInv'
  <2> SUFFICES ASSUME Quiet'  PROVE DiskInv' /\ OwnerInv' /\ SyncedInv'
    BY DEF QuietInv
  <2>1. Quiet /\ DiskInv
    BY DEF Quiet, BeginRecovery, IInv, QuietInv
  <2>2. now.leaf.image = "after" => Remembered(kept, now.leaf)
    BY <1>2, NullFacts DEF Remembered, Records
  <2>3. \A s \in disk.record : Recorded(s) => s.original = r.original
    BY <1>1, <2>1, TypeParts DEF DiskInv, IInv, NamesOK
  <2>4. OwnerInv'
    <3>1. h'.durable /\ ~h'.granted
      BY <1>5
    <3>2. \A s \in disk'.record : Recorded(s) => s.original = h'.original
      BY <1>1, <1>5, <2>3
    <3>3. now'.leaf = h'.own.leaf /\ now'.record = h'.own.record
      BY <1>1, <1>5
    <3>4. now'.leaf.image = "after" => Remembered(h'.record, now'.leaf)
      BY <1>1, <1>5, <2>2
    <3> QED  BY <3>1, <3>2, <3>3, <3>4 DEF OwnerInv, Recorded, Remembered
  <2>5. SyncedInv'
    BY <1>1 DEF SyncedInv
  <2> QED  BY <1>7, <2>1, <2>4, <2>5
<1> QED  BY <1>7, <1>8, <1>9, <1>10, <1>11, <1>12, <1>13, <1>14 DEF IInv

-----------------------------------------------------------------------------
(* What a call finds when it looks.                                          *)

\* Two identities of one file differ in the change time alone.
LEMMA SameFile ==
  ASSUME NEW f \in Files, NEW g \in Files
  PROVE  /\ SamePrepared(f, g) <=> f.image = g.image /\ f.inode = g.inode /\ f.mine = g.mine
         /\ Renamed(f) \in Files /\ Renamed(f).image = f.image /\ Renamed(f).inode = f.inode
         /\ Renamed(f).moved /\ SamePrepared(Renamed(f), f)
BY NullFacts DEF SamePrepared, Renamed, Files

\* reconcileImage changes what the handle owns and remembers, and nothing else.
LEMMA SettleShape ==
  ASSUME IInv, h # None
  PROVE  /\ Settle \in Handles /\ Settle.try = NoTry
         /\ Settle.durable = h.durable /\ Settle.granted = h.granted /\ Settle.used = h.used
         /\ Settle.direction = h.direction /\ Settle.original = h.original /\ Settle.stage = h.stage
         /\ Settle.consent = h.consent
         /\ Settle.own.leaf \in {h.own.leaf, now.leaf} /\ Settle.own.record \in {h.own.record, now.record}
         /\ Settle.own.leaf # h.own.leaf => h.try.leaf # None /\ SamePrepared(h.try.leaf, now.leaf)
         /\ \/ h.try.record # None /\ now.record = h.try.record
               /\ Settle.own.record = now.record /\ Settle.record = now.record
            \/ Settle.own.record = h.own.record /\ Settle.record = h.record
<1>1. h \in Handles /\ now.leaf \in Files
  BY TypeParts DEF IInv, NamesOK
<1>2. Settled("leaf") \in {h.own.leaf, now.leaf}
      /\ (Settled("leaf") # h.own.leaf => h.try.leaf # None /\ SamePrepared(h.try.leaf, now.leaf))
  BY DEF Settled
<1>3. \/ h.try.record # None /\ now.record = h.try.record /\ Settled("record") = now.record
      \/ Settled("record") = h.own.record
         /\ ~(h.try.record # None /\ now.record = h.try.record)
  BY DEF Settled
<1>4. h.try.record \in Records \cup {None} /\ h.own.leaf \in Files /\ h.own.record \in Records \cup {None, Blank}
      /\ h.record \in Records \cup {None}
  BY <1>1 DEF Handles
<1> DEFINE L == Settled("leaf")
           R == Settled("record")
           Q == IF h.try.record # None /\ now.record = h.try.record THEN now.record ELSE h.record
<1>5. L \in Files /\ R \in Records \cup {None, Blank} /\ Q \in Records \cup {None}
  BY <1>1, <1>2, <1>3, <1>4
<1>6. Settle = [h EXCEPT !.own = [leaf |-> L, record |-> R], !.record = Q, !.try = NoTry]
  BY <1>1 DEF Settle, NoTry, Handles
<1> HIDE DEF L, R
<1>7. Settle \in Handles
  BY <1>1, <1>5, <1>6 DEF Handles, NoTry
<1>8. Settle.own.leaf = L /\ Settle.own.record = R /\ Settle.record = Q /\ Settle.try = NoTry
      /\ Settle.durable = h.durable /\ Settle.granted = h.granted /\ Settle.used = h.used
      /\ Settle.direction = h.direction /\ Settle.original = h.original /\ Settle.stage = h.stage
      /\ Settle.consent = h.consent
  BY <1>1, <1>6 DEF Handles
<1> QED  BY <1>2, <1>3, <1>7, <1>8 DEF L, R

\* What was unknown is known: record and file fit again.
LEMMA Settling ==
  ASSUME IInv, h # None, h.granted, Idle
  PROVE  /\ Settle.own.leaf.image \in {"before", "after"}
         /\ Settle.own.leaf.image = "before" => h.direction # "forward"
         /\ h.durable => Knows(Settle)
         /\ h.consent # None => h.used /\ h.direction # None /\ h.durable
         /\ h.consent # None =>
              \/ Settle.own.leaf = h.consent.leaf /\ h.direction = h.consent.direction
              \/ h.direction = "reverse" /\ h.stage # None /\ h.stage.image = "before"
                 /\ SamePrepared(Settle.own.leaf, h.stage)
         /\ Quiet /\ now.leaf.image = "after" => Remembered(Settle.record, now.leaf)
<1> DEFINE S == Settle
<1>1. h \in Handles /\ now.leaf \in Files /\ S \in Handles
  BY TypeParts, SettleShape DEF IInv, NamesOK
<1>2. h.own.leaf \in Files /\ h.stage \in Files \cup {None} /\ h.try.leaf \in Files \cup {None}
      /\ h.original \in Files /\ S.own.leaf \in Files
  BY <1>1 DEF Handles
<1>3. S.direction = h.direction /\ S.used = h.used /\ S.original = h.original /\ S.stage = h.stage
      /\ S.durable = h.durable /\ S.consent = h.consent
  BY SettleShape
<1>4. ASSUME S.own.leaf # h.own.leaf
      PROVE  /\ h.try.leaf \in Files /\ S.own.leaf.image = h.try.leaf.image
             /\ S.own.leaf.inode = h.try.leaf.inode /\ SamePrepared(h.try.leaf, S.own.leaf)
  BY <1>1, <1>2, <1>4, SettleShape, SameFile
<1>5. ASSUME h.durable, S.own.leaf # h.own.leaf
      PROVE  /\ h.stage \in Files /\ S.own.leaf.image = h.stage.image /\ S.own.leaf # h.original
             /\ SamePrepared(S.own.leaf, h.stage)
             /\ \/ h.stage.image = "after" /\ h.record.phase = "forward_prepared"
                \/ h.stage.image = "before" /\ h.record.phase = "reverse_prepared"
             /\ h.try.record = None
  <2>1. /\ h.stage # None /\ h.try.leaf = Renamed(h.stage) /\ h.stage.inode # h.original.inode
        /\ \/ h.stage.image = "after" /\ h.record.phase = "forward_prepared"
           \/ h.stage.image = "before" /\ h.record.phase = "reverse_prepared"
        /\ h.try.record = None
    BY <1>4, <1>5, NullFacts DEF IInv, JournalInv, Idle
  <2> QED  BY <1>2, <1>4, <1>5, <2>1, SameFile
<1>6. h.durable => Knows(h) /\ Fits(h.record, h)
  BY DEF IInv, JournalInv, Idle, Knows
<1>7. S.own.leaf.image \in {"before", "after"} /\ (S.own.leaf.image = "before" => h.direction # "forward")
  <2>1. CASE S.own.leaf = h.own.leaf
    BY <2>1 DEF IInv, CallInv
  <2>2. CASE S.own.leaf # h.own.leaf /\ h.durable
    BY <1>5, <1>6, <2>2 DEF Fits
  <2>3. CASE S.own.leaf # h.own.leaf /\ ~h.durable
    BY <1>4, <2>3, NullFacts DEF IInv, CallInv
  <2> QED  BY <2>1, <2>2, <2>3
<1>8. ASSUME h.durable  PROVE Knows(S)
  <2>1. CASE S.own.leaf # h.own.leaf
    <3>1. S.record = h.record /\ S.own.record = h.own.record
      BY <1>5, <1>8, <2>1, SettleShape
    <3>2. Fits(S.record, S)
      BY <1>3, <1>5, <1>6, <1>8, <2>1, <3>1 DEF Fits
    <3> QED  BY <1>3, <1>6, <1>8, <3>1, <3>2 DEF Knows
  <2>2. CASE S.own.leaf = h.own.leaf /\ S.own.record = h.own.record /\ S.record = h.record
    BY <1>3, <1>6, <1>8, <2>2 DEF Knows, Fits
  <2>3. CASE /\ S.own.leaf = h.own.leaf /\ h.try.record # None /\ now.record = h.try.record
             /\ S.own.record = now.record /\ S.record = now.record
    <3>1. Fits(h.try.record, h) /\ ~(h.direction = None /\ ~h.used)
      BY <1>8, <2>3 DEF IInv, JournalInv, Idle, NoTry
    <3>2. h.try.record \in Records
      BY <3>1 DEF Fits, Sound, Valid
    <3>3. S.own.record = [S.record EXCEPT !.forward = S.own.record.forward]
      BY <2>3, <3>2 DEF Records
    <3>4. Fits(S.record, S)
      BY <1>3, <2>3, <3>1 DEF Fits
    <3> QED  BY <1>3, <2>3, <3>1, <3>2, <3>3, <3>4 DEF Knows
  <2> QED  BY <2>1, <2>2, <2>3, SettleShape
<1>9. ASSUME h.consent # None
      PROVE  /\ h.used /\ h.direction # None /\ h.durable
             /\ \/ S.own.leaf = h.consent.leaf /\ h.direction = h.consent.direction
                \/ h.direction = "reverse" /\ h.stage # None /\ h.stage.image = "before"
                   /\ SamePrepared(S.own.leaf, h.stage)
  <2>1. h.used /\ h.direction # None /\ h.durable
    BY <1>9 DEF IInv, ConsentInv
  <2>2. CASE S.own.leaf = h.own.leaf
    BY <1>9, <2>2 DEF IInv, ConsentInv
  <2>3. CASE S.own.leaf # h.own.leaf
    BY <1>4, <1>5, <1>9, <2>1, <2>3, NullFacts DEF IInv, ConsentInv
  <2> QED  BY <2>1, <2>2, <2>3
<1>10. ASSUME Quiet, now.leaf.image = "after"  PROVE Remembered(S.record, now.leaf)
  <2>1. CASE S.record = h.record
    BY <1>10, <2>1 DEF IInv, QuietInv, OwnerInv, Idle
  <2>2. CASE S.record = now.record /\ h.try.record = now.record /\ h.try.record # None
    <3>1. Explained(now.record, now.leaf) /\ now.record \in Records
      BY <1>1, <1>10, <2>2, TypeParts DEF IInv, QuietInv, DiskInv, NamesOK, Handles
    <3>2. Recorded(now.record)
      BY <3>1, NullFacts DEF Recorded
    <3> QED  BY <1>10, <2>2, <3>1, <3>2 DEF Explained
  <2> QED  BY <2>1, <2>2, SettleShape
<1> QED  BY <1>7, <1>8, <1>9, <1>10

\* A call that begins: what it relies on, and what every call keeps.
LEMMA Calling ==
  ASSUME IInv, NEW g, NEW which \in {"apply", "finish", "restore", "plain_apply", "plain_restore"},
         NEW first \in {1, 4, 6}, Call(g, which, first), first \in DOMAIN Steps[which],
         ~SwapNext(which, first), PlainInv',
         g \in Handles, g.granted, g.durable = h.durable, g.original = h.original, g.try = NoTry,
         g.own = Settle.own, g.record = Settle.record, g.stage = h.stage, g.consent = h.consent,
         h.durable <=> which \in {"apply", "finish", "restore"},
         h.durable => Fits(g.record, g) /\ (g.direction = None => g.used),
         g.own.leaf.image = "before" => g.direction # "forward",
         ~h.durable => g.direction # "forward",
         g.direction = None => h.direction = None,
         h.consent # None => g.direction = h.direction /\ g.used
  PROVE  /\ TypeOK' /\ RecordInv' /\ CallInv' /\ OpenInv' /\ JournalInv'
         /\ QuiescentInv' /\ ConsentInv' /\ (Quiet' => Quiet /\ DiskInv' /\ OwnerInv')
         /\ h' = g /\ now.leaf = g.own.leaf /\ (g.durable => now.record = g.own.record)
         /\ UNCHANGED <<now, disk>>
<1>1. /\ h # None /\ h.granted /\ Idle /\ Owned(Settle)
      /\ h' = g /\ call' = which /\ at' = first
      /\ UNCHANGED <<now, disk, agreed, edits, faults, legacy>>
  BY DEF Call
<1>2. NamesOK' /\ RecordInv' /\ (Quiet' => Quiet /\ DiskInv')
  BY <1>1, Untouched DEF Quiet
<1>3. now.leaf = g.own.leaf /\ (g.durable => now.record = g.own.record)
  BY <1>1, SettleShape DEF Owned
<1>4. g # None /\ which \notin Opening /\ which \in DOMAIN Steps /\ which # "none" /\ first \in 1..11
  BY NullFacts, Calls DEF Opening
<1>5. TypeOK'
  <2>1. h.durable => Valid(g.record)
    BY DEF Fits, Sound
  <2>2. g.record # None => Valid(g.record)
    <3>1. CASE g.record = h.record
      BY <3>1, TypeParts, <1>1 DEF IInv, HandleOK
    <3>2. CASE g.record = now.record /\ h.try.record # None /\ now.record = h.try.record
      <4>1. now.record \in Records /\ now.record \in disk.record
        BY <1>1, <3>2, TypeParts DEF IInv, Handles, NamesOK
      <4> QED  BY <3>2, <4>1, NullFacts DEF IInv, RecordInv, Recorded, Sound
    <3> QED  BY <1>1, <3>1, <3>2, SettleShape
  <2>3. HandleOK'
    BY <1>1, <2>2 DEF HandleOK
  <2>4. CountsOK'
    BY <1>1, TypeParts DEF IInv, CountsOK
  <2> QED  BY <1>1, <1>2, <1>4, <2>3, <2>4, TypeNext
<1>6. CallInv'
  <2>1. g.own.leaf.image \in {"before", "after"}
    BY <1>1, Settling
  <2> QED  BY <1>1, <1>4, <2>1 DEF CallInv, NoTry
<1>7. OpenInv'
  BY <1>1, <1>4 DEF OpenInv, Opening
<1>8. JournalInv'
  <2>1. h.durable => Knows(g)
    BY <1>1, Settling DEF Knows
  <2> QED  BY <1>1, <1>4, <2>1 DEF JournalInv, NoTry, Opening, Knows, Fits
<1>9. QuiescentInv'
  BY <1>1, <1>5, QuiescentNext DEF QuiescentInv, TypeOK
<1>10. ConsentInv'
  <2> SUFFICES ASSUME h.consent # None
               PROVE  ConsentInv'
    BY <1>1 DEF ConsentInv
  <2>1. h.durable /\ h.direction # None /\ g.used /\ g.direction = h.direction
    BY <1>1, Settling
  <2>2. \/ g.own.leaf = g.consent.leaf /\ g.direction = g.consent.direction
        \/ g.direction = "reverse" /\ g.stage # None /\ g.stage.image = "before"
           /\ SamePrepared(g.own.leaf, g.stage)
    BY <1>1, <2>1, Settling
  <2>3. g.try.leaf = None
    BY DEF NoTry
  <2> QED  BY <1>1, <2>1, <2>2, <2>3 DEF ConsentInv, SamePrepared, Renamed
<1>11. ASSUME Quiet'  PROVE OwnerInv'
  <2>0. OwnerInv /\ Quiet
    BY <1>2, <1>11 DEF IInv, QuietInv
  <2>1. h.durable /\ \A s \in disk'.record : Recorded(s) => s.original = h'.original
    BY <1>1, <2>0 DEF OwnerInv
  <2>2. now'.leaf.image = "after" => Remembered(h'.record, now'.leaf)
    BY <1>1, <2>0, Settling
  <2>3. now'.leaf = h'.own.leaf /\ now'.record = h'.own.record
    BY <1>1, <1>3, <2>1
  <2>4. h'.direction = None => Lasting'
    BY <1>1, <2>0 DEF OwnerInv, Lasting
  <2>5. h'.durable
    BY <1>1, <2>1
  <2> QED  BY <2>1, <2>2, <2>3, <2>4, <2>5 DEF OwnerInv, Recorded, Remembered
<1> QED  BY <1>1, <1>2, <1>3, <1>5, <1>6, <1>7, <1>8, <1>9, <1>10, <1>11

\* Where a call begins, nothing waits for a rename.
LEMMA Firsts ==
  /\ 1 \in DOMAIN Steps["apply"] /\ 1 \in DOMAIN Steps["finish"] /\ 1 \in DOMAIN Steps["restore"]
  /\ 6 \in DOMAIN Steps["restore"] /\ 1 \in DOMAIN Steps["plain_apply"]
  /\ 1 \in DOMAIN Steps["plain_restore"] /\ 4 \in DOMAIN Steps["plain_restore"]
  /\ \A c \in DOMAIN Steps : ~SwapNext(c, 1)
  /\ ~SwapNext("restore", 6) /\ ~SwapNext("plain_restore", 4)
BY DEF Steps, SwapNext

\* Apply: the after-image is not there yet.
LEMMA ApplyCallInv == IInv /\ Apply => IInv'
<1> SUFFICES ASSUME IInv, Apply  PROVE IInv'
  OBVIOUS
<1> DEFINE g == [Settle EXCEPT !.used = TRUE]
           which == IF h.durable THEN "apply" ELSE "plain_apply"
<1>1. /\ h # None /\ ~h.used /\ (h.durable => h.direction = None) /\ Call(g, which, 1)
      /\ h.granted /\ Idle
  BY DEF Apply, Call
<1>2. /\ g \in Handles /\ g.granted /\ g.durable = h.durable /\ g.original = h.original /\ g.try = NoTry
      /\ g.own = Settle.own /\ g.record = Settle.record /\ g.stage = h.stage /\ g.consent = h.consent
      /\ g.used /\ g.direction = h.direction
  <2>1. Settle \in Handles
    BY <1>1, SettleShape
  <2>2. g \in Handles
    BY <2>1 DEF Handles
  <2> QED  BY <1>1, <2>1, <2>2, SettleShape DEF Handles
<1>3. h.durable => Fits(g.record, g) /\ g.record.phase = "prepared" /\ g.own.leaf = h.original
                   /\ g.own.record.phase = "prepared" /\ g.own.record \in Records
  <2> SUFFICES ASSUME h.durable
               PROVE  Fits(g.record, g) /\ g.record.phase = "prepared" /\ g.own.leaf = h.original
                      /\ g.own.record.phase = "prepared" /\ g.own.record \in Records
    OBVIOUS
  <2>1. Knows(Settle)
    BY <1>1, Settling
  <2>2. Settle.record.phase = "prepared" /\ Fits(Settle.record, Settle)
        /\ Settle.own.record = [Settle.record EXCEPT !.forward = Settle.own.record.forward]
        /\ Settle.own.record \in Records
    BY <1>1, <2>1, SettleShape DEF Knows
  <2>3. Settle.record \in Records
    BY <2>2 DEF Fits, Sound, Valid
  <2>4. Settle.own.record.phase = "prepared"
    BY <2>2, <2>3 DEF Records
  <2> QED  BY <1>1, <1>2, <2>2, <2>4, SettleShape DEF Fits
<1>4. h' = g /\ call' = which /\ at' = 1
  BY <1>1 DEF Call
<1>5. ~h.durable => h.direction # "forward"
  BY <1>1 DEF IInv, CallInv
<1>6. h.consent = None \/ ~h.durable
  BY <1>1, Settling
<1>7. h.consent = None
  BY <1>1, <1>6, Settling
<1>8. g.own.leaf.image = "before" => g.direction # "forward"
  BY <1>1, <1>2, Settling
<1>9. PlainInv'
  BY <1>4 DEF PlainInv
<1>10. which \in {"apply", "plain_apply"} /\ (h.durable <=> which = "apply")
  OBVIOUS
<1> HIDE DEF g, which
<1>11. /\ TypeOK' /\ RecordInv' /\ CallInv' /\ OpenInv' /\ JournalInv'
       /\ QuiescentInv' /\ ConsentInv' /\ (Quiet' => Quiet /\ DiskInv' /\ OwnerInv')
       /\ now.leaf = g.own.leaf /\ (g.durable => now.record = g.own.record)
       /\ UNCHANGED <<now, disk>>
  BY <1>1, <1>2, <1>3, <1>5, <1>7, <1>8, <1>9, <1>10, Firsts, Calls, Calling
<1>12. ApplyInv'
  BY <1>1, <1>2, <1>3, <1>4, <1>10 DEF ApplyInv
<1>13. FinishInv' /\ RestoreInv'
  BY <1>4, <1>10 DEF FinishInv, RestoreInv
<1>14. Quiet' => SyncedInv'
  <2> SUFFICES ASSUME Quiet', h.durable  PROVE disk'.leaf = {h'.original}
    BY <1>4, <1>10 DEF SyncedInv
  <2>1. DiskInv /\ OwnerInv
    BY <1>11 DEF IInv, QuietInv
  <2>2. now.record = g.own.record /\ now.record \in disk.record /\ now.leaf \in disk.leaf
    BY <1>2, <1>11, TypeParts DEF IInv, NamesOK
  <2>3. Recorded(now.record) /\ now.record.original = h.original
    BY <1>1, <1>3, <2>1, <2>2, NullFacts DEF OwnerInv, Recorded
  <2>4. \A leaf \in disk.leaf : leaf = h.original
    BY <1>3, <2>1, <2>2, <2>3 DEF DiskInv, Explained
  <2> QED  BY <1>2, <1>4, <1>11, <2>2, <2>4
<1> QED  BY <1>9, <1>11, <1>12, <1>13, <1>14 DEF IInv, QuietInv

\* Finish: the after-image is there, and stays.
LEMMA FinishCallInv == IInv /\ Finish => IInv'
<1> SUFFICES ASSUME IInv, Finish  PROVE IInv'
  OBVIOUS
<1> DEFINE g == [Settle EXCEPT !.direction = "forward"]
<1>1. /\ h # None /\ h.durable /\ h.direction # "reverse" /\ Settle.own.leaf.image = "after"
      /\ Call(g, "finish", 1) /\ h.granted /\ Idle
  BY DEF Finish, Call
<1>2. /\ g \in Handles /\ g.granted /\ g.durable /\ g.original = h.original /\ g.try = NoTry
      /\ g.own = Settle.own /\ g.record = Settle.record /\ g.stage = h.stage /\ g.consent = h.consent
      /\ g.used = h.used /\ g.direction = "forward"
  <2>1. Settle \in Handles
    BY <1>1, SettleShape
  <2>2. g \in Handles
    BY <2>1 DEF Handles
  <2> QED  BY <1>1, <2>1, <2>2, SettleShape DEF Handles
<1>3. Fits(g.record, g)
  <2>1. Fits(Settle.record, Settle) /\ Settle.record.original.image = "before"
    BY <1>1, Settling DEF Knows, Fits, Sound
  <2> QED  BY <1>1, <1>2, <2>1, SettleShape DEF Fits
<1>4. h' = g /\ call' = "finish" /\ at' = 1
  BY <1>1 DEF Call
<1>5. h.consent # None => g.direction = h.direction /\ g.used
  <2>1. h.consent # None => h.direction # None /\ h.used
    BY <1>1, Settling
  <2>2. h.direction \in {None, "forward", "reverse"}
    BY <1>1, TypeParts DEF IInv, Handles
  <2> QED  BY <1>1, <1>2, <2>1, <2>2
<1>6. PlainInv' /\ ApplyInv' /\ RestoreInv' /\ FinishInv'
  BY <1>1, <1>2, <1>4 DEF PlainInv, ApplyInv, RestoreInv, FinishInv
<1>7. g.own.leaf.image # "before" /\ g.direction # None
  BY <1>1, <1>2, NullFacts
<1> HIDE DEF g
<1>8. /\ TypeOK' /\ RecordInv' /\ CallInv' /\ OpenInv' /\ JournalInv'
      /\ QuiescentInv' /\ ConsentInv' /\ (Quiet' => Quiet /\ DiskInv' /\ OwnerInv')
  BY <1>1, <1>2, <1>3, <1>5, <1>6, <1>7, Firsts, Calls, Calling
<1>9. SyncedInv'
  BY <1>4 DEF SyncedInv
<1> QED  BY <1>6, <1>8, <1>9 DEF IInv, QuietInv

\* Restore: from its first step when the after-image is there.
LEMMA RestoreCallInv == IInv /\ Restore => IInv'
<1> SUFFICES ASSUME IInv, Restore  PROVE IInv'
  OBVIOUS
<1> DEFINE g == [Settle EXCEPT !.direction = "reverse"]
           reverse == Settle.own.leaf.image = "after"
           which == IF h.durable THEN "restore" ELSE "plain_restore"
           first == IF reverse THEN 1 ELSE IF h.durable THEN 6 ELSE 4
<1>1. /\ h # None /\ h.direction # "forward" /\ Call(g, which, first) /\ h.granted /\ Idle
  BY DEF Restore, Call
<1>2. /\ g \in Handles /\ g.granted /\ g.durable = h.durable /\ g.original = h.original /\ g.try = NoTry
      /\ g.own = Settle.own /\ g.record = Settle.record /\ g.stage = h.stage /\ g.consent = h.consent
      /\ g.used = h.used /\ g.direction = "reverse"
  <2>1. Settle \in Handles
    BY <1>1, SettleShape
  <2>2. g \in Handles
    BY <2>1 DEF Handles
  <2> QED  BY <1>1, <2>1, <2>2, SettleShape DEF Handles
<1>3. h.durable => Fits(g.record, g)
  <2>1. h.durable => Fits(Settle.record, Settle)
    BY <1>1, Settling DEF Knows
  <2> QED  BY <1>1, <1>2, <2>1, SettleShape DEF Fits
<1>4. h' = g /\ call' = which /\ at' = first
  BY <1>1 DEF Call
<1>5. h.consent # None => g.direction = h.direction /\ g.used
  <2>1. h.consent # None => h.direction # None /\ h.used
    BY <1>1, Settling
  <2>2. h.direction \in {None, "forward", "reverse"}
    BY <1>1, TypeParts DEF IInv, Handles
  <2> QED  BY <1>1, <1>2, <2>1, <2>2
<1>6. which \in {"restore", "plain_restore"} /\ (h.durable <=> which = "restore") /\ first \in {1, 4, 6}
      /\ first \in DOMAIN Steps[which] /\ ~SwapNext(which, first)
      /\ (reverse => first = 1) /\ (~reverse => first >= 4) /\ (which = "restore" => first # 4)
  BY Firsts, Calls
<1>7. PlainInv' /\ ApplyInv' /\ FinishInv'
  BY <1>4, <1>6 DEF PlainInv, ApplyInv, FinishInv
<1>8. RestoreInv'
  <2>1. Settle.own.leaf.image \in {"before", "after"}
    BY <1>1, Settling
  <2> QED  BY <1>2, <1>4, <2>1 DEF RestoreInv
<1>9. g.direction # None /\ g.direction # "forward"
  BY <1>2, NullFacts
<1> HIDE DEF g, which
<1>10. /\ TypeOK' /\ RecordInv' /\ CallInv' /\ OpenInv' /\ JournalInv'
       /\ QuiescentInv' /\ ConsentInv' /\ (Quiet' => Quiet /\ DiskInv' /\ OwnerInv')
  <2> HIDE DEF first
  <2> QED  BY <1>1, <1>2, <1>3, <1>5, <1>6, <1>7, <1>9, Calling
<1>11. SyncedInv'
  <2> HIDE DEF first
  <2>1. call' # "open" /\ call' # "apply" /\ call' # "finish" /\ (call' = "restore" => at' \in {1, 6})
    BY <1>4, <1>6
  <2> QED  BY <2>1 DEF SyncedInv
<1> QED  BY <1>7, <1>8, <1>10, <1>11 DEF IInv, QuietInv

-----------------------------------------------------------------------------
(* Steps that are done.                                                      *)

\* A step that is done, once the handle it leaves is known.
LEMMA Advancing ==
  ASSUME IInv, call # "none", NEW g, Done(g), NamesOK', RecordInv',
         g \in Handles, g.record # None => Valid(g.record)
  PROVE  TypeOK' /\ (Quiescent' <=> SwapNext(call', at')) /\ (Quiet' <=> Quiet)
<1>1. TypeOK /\ call \in DOMAIN Steps
  BY DEF IInv, TypeOK
<1>2. /\ h' = g /\ UNCHANGED <<agreed, edits, faults, legacy>>
      /\ call' \in DOMAIN Steps /\ at' \in 1..11 /\ (call' # "none" => at' \in DOMAIN Steps[call'])
  BY <1>1, Onward, OnwardType
<1>3. HandleOK' /\ CountsOK' /\ g # None
  BY <1>1, <1>2, NullFacts, TypeParts DEF HandleOK, CountsOK
<1>4. TypeOK'
  BY <1>2, <1>3, TypeNext
<1> QED  BY <1>2, <1>4, QuiescentNext DEF Quiet

\* A handle that a step leaves as it is, in the call or behind its last step.
LEMMA SameHandle ==
  ASSUME IInv, h # None, h' = h, call' = call \/ (call' = "none" /\ call \notin Opening)
  PROVE  CallInv' /\ JournalInv' /\ ConsentInv'
<1>1. CallInv'
  BY DEF IInv, CallInv, Opening
<1>2. JournalInv'
  BY DEF IInv, JournalInv, Opening, Fits, Knows
<1>3. ConsentInv'
  BY DEF IInv, ConsentInv
<1> QED  BY <1>1, <1>2, <1>3

\* The handle and the record it knows of are there while a call is at work.
LEMMA Working ==
  ASSUME IInv, NEW step, Doing(step)
  PROVE  /\ call # "none" /\ call \in DOMAIN Steps /\ h # None /\ h \in Handles /\ TypeOK
         /\ h.record # None => Valid(h.record)
         /\ call \notin Opening => h.granted
<1>1. TypeOK /\ call \in DOMAIN Steps
  BY DEF IInv, TypeOK
<1>2. call # "none"
  BY <1>1, Where
<1> QED  BY <1>1, <1>2, TypeParts DEF IInv, TypeOK, HandleOK, CallInv

\* The barrier is created.
LEMMA CreatePendingInv == IInv /\ CreatePending => IInv'
<1> SUFFICES ASSUME IInv, CreatePending  PROVE IInv'
  OBVIOUS
<1>1. Doing("pending") /\ Owned(h) /\ Put("pending", TRUE) /\ Done(h)
  BY DEF CreatePending
<1>2. call # "none" /\ h # None /\ h \in Handles /\ TypeOK /\ call \in DOMAIN Steps
      /\ (h.record # None => Valid(h.record))
  BY <1>1, Working
<1>3. call \in {"open", "plain_open"} /\ at = 1
  BY <1>1, <1>2, Where
<1>4. h' = h /\ call' = call /\ at' = 2
  BY <1>1, <1>2, <1>3, Onward DEF Last
<1>5. /\ now'.leaf = now.leaf /\ now'.record = now.record /\ now'.pending = TRUE
      /\ disk'.leaf = disk.leaf /\ disk'.record = disk.record /\ disk'.pending = disk.pending \cup {TRUE}
      /\ NamesOK'
  BY <1>1, TypeParts DEF Put, IInv, NamesOK
<1>6. RecordInv'
  BY <1>5 DEF IInv, RecordInv
<1>7. TypeOK' /\ ~Quiescent' /\ (Quiet' <=> Quiet)
  BY <1>1, <1>2, <1>3, <1>4, <1>5, <1>6, Advancing DEF SwapNext
<1>8. CallInv' /\ JournalInv' /\ ConsentInv'
  BY <1>2, <1>4, SameHandle
<1>9. OpenInv'
  BY <1>3, <1>4 DEF IInv, OpenInv
<1>10. ApplyInv' /\ FinishInv' /\ RestoreInv' /\ PlainInv'
  BY <1>3, <1>4 DEF ApplyInv, FinishInv, RestoreInv, PlainInv
<1>11. ASSUME Quiet  PROVE DiskInv' /\ OwnerInv' /\ SyncedInv'
  <2>1. DiskInv'
    BY <1>5, <1>11 DEF IInv, QuietInv, DiskInv
  <2>2. ~h.granted
    BY <1>2, <1>3 DEF IInv, CallInv, Opening
  <2>3. OwnerInv'
    BY <1>2, <1>3, <1>4, <1>5, <1>11, <2>2 DEF IInv, QuietInv, OwnerInv
  <2>4. Barred'
    BY <1>5 DEF Barred
  <2>5. SyncedInv'
    BY <1>3, <1>4, <2>4 DEF SyncedInv
  <2> QED  BY <2>1, <2>3, <2>5
<1> QED  BY <1>6, <1>7, <1>8, <1>9, <1>10, <1>11 DEF IInv, QuiescentInv, QuietInv

\* The record's file is created, empty; before it there was none.
LEMMA CreateRecordInv == IInv /\ CreateRecord => IInv'
<1> SUFFICES ASSUME IInv, CreateRecord  PROVE IInv'
  OBVIOUS
<1> DEFINE g == [h EXCEPT !.own.record = Blank]
<1>1. Doing("slot") /\ Owned(h) /\ Put("record", Blank) /\ Done(g)
  BY DEF CreateRecord
<1>2. call # "none" /\ h # None /\ h \in Handles /\ TypeOK /\ call \in DOMAIN Steps
      /\ (h.record # None => Valid(h.record))
  BY <1>1, Working
<1>3. call = "open" /\ at = 3
  BY <1>1, <1>2, Where
<1>4. h' = g /\ call' = "open" /\ at' = 4
  BY <1>1, <1>2, <1>3, Onward DEF Last
<1>5. /\ g \in Handles /\ g # None /\ g.own.leaf = h.own.leaf /\ g.own.record = Blank
      /\ g.durable = h.durable /\ g.granted = h.granted /\ g.used = h.used /\ g.direction = h.direction
      /\ g.original = h.original /\ g.try = h.try /\ g.record = h.record /\ g.stage = h.stage
      /\ g.consent = h.consent
  <2>1. g \in Handles
    BY <1>2 DEF Handles
  <2> QED  BY <1>2, <2>1, NullFacts DEF Handles
<1> HIDE DEF g
<1>6. /\ now'.leaf = now.leaf /\ now'.record = Blank /\ now'.pending = now.pending
      /\ disk'.leaf = disk.leaf /\ disk'.record = disk.record \cup {Blank} /\ disk'.pending = disk.pending
      /\ NamesOK'
  BY <1>1, TypeParts DEF Put, IInv, NamesOK
<1>7. /\ h.durable /\ ~h.granted /\ h.direction = None /\ ~h.used /\ h.stage = None /\ h.consent = None
      /\ h.try = NoTry /\ h.own.leaf = h.original /\ h.original.image = "before" /\ h.own.record = None
  BY <1>2, <1>3 DEF IInv, CallInv, OpenInv, Opening
<1>8. now.leaf = h.original /\ now.record = None
  BY <1>1, <1>7 DEF Owned
<1>9. RecordInv'
  BY <1>6, <1>8 DEF IInv, RecordInv, Recorded
<1>10. TypeOK' /\ ~Quiescent' /\ (Quiet' <=> Quiet)
  BY <1>1, <1>2, <1>4, <1>5, <1>6, <1>9, Advancing DEF SwapNext
<1>11. CallInv'
  <2>1. ~h'.granted /\ h'.durable
    BY <1>4, <1>5, <1>7
  <2> QED  BY <1>4, <1>5, <1>7, <2>1, NullFacts DEF CallInv, Opening
<1>12. OpenInv'
  BY <1>4, <1>5, <1>7 DEF OpenInv
<1>13. ApplyInv' /\ FinishInv' /\ RestoreInv' /\ PlainInv' /\ JournalInv' /\ ConsentInv'
  BY <1>4, <1>5, <1>7 DEF ApplyInv, FinishInv, RestoreInv, PlainInv, JournalInv, ConsentInv
<1>14. ASSUME Quiet  PROVE DiskInv' /\ OwnerInv' /\ SyncedInv'
  <2>1. disk.record = {None} /\ disk.leaf = {now.leaf} /\ Lasting /\ Barred
    <3>1. DiskInv /\ SyncedInv
      BY <1>14 DEF IInv, QuietInv
    <3>2. ~Recorded(now.record)
      BY <1>8 DEF Recorded
    <3>3. disk.record = {None} /\ disk.leaf = {now.leaf}
      BY <1>8, <3>1, <3>2 DEF DiskInv
    <3>4. Lasting /\ Barred
      BY <1>3, <3>1 DEF SyncedInv
    <3> QED  BY <3>3, <3>4
  <2>2. DiskInv'
    BY <1>6, <1>7, <1>8, <2>1, NullFacts DEF DiskInv, Explained, Agreed, Recorded, Lasting
  <2>3. h'.durable /\ ~h'.granted
    BY <1>4, <1>5, <1>7
  <2>4. OwnerInv'
    BY <1>4, <1>5, <1>6, <1>7, <1>8, <2>1, <2>3 DEF OwnerInv, Recorded
  <2>5. Barred' /\ Lasting'
    BY <1>6, <2>1 DEF Barred, Lasting
  <2>6. SyncedInv'
    BY <1>4, <1>6, <2>1, <2>5 DEF SyncedInv
  <2> QED  BY <2>2, <2>4, <2>6
<1> QED  BY <1>9, <1>10, <1>11, <1>12, <1>13, <1>14 DEF IInv, QuiescentInv, QuietInv

\* The call that opened the handle is over; the handle knows its record.
LEMMA GrantInv == IInv /\ Grant => IInv'
<1> SUFFICES ASSUME IInv, Grant  PROVE IInv'
  OBVIOUS
<1> DEFINE g == [h EXCEPT !.granted = TRUE]
<1>1. Doing("grant") /\ Owned(h) /\ Done(g) /\ UNCHANGED <<now, disk>>
  BY DEF Grant
<1>2. call # "none" /\ h # None /\ h \in Handles /\ TypeOK /\ call \in DOMAIN Steps
      /\ (h.record # None => Valid(h.record))
  BY <1>1, Working
<1>3. call \in Opening /\ at = Last(call) /\ (call = "open" => at = 6)
  BY <1>1, <1>2, Where DEF Opening, Last
<1>4. h' = g /\ call' = "none" /\ at' = 1 /\ Rest
  BY <1>1, <1>2, <1>3, Onward DEF Rest, TypeOK
<1>5. /\ g \in Handles /\ g # None /\ g.own = h.own /\ g.granted
      /\ g.durable = h.durable /\ g.used = h.used /\ g.direction = h.direction
      /\ g.original = h.original /\ g.try = h.try /\ g.record = h.record /\ g.stage = h.stage
      /\ g.consent = h.consent
  <2>1. g \in Handles
    BY <1>2 DEF Handles
  <2> QED  BY <1>2, <2>1, NullFacts DEF Handles
<1> HIDE DEF g
<1>6. NamesOK' /\ RecordInv' /\ (Quiet => DiskInv') /\ now' = now /\ disk' = disk
  BY <1>1, Untouched
<1>7. TypeOK' /\ (Quiet' <=> Quiet)
  BY <1>1, <1>2, <1>5, <1>6, Advancing
<1>8. CallInv'
  BY <1>2, <1>4, <1>5 DEF IInv, CallInv, Opening
<1>9. JournalInv'
  <2> SUFFICES ASSUME h.durable  PROVE JournalInv'
    BY <1>4, <1>5 DEF JournalInv
  <2>1. CASE call = "open"
    <3>1. /\ h.try = NoTry /\ Fits(h.record, h) /\ h.record.phase = "prepared" /\ h.own.record = h.record
      BY <1>3, <2>1 DEF IInv, OpenInv
    <3>2. h.record \in Records
      BY <3>1 DEF Fits, Sound, Valid
    <3>3. h.own.record = [h.record EXCEPT !.forward = h.own.record.forward]
      BY <3>1, <3>2 DEF Records
    <3>4. Knows(g)
      BY <1>5, <3>1, <3>2, <3>3 DEF Knows, Fits
    <3> QED  BY <1>4, <1>5, <3>1, <3>4 DEF JournalInv, NoTry, Knows, Fits
  <2>2. CASE call # "open"
    <3>1. Knows(g)
      BY <1>2, <1>5, <2>2 DEF IInv, JournalInv, Knows, Fits
    <3>2. h.try.record # None => Fits(h.try.record, g) /\ h.try.leaf = None
      BY <1>2, <1>5, <2>2 DEF IInv, JournalInv, Fits
    <3> QED  BY <1>2, <1>4, <1>5, <2>2, <3>1, <3>2 DEF IInv, JournalInv, Knows, Fits
  <2> QED  BY <2>1, <2>2
<1>10. ConsentInv'
  BY <1>2, <1>4, <1>5 DEF IInv, ConsentInv
<1>11. ASSUME Quiet  PROVE OwnerInv'
  <2>1. OwnerInv /\ SyncedInv
    BY <1>11 DEF IInv, QuietInv
  <2>2. h'.durable
    BY <1>2, <1>4, <1>5, <2>1 DEF OwnerInv
  <2>3. \A r \in disk'.record : Recorded(r) => r.original = h'.original
    BY <1>2, <1>4, <1>5, <1>6, <2>1 DEF OwnerInv
  <2>4. now.leaf.image = "after" => Remembered(h.record, now.leaf)
    <3>1. CASE call = "open"
      BY <1>2, <2>1, <3>1 DEF IInv, OpenInv, OwnerInv
    <3> QED  BY <1>2, <2>1, <3>1 DEF OwnerInv
  <2>5. h.direction = None => Lasting
    <3>1. CASE call = "open"
      BY <1>3, <2>1, <3>1 DEF SyncedInv
    <3>2. CASE call = "recover"
      BY <1>2, <3>2 DEF IInv, CallInv
    <3>3. CASE call = "plain_open"
      BY <1>2, <2>1, <3>3 DEF IInv, CallInv, OwnerInv
    <3> QED  BY <1>3, <3>1, <3>2, <3>3 DEF Opening
  <2>6. (now'.leaf.image = "after" => Remembered(h'.record, now'.leaf)) /\ (h'.direction = None => Lasting')
    BY <1>4, <1>5, <1>6, <2>4, <2>5 DEF Lasting
  <2> QED  BY <1>4, <2>2, <2>3, <2>6 DEF OwnerInv
<1> QED  BY <1>4, <1>6, <1>7, <1>8, <1>9, <1>10, <1>11, Resting DEF IInv, QuietInv

\* A new inode is none the record speaks of.
LEMMA FreshInode ==
  ASSUME h # None, h.record \in Records, h.record.original \in Files, NEW i \in Inodes, Fresh(i)
  PROVE  i # h.record.original.inode
<1>1. i \notin InUse
  BY DEF Fresh
<1>2. h.record \in {now.record} \cup disk.record \cup {h.record, h.try.record}
      /\ h.record \notin {None, Blank, Foreign} /\ h.record.original # None
  BY NullFacts
<1>3. h.record.original \in UNION {{r.original, r.forward, r.candidate, r.restored} :
        r \in ({now.record} \cup disk.record \cup {h.record, h.try.record}) \ {None, Blank, Foreign}}
  BY <1>2
<1> QED  BY <1>1, <1>2, <1>3 DEF InUse

\* The sibling is there; what it is to replace is there too.
LEMMA StageInv == IInv /\ Stage => IInv'
<1> SUFFICES ASSUME IInv, Stage  PROVE IInv'
  OBVIOUS
<1>1. PICK step \in DOMAIN Staged, i \in Inodes :
        Doing(step) /\ Fresh(i) /\ Done([h EXCEPT !.stage = Prepared(Staged[step], i)])
  BY DEF Stage
<1> DEFINE file == Prepared(Staged[step], i)
           g == [h EXCEPT !.stage = file]
<1>2. call # "none" /\ h # None /\ h \in Handles /\ TypeOK /\ call \in DOMAIN Steps
      /\ (h.record # None => Valid(h.record))
  BY <1>1, Working
<1>3. \/ step = "stage_after" /\ file.image = "after" /\ call \in {"apply", "plain_apply"}
      \/ step = "stage_before" /\ file.image = "before" /\ call \in {"restore", "plain_restore"}
  <2>1. step \in {"stage_after", "stage_before"}
    BY DEF Staged
  <2> QED  BY <1>1, <1>2, <2>1, Where DEF Prepared, Staged
<1>4. at = 1
  BY <1>1, <1>2, <1>3, Where
<1>5. h' = g /\ call' = call /\ at' = 2 /\ Owned(h) /\ UNCHANGED <<now, disk>>
  BY <1>1, <1>2, <1>3, <1>4, Onward DEF Last, Stage
<1>6. file \in Files /\ file # None /\ file.inode = i /\ ~file.moved
  <2>1. Staged[step] \in {"before", "after"}
    BY DEF Staged
  <2>2. file \in Files
    BY <2>1 DEF Prepared, Files
  <2>3. file.inode = i /\ ~file.moved
    BY DEF Prepared
  <2> QED  BY <2>2, <2>3, NullFacts
<1> HIDE DEF file
<1>7. /\ g \in Handles /\ g # None /\ g.own = h.own /\ g.granted = h.granted
      /\ g.durable = h.durable /\ g.used = h.used /\ g.direction = h.direction
      /\ g.original = h.original /\ g.try = h.try /\ g.record = h.record /\ g.stage = file
      /\ g.consent = h.consent
  <2>1. g \in Handles
    BY <1>2, <1>6 DEF Handles
  <2> QED  BY <1>2, <2>1, NullFacts DEF Handles
<1>8. Done(g)
  BY <1>1 DEF file
<1> HIDE DEF g
<1>9. NamesOK' /\ RecordInv' /\ (Quiet => DiskInv') /\ now' = now /\ disk' = disk
  BY <1>5, Untouched
<1>10. TypeOK' /\ (Quiescent' <=> SwapNext(call', at')) /\ (Quiet' <=> Quiet)
  BY <1>2, <1>7, <1>8, <1>9, Advancing
<1>11. CallInv' /\ OpenInv' /\ FinishInv'
  <2>1. CallInv'
    BY <1>2, <1>5, <1>7 DEF IInv, CallInv
  <2>2. OpenInv' /\ FinishInv'
    BY <1>3, <1>5 DEF OpenInv, FinishInv
  <2> QED  BY <2>1, <2>2
<1>12. call \in {"apply", "restore"} =>
         /\ h.durable /\ Knows(h) /\ h.try = NoTry /\ i # h.original.inode
         /\ now.leaf = h.own.leaf
  <2> SUFFICES ASSUME call \in {"apply", "restore"}
               PROVE  /\ h.durable /\ Knows(h) /\ h.try = NoTry /\ i # h.original.inode
                      /\ now.leaf = h.own.leaf
    OBVIOUS
  <2>1. h.durable /\ Knows(h) /\ h.try = NoTry
    BY <1>2 DEF IInv, CallInv, JournalInv, ApplyInv, RestoreInv
  <2>2. h.record \in Records /\ h.record.original = h.original
    BY <2>1 DEF Knows, Fits, Sound, Valid
  <2> QED  BY <1>1, <1>2, <1>5, <2>1, <2>2, FreshInode DEF Records, Owned
<1>13. JournalInv'
  <2> SUFFICES ASSUME h.durable  PROVE JournalInv'
    BY <1>5, <1>7 DEF JournalInv
  <2>1. call \in {"apply", "restore"}
    BY <1>2, <1>3 DEF IInv, CallInv
  <2>2. Knows(g)
    BY <1>7, <1>12, <2>1 DEF Knows, Fits
  <2> QED  BY <1>5, <1>7, <1>12, <2>1, <2>2 DEF JournalInv, NoTry, Knows, Fits
<1>14. ApplyInv'
  <2> SUFFICES ASSUME call = "apply"  PROVE ApplyInv'
    BY <1>5 DEF ApplyInv
  <2>1. h.used /\ h.direction = None /\ h.record.phase = "prepared"
    BY <1>4 DEF IInv, ApplyInv
  <2>2. h.own.leaf = h.original
    BY <1>12, <2>1 DEF Knows, Fits
  <2>3. StagedAs("after")'
    BY <1>3, <1>5, <1>6, <1>7, <1>12 DEF StagedAs
  <2> QED  BY <1>5, <1>7, <1>12, <2>1, <2>2, <2>3 DEF ApplyInv
<1>15. RestoreInv'
  <2> SUFFICES ASSUME call = "restore"  PROVE RestoreInv'
    BY <1>5 DEF RestoreInv
  <2>1. h.direction = "reverse" /\ h.own.leaf.image = "after"
    BY <1>4 DEF IInv, RestoreInv
  <2>2. StagedAs("before")'
    BY <1>3, <1>5, <1>6, <1>7, <1>12 DEF StagedAs
  <2> QED  BY <1>5, <1>7, <1>12, <2>1, <2>2 DEF RestoreInv
<1>16. PlainInv'
  BY <1>3, <1>5, <1>6, <1>7 DEF PlainInv
<1>17. QuiescentInv'
  BY <1>5, <1>7, <1>9 DEF QuiescentInv, Owned
<1>18. ConsentInv'
  <2> SUFFICES ASSUME h.consent # None  PROVE ConsentInv'
    BY <1>5, <1>7 DEF ConsentInv
  <2>1. h.durable /\ h.used /\ h.direction # None
    BY <1>2 DEF IInv, ConsentInv
  <2>2. call = "restore"
    BY <1>2, <1>3, <2>1 DEF IInv, CallInv, ApplyInv
  <2>3. h.own.leaf.image = "after" /\ h.try = NoTry
    BY <1>4, <2>2 DEF IInv, RestoreInv
  <2>4. ~(h.stage # None /\ h.stage.image = "before" /\ SamePrepared(h.own.leaf, h.stage))
    <3>1. h.own.leaf \in Files /\ h.stage \in Files \cup {None}
      BY <1>2 DEF Handles
    <3> QED  BY <2>3, <3>1, SameFile
  <2>5. h.own.leaf = h.consent.leaf /\ h.direction = h.consent.direction
    BY <1>2, <2>4 DEF IInv, ConsentInv
  <2> QED  BY <1>5, <1>7, <2>1, <2>3, <2>5 DEF ConsentInv, NoTry
<1>19. ASSUME Quiet  PROVE OwnerInv' /\ SyncedInv'
  <2>1. OwnerInv /\ SyncedInv
    BY <1>19 DEF IInv, QuietInv
  <2>2. OwnerInv'
    BY <1>2, <1>5, <1>7, <1>9, <2>1 DEF OwnerInv, Lasting
  <2>3. SyncedInv'
    BY <1>3, <1>4, <1>5, <1>7, <1>9, <2>1 DEF SyncedInv
  <2> QED  BY <2>2, <2>3
<1> QED  BY <1>9, <1>10, <1>11, <1>13, <1>14, <1>15, <1>16, <1>17, <1>18, <1>19 DEF IInv, QuietInv

\* A sync leaves on disk what is in memory.
LEMMA Syncing ==
  ASSUME IInv, NEW name \in {"leaf", "record", "pending"}, Keep(name), UNCHANGED now
  PROVE  /\ NamesOK' /\ RecordInv' /\ (Quiet => DiskInv') /\ (Lasting => Lasting')
         /\ disk'.leaf = (IF name = "leaf" THEN {now.leaf} ELSE disk.leaf)
         /\ disk'.record = (IF name = "record" THEN {now.record} ELSE disk.record)
         /\ disk'.pending = (IF name = "pending" THEN {now.pending} ELSE disk.pending)
<1>1. NamesOK
  BY TypeParts DEF IInv
<1>2. /\ disk' \in [leaf : SUBSET Files, record : SUBSET (Records \cup {None, Blank, Foreign}),
                    pending : SUBSET BOOLEAN]
      /\ disk'.leaf = (IF name = "leaf" THEN {now.leaf} ELSE disk.leaf)
      /\ disk'.record = (IF name = "record" THEN {now.record} ELSE disk.record)
      /\ disk'.pending = (IF name = "pending" THEN {now.pending} ELSE disk.pending)
  <2>1. CASE name = "leaf"
    BY <1>1, <2>1 DEF NamesOK, Keep
  <2>2. CASE name = "record"
    BY <1>1, <2>2 DEF NamesOK, Keep
  <2>3. CASE name = "pending"
    BY <1>1, <2>3 DEF NamesOK, Keep
  <2> QED  BY <2>1, <2>2, <2>3
<1>3. /\ disk'.leaf \subseteq disk.leaf /\ disk'.record \subseteq disk.record
      /\ disk'.pending \subseteq disk.pending
      /\ now.leaf \in disk'.leaf /\ now.record \in disk'.record /\ now.pending \in disk'.pending
  BY <1>1, <1>2 DEF NamesOK
<1>4. NamesOK'
  BY <1>1, <1>2, <1>3 DEF NamesOK
<1>5. RecordInv'
  BY <1>3 DEF IInv, RecordInv
<1>6. ASSUME Quiet  PROVE DiskInv'
  <2>1. DiskInv
    BY <1>6 DEF IInv, QuietInv
  <2>2. now.record = None => disk'.record = {None}
    BY <1>3, <2>1 DEF DiskInv
  <2>3. ~Recorded(now.record) => disk'.leaf = {now.leaf}
    BY <1>3, <2>1 DEF DiskInv
  <2>4. now.leaf.image = "after" =>
          \A leaf \in disk'.leaf, r \in disk'.record : leaf = now.leaf \/ leaf = r.original
    BY <1>3, <2>1 DEF DiskInv
  <2>5. FALSE \in disk'.pending => \A leaf \in disk'.leaf, r \in disk'.record : Agreed(leaf, r)
    BY <1>3, <2>1 DEF DiskInv
  <2>6. \A leaf \in disk'.leaf, r \in disk'.record : Explained(r, leaf)
    BY <1>3, <2>1 DEF DiskInv
  <2>7. \A r, s \in disk'.record : Recorded(r) /\ Recorded(s) => r.original = s.original
    BY <1>3, <2>1 DEF DiskInv
  <2> QED  BY <2>2, <2>3, <2>4, <2>5, <2>6, <2>7 DEF DiskInv
<1>7. Lasting => Lasting'
  BY <1>3 DEF Lasting
<1> QED  BY <1>2, <1>4, <1>5, <1>6, <1>7

LEMMA SyncInv == IInv /\ Sync => IInv'
<1> SUFFICES ASSUME IInv, Sync  PROVE IInv'
  OBVIOUS
<1>1. PICK step \in DOMAIN Synced : Doing(step) /\ Keep(Synced[step]) /\ Done(h) /\ UNCHANGED now
  BY DEF Sync
<1> DEFINE name == Synced[step]
<1>2. call # "none" /\ h # None /\ h \in Handles /\ TypeOK /\ call \in DOMAIN Steps
      /\ (h.record # None => Valid(h.record))
  BY <1>1, Working
<1>3. \/ step = "sync_leaf" /\ name = "leaf"
      \/ step = "sync_record" /\ name = "record"
      \/ step = "sync_pending" /\ name = "pending"
  BY DEF Synced
<1> HIDE DEF name
<1>4. /\ NamesOK' /\ RecordInv' /\ (Quiet => DiskInv') /\ (Lasting => Lasting')
      /\ disk'.leaf = (IF name = "leaf" THEN {now.leaf} ELSE disk.leaf)
      /\ disk'.record = (IF name = "record" THEN {now.record} ELSE disk.record)
      /\ disk'.pending = (IF name = "pending" THEN {now.pending} ELSE disk.pending)
  <2>1. name \in {"leaf", "record", "pending"} /\ Keep(name)
    BY <1>1, <1>3 DEF name
  <2> QED  BY <1>1, <2>1, Syncing
<1>5. \/ call = "open" /\ <<at, name>> \in {<<2, "pending">>, <<5, "record">>}
      \/ call = "recover" /\ at = 1
      \/ call = "apply" /\ <<at, name>> \in {<<3, "record">>, <<5, "leaf">>, <<7, "record">>}
      \/ call = "finish" /\ <<at, name>> \in {<<1, "leaf">>, <<3, "record">>, <<5, "pending">>}
      \/ call = "restore" /\ <<at, name>> \in
           {<<3, "record">>, <<5, "leaf">>, <<6, "leaf">>, <<8, "record">>, <<10, "pending">>}
      \/ call = "plain_open" /\ at = 2
      \/ call = "plain_apply" /\ at = 3
      \/ call = "plain_restore" /\ at \in {3, 4, 6}
  BY <1>1, <1>2, <1>3, Where
<1>6. TypeOK' /\ (Quiescent' <=> SwapNext(call', at')) /\ (Quiet' <=> Quiet) /\ h' = h /\ now' = now
  BY <1>1, <1>2, <1>4, Advancing, Onward
<1>7. CASE call \in {"apply", "plain_apply"} /\ at = Last(call)
  <2>1. call' = "none" /\ at' = 1 /\ Rest /\ call \notin Opening
    BY <1>1, <1>2, <1>7, Onward DEF Rest, TypeOK, Opening
  <2>2. CallInv' /\ JournalInv' /\ ConsentInv'
    BY <1>2, <1>6, <2>1, SameHandle
  <2>3. ASSUME Quiet  PROVE OwnerInv'
    <3>1. OwnerInv /\ DiskInv'
      BY <1>4, <2>3 DEF IInv, QuietInv
    <3>2. \A r \in disk'.record : r \in disk.record
      BY <1>4, TypeParts DEF IInv, NamesOK
    <3>3. call # "open"
      BY <2>1 DEF Opening
    <3> QED  BY <1>2, <1>4, <1>6, <2>1, <3>1, <3>2, <3>3 DEF OwnerInv
  <2> QED  BY <1>4, <1>6, <2>1, <2>2, <2>3, Resting DEF IInv, QuietInv
<1>8. CASE ~(call \in {"apply", "plain_apply"} /\ at = Last(call))
  <2>1. call' = call /\ at' = at + 1
    BY <1>1, <1>2, <1>5, <1>8, Onward DEF Last
  <2>2. CallInv' /\ JournalInv' /\ ConsentInv'
    BY <1>2, <1>6, <2>1, SameHandle
  <2>3. OpenInv'
    BY <1>5, <1>6, <2>1 DEF IInv, OpenInv, Fits
  <2>4. ApplyInv'
    BY <1>5, <1>6, <1>8, <2>1 DEF IInv, ApplyInv, StagedAs, Last
  <2>5. FinishInv'
    BY <1>6, <2>1 DEF IInv, FinishInv
  <2>6. RestoreInv'
    BY <1>5, <1>6, <2>1 DEF IInv, RestoreInv, StagedAs
  <2>7. PlainInv'
    BY <1>5, <2>1 DEF PlainInv
  <2>8. QuiescentInv'
    <3>1. Quiescent <=> SwapNext(call, at)
      BY <1>2, QuiescentAt DEF TypeOK
    <3>2. SwapNext(call', at') => SwapNext(call, at)
      BY <1>5, <2>1 DEF SwapNext
    <3> QED  BY <1>6, <3>1, <3>2 DEF IInv, QuiescentInv
  <2>9. ASSUME Quiet  PROVE OwnerInv' /\ SyncedInv'
    <3>1. OwnerInv /\ SyncedInv
      BY <2>9 DEF IInv, QuietInv
    <3>2. OwnerInv'
      <4>1. \A r \in disk'.record : r \in disk.record
        BY <1>4, TypeParts DEF IInv, NamesOK
      <4> QED  BY <1>2, <1>4, <1>6, <2>1, <3>1, <4>1 DEF OwnerInv
    <3>3. SyncedInv'
      <4>3. CASE call = "open"
        <5>1. call' = "open" /\ at' \in {3, 6} /\ (at = 2 \/ Lasting)
          BY <1>5, <2>1, <3>1, <4>3 DEF SyncedInv
        <5>2. Barred' /\ Lasting'
          <6>1. Barred
            BY <1>5, <3>1, <4>3 DEF SyncedInv
          <6>2. CASE at = 2
            <7>1. disk'.pending = {now.pending}
              BY <1>4, <1>5, <4>3, <6>2
            <7> QED  BY <1>6, <6>1, <7>1 DEF Barred, Lasting
          <6>3. CASE at # 2
            BY <1>4, <1>6, <5>1, <6>1, <6>3 DEF Barred
          <6> QED  BY <6>2, <6>3
        <5> QED  BY <5>1, <5>2 DEF SyncedInv
      <4>4. CASE call = "apply"
        BY <1>4, <1>5, <1>6, <1>8, <2>1, <3>1, <4>4 DEF SyncedInv, Last
      <4>5. CASE call = "finish"
        BY <1>4, <1>5, <1>6, <2>1, <3>1, <4>5 DEF SyncedInv
      <4>6. CASE call = "restore"
        BY <1>4, <1>5, <1>6, <2>1, <3>1, <4>6 DEF SyncedInv
      <4>7. CASE call \notin {"open", "apply", "finish", "restore"}
        BY <2>1, <4>7 DEF SyncedInv
      <4> QED  BY <4>3, <4>4, <4>5, <4>6, <4>7
    <3> QED  BY <3>2, <3>3
  <2> QED  BY <1>4, <1>6, <2>2, <2>3, <2>4, <2>5, <2>6, <2>7, <2>8, <2>9 DEF IInv, QuietInv
<1> QED  BY <1>7, <1>8

\* The barrier comes down when file and record agree.
LEMMA UnlinkInv == IInv /\ Unlink => IInv'
<1> SUFFICES ASSUME IInv, Unlink  PROVE IInv'
  OBVIOUS
<1> DEFINE g == [h EXCEPT !.removed = TRUE]
<1>1. Doing("unlink") /\ Owned(h) /\ Done(g)
      /\ (Put("pending", FALSE) \/ UNCHANGED <<now, disk>>)
  BY DEF Unlink
<1>2. call # "none" /\ h # None /\ h \in Handles /\ TypeOK /\ call \in DOMAIN Steps
      /\ (h.record # None => Valid(h.record)) /\ (call \notin Opening => h.granted)
  BY <1>1, Working
<1>3. <<call, at>> \in {<<"finish", 4>>, <<"restore", 9>>, <<"plain_restore", 5>>}
  BY <1>1, <1>2, Where
<1>4. h' = g /\ call' = call /\ at' = at + 1
  BY <1>1, <1>2, <1>3, Onward DEF Last
<1>5. /\ g \in Handles /\ g # None /\ g.own = h.own /\ g.granted = h.granted
      /\ g.durable = h.durable /\ g.used = h.used /\ g.direction = h.direction
      /\ g.original = h.original /\ g.try = h.try /\ g.record = h.record /\ g.stage = h.stage
      /\ g.consent = h.consent
  <2>1. g \in Handles
    BY <1>2 DEF Handles
  <2> QED  BY <1>2, <2>1, NullFacts DEF Handles
<1> HIDE DEF g
<1>6. /\ now'.leaf = now.leaf /\ now'.record = now.record
      /\ disk'.leaf = disk.leaf /\ disk'.record = disk.record
      /\ NamesOK'
  <2>1. CASE Put("pending", FALSE)
    BY <2>1, TypeParts DEF Put, IInv, NamesOK
  <2>2. CASE UNCHANGED <<now, disk>>
    BY <2>2, TypeParts DEF IInv, NamesOK
  <2> QED  BY <1>1, <2>1, <2>2
<1>7. RecordInv'
  BY <1>6 DEF IInv, RecordInv
<1>8. TypeOK' /\ (Quiescent' <=> SwapNext(call', at')) /\ (Quiet' <=> Quiet)
  BY <1>1, <1>2, <1>5, <1>6, <1>7, Advancing
<1>9. CallInv' /\ OpenInv' /\ ApplyInv' /\ PlainInv'
  BY <1>2, <1>3, <1>4, <1>5 DEF IInv, CallInv, OpenInv, ApplyInv, PlainInv
<1>10. JournalInv'
  BY <1>2, <1>3, <1>4, <1>5 DEF IInv, JournalInv, Knows, Fits
<1>11. FinishInv' /\ RestoreInv'
  BY <1>3, <1>4, <1>5 DEF IInv, FinishInv, RestoreInv
<1>12. ~Quiescent'
  BY <1>3, <1>4, <1>8 DEF SwapNext
<1>13. ConsentInv'
  BY <1>2, <1>4, <1>5 DEF IInv, ConsentInv
<1>14. ASSUME Quiet  PROVE DiskInv' /\ OwnerInv' /\ SyncedInv'
  <2>1. DiskInv /\ OwnerInv /\ SyncedInv
    BY <1>14 DEF IInv, QuietInv
  <2>2. h.durable /\ call \in {"finish", "restore"} /\ now.record = h.own.record /\ now.leaf = h.own.leaf
    BY <1>1, <1>2, <1>3, <2>1 DEF OwnerInv, IInv, CallInv
  <2>3. Recorded(now.record)
    BY <1>2, <1>3, <2>2, NullFacts DEF IInv, JournalInv, Knows, Recorded
  <2>4. disk.leaf = {now.leaf} /\ disk.record = {now.record}
    BY <1>3, <2>1, <2>2 DEF SyncedInv
  <2>5. Agreed(now.leaf, now.record)
    <3>1. CASE call = "finish"
      BY <1>3, <2>1, <2>2, <2>3, <3>1 DEF IInv, FinishInv, SyncedInv, Agreed
    <3>2. CASE call = "restore"
      BY <1>3, <2>1, <2>2, <2>3, <3>2 DEF IInv, RestoreInv, SyncedInv, Agreed
    <3> QED  BY <2>2, <3>1, <3>2
  <2>6. \A leaf \in disk'.leaf, r \in disk'.record : Agreed(leaf, r)
    BY <1>6, <2>4, <2>5
  <2>7. DiskInv'
    BY <1>6, <2>1, <2>6 DEF DiskInv
  <2>8. h.direction # None
    BY <2>2, NullFacts DEF IInv, FinishInv, RestoreInv
  <2>9. OwnerInv'
    BY <1>2, <1>4, <1>5, <1>6, <2>1, <2>8 DEF OwnerInv
  <2>10. SyncedInv'
    BY <1>3, <1>4, <1>6, <2>1, <2>2 DEF SyncedInv
  <2> QED  BY <2>7, <2>9, <2>10
<1> QED  BY <1>7, <1>8, <1>9, <1>10, <1>11, <1>12, <1>13, <1>14 DEF IInv, QuiescentInv, QuietInv

\* The last step closes the handle.
LEMMA EndInv == IInv /\ End => IInv'
<1> SUFFICES ASSUME IInv, End  PROVE IInv'
  OBVIOUS
<1>1. Doing("done") /\ Done(None) /\ UNCHANGED <<now, disk>>
  BY DEF End
<1>2. call # "none" /\ TypeOK /\ call \in DOMAIN Steps
  BY <1>1, Working
<1>3. at = Last(call)
  BY <1>1, <1>2, Where DEF Last
<1>4. h' = None /\ Rest /\ UNCHANGED <<agreed, edits, faults, legacy>>
  BY <1>1, <1>2, <1>3, Onward DEF Rest, TypeOK
<1>5. CountsOK'
  BY <1>2, <1>4, TypeParts DEF CountsOK
<1> QED  BY <1>1, <1>4, <1>5, Untouched, Abandoned DEF Quiet

-----------------------------------------------------------------------------
(* Records.                                                                  *)

\* Which record is written where, and what the handle knows there.
LEMMA MarkWhere ==
  ASSUME IInv, NEW phase \in Marks, Doing(phase), Owned(h)
  PROVE  /\ <<phase, call, at>> \in
              {<<"prepared", "open", 4>>, <<"forward_prepared", "apply", 2>>,
               <<"forward_published", "apply", 6>>, <<"forward_completed", "finish", 2>>,
               <<"reverse_prepared", "restore", 2>>, <<"reversed", "restore", 7>>}
         /\ h # None /\ h \in Handles /\ h.durable /\ h.try = NoTry
         /\ now.leaf = h.own.leaf /\ now.record = h.own.record
         /\ now.leaf \in Files /\ h.original \in Files
         /\ call # "open" => h.granted /\ Knows(h) /\ (h.used \/ h.direction # None)
         /\ call = "open" => ~h.granted
<1>1. call # "none" /\ h # None /\ h \in Handles /\ TypeOK /\ call \in DOMAIN Steps
      /\ (call \notin Opening => h.granted)
  BY Working
<1>2. <<phase, call, at>> \in
              {<<"prepared", "open", 4>>, <<"forward_prepared", "apply", 2>>,
               <<"forward_published", "apply", 6>>, <<"forward_completed", "finish", 2>>,
               <<"reverse_prepared", "restore", 2>>, <<"reversed", "restore", 7>>}
  BY <1>1, Where DEF Marks
<1>3. h.durable /\ h.try = NoTry
  BY <1>1, <1>2 DEF IInv, CallInv, OpenInv, ApplyInv, FinishInv, RestoreInv
<1>4. now.leaf = h.own.leaf /\ now.record = h.own.record
  BY <1>3 DEF Owned
<1>5. call # "open" => h.granted /\ Knows(h) /\ (h.used \/ h.direction # None)
  BY <1>1, <1>2, <1>3, NullFacts DEF IInv, JournalInv, ApplyInv, FinishInv, RestoreInv, Opening
<1>6. call = "open" => ~h.granted
  BY <1>1 DEF IInv, CallInv, Opening
<1>7. now.leaf \in Files /\ h.original \in Files
  BY <1>1, TypeParts DEF NamesOK, Handles
<1> QED  BY <1>1, <1>2, <1>3, <1>4, <1>5, <1>6, <1>7

\* What the retained record tells of the one on disk.
LEMMA KnownPhase ==
  ASSUME NEW g, Knows(g)
  PROVE  /\ g.record \in Records /\ g.own.record \in Records /\ Recorded(g.own.record)
         /\ g.own.record.phase = g.record.phase /\ g.own.record.original = g.original
         /\ g.own.record.candidate = g.record.candidate /\ g.own.record.restored = g.record.restored
         /\ g.record.original = g.original /\ g.record.original.image = "before"
<1>1. g.record \in Records /\ g.record.original = g.original /\ g.record.original.image = "before"
  BY DEF Knows, Fits, Sound, Valid
<1>2. g.own.record = [g.record EXCEPT !.forward = g.own.record.forward] /\ g.own.record \in Records
  BY DEF Knows
<1> QED  BY <1>1, <1>2, NullFacts DEF Records, Recorded

\* The record that is written is a valid one, and fits the handle.
LEMMA TargetFits ==
  ASSUME IInv, NEW phase \in Marks, Doing(phase), Owned(h)
  PROVE  /\ Target(phase) \in Records /\ Fits(Target(phase), h)
         /\ phase # "reversed" => Target(phase).phase = phase
         /\ phase = "reversed" => Target(phase).phase \in {"restored", "aborted"}
         /\ phase = "forward_prepared" => Target(phase).forward = h.stage
         /\ phase \in {"forward_prepared", "reverse_prepared"} => Target(phase).candidate = h.stage
         /\ phase \in {"forward_published", "forward_completed"} => Target(phase).forward = h.own.leaf
         /\ phase = "reverse_prepared" => Target(phase).forward = h.record.forward
         /\ phase = "reversed" /\ h.own.leaf # h.original =>
              Target(phase).phase = "restored" /\ Target(phase).restored = h.own.leaf
         /\ phase = "reversed" /\ h.own.leaf = h.original => Target(phase).phase = "aborted"
<1> DEFINE r == h.record
           T == Target(phase)
<1>1. /\ <<phase, call, at>> \in
              {<<"prepared", "open", 4>>, <<"forward_prepared", "apply", 2>>,
               <<"forward_published", "apply", 6>>, <<"forward_completed", "finish", 2>>,
               <<"reverse_prepared", "restore", 2>>, <<"reversed", "restore", 7>>}
      /\ h # None /\ h \in Handles /\ h.durable
      /\ h.original \in Files
      /\ call # "open" => Knows(h)
  BY MarkWhere
<1>2. h.own.leaf \in Files /\ h.stage \in Files \cup {None} /\ h.own.leaf # None
  BY <1>1, NullFacts DEF Handles
<1>3. call # "open" => /\ r \in Records /\ Valid(r) /\ Sound(r) /\ Fits(r, h) /\ r.original = h.original
                       /\ h.original.image = "before"
                       /\ r.forward \in Files \cup {None}
  <2>1. call # "open" => Fits(r, h)
    BY <1>1 DEF Knows
  <2> QED  BY <2>1 DEF Fits, Sound, Valid, Records
<1>4. CASE phase = "prepared"
  <2>1. h.direction = None /\ h.own.leaf = h.original /\ h.original.image = "before"
    BY <1>1, <1>4 DEF IInv, OpenInv
  <2>2. T = [phase |-> "prepared", original |-> h.original, forward |-> None, candidate |-> None,
             restored |-> None]
    BY <1>4 DEF Target
  <2>3. T \in Records
    BY <1>1, <2>2 DEF Records, Phases
  <2>4. Sound(T)
    BY <2>1, <2>2, <2>3 DEF Sound, Valid, Terminal
  <2> QED  BY <1>4, <2>1, <2>2, <2>3, <2>4, NullFacts DEF Fits
<1>5. CASE phase = "forward_prepared"
  <2>1. r.phase = "prepared" /\ h.own.leaf = h.original /\ StagedAs("after")
    BY <1>1, <1>5 DEF IInv, ApplyInv
  <2>2. T = [r EXCEPT !.phase = phase, !.forward = h.stage, !.candidate = h.stage]
    BY <1>5 DEF Target
  <2>3. /\ T \in Records /\ T.phase = "forward_prepared" /\ T.original = h.original
        /\ T.forward = h.stage /\ T.candidate = h.stage /\ T.restored = None
    BY <1>1, <1>2, <1>3, <1>5, <2>1, <2>2 DEF Records, Phases, StagedAs, Valid
  <2>4. Sound(T)
    BY <1>1, <1>3, <1>5, <2>1, <2>3 DEF Sound, Valid, Terminal, StagedAs
  <2> QED  BY <1>5, <2>1, <2>3, <2>4 DEF Fits
<1>6. CASE phase \in {"forward_published", "forward_completed"}
  <2>1. /\ h.own.leaf.image = "after"
        /\ phase = "forward_published" => r.phase = "forward_prepared"
        /\ phase = "forward_completed" => h.direction = "forward"
    BY <1>1, <1>6 DEF IInv, ApplyInv, FinishInv
  <2>2. /\ T \in Records /\ T.phase = phase /\ T.original = h.original
        /\ T.forward = h.own.leaf /\ T.candidate = None /\ T.restored = None
    <3>1. CASE phase = "forward_published"
      <4>1. T = [r EXCEPT !.phase = "forward_published", !.forward = h.own.leaf, !.candidate = None]
        BY <3>1 DEF Target, Published
      <4>2. r.restored = None
        BY <1>1, <1>3, <2>1, <3>1 DEF Valid
      <4> QED  BY <1>1, <1>2, <1>3, <3>1, <4>1, <4>2 DEF Records, Phases
    <3>2. CASE phase = "forward_completed"
      <4>1. T = [[r EXCEPT !.phase = "forward_published", !.forward = h.own.leaf, !.candidate = None]
                   EXCEPT !.phase = "forward_completed", !.restored = None]
        BY <3>2 DEF Target, Published, Completed
      <4> QED  BY <1>1, <1>2, <1>3, <3>2, <4>1 DEF Records, Phases, Terminal
    <3> QED  BY <1>6, <3>1, <3>2
  <2>3. Sound(T)
    BY <1>1, <1>2, <1>3, <1>6, <2>2 DEF Sound, Valid, Terminal
  <2> QED  BY <1>6, <2>1, <2>2, <2>3 DEF Fits
<1>7. CASE phase = "reverse_prepared"
  <2>1. h.own.leaf.image = "after" /\ StagedAs("before") /\ h.direction = "reverse"
    BY <1>1, <1>7 DEF IInv, RestoreInv
  <2>2. T = [r EXCEPT !.phase = phase, !.candidate = h.stage]
    BY <1>7 DEF Target
  <2>3. r.phase \in {"forward_prepared", "forward_published", "reverse_prepared"}
    BY <1>1, <1>3, <1>7, <2>1 DEF Fits, Records, Phases, Terminal
  <2>4. /\ T \in Records /\ T.phase = phase /\ T.original = h.original
        /\ T.forward = r.forward /\ T.forward # None /\ T.candidate = h.stage /\ T.restored = None
    BY <1>1, <1>2, <1>3, <1>7, <2>1, <2>2, <2>3 DEF Records, Phases, StagedAs, Valid
  <2>5. Sound(T)
    BY <1>1, <1>3, <1>7, <2>1, <2>4 DEF Sound, Valid, Terminal, StagedAs
  <2> QED  BY <1>1, <1>3, <1>7, <2>1, <2>4, <2>5 DEF Fits
<1>8. CASE phase = "reversed" /\ h.own.leaf # h.original
  <2>1. h.own.leaf.image = "before" /\ h.direction = "reverse"
    BY <1>1, <1>8 DEF IInv, RestoreInv
  <2>2. T = [r EXCEPT !.phase = "restored", !.candidate = None, !.restored = h.own.leaf]
    BY <1>8, <2>1 DEF Target, Reversed
  <2>3. r.phase \in {"reverse_prepared", "restored"}
    BY <1>1, <1>3, <1>8, <2>1 DEF Fits, Records, Phases, Terminal
  <2>4. /\ T \in Records /\ T.phase = "restored" /\ T.original = h.original
        /\ T.forward # None /\ T.candidate = None /\ T.restored = h.own.leaf
    BY <1>1, <1>2, <1>3, <1>8, <2>2, <2>3 DEF Records, Phases, Terminal, Valid
  <2>5. Sound(T)
    BY <1>1, <1>2, <1>3, <1>8, <2>1, <2>4 DEF Sound, Valid, Terminal
  <2> QED  BY <1>8, <2>1, <2>4, <2>5 DEF Fits
<1>9. CASE phase = "reversed" /\ h.own.leaf = h.original
  <2>1. h.own.leaf.image = "before" /\ h.direction = "reverse"
    BY <1>1, <1>9 DEF IInv, RestoreInv
  <2>2. T = [r EXCEPT !.phase = "aborted", !.candidate = None]
    BY <1>9 DEF Target, Reversed
  <2>3. r.phase \in {"prepared", "forward_prepared", "aborted"}
    BY <1>1, <1>3, <1>9, <2>1 DEF Fits, Records, Phases, Terminal
  <2>4. /\ T \in Records /\ T.phase = "aborted" /\ T.original = h.original
        /\ T.candidate = None /\ T.restored = None
    BY <1>1, <1>2, <1>3, <1>9, <2>2, <2>3 DEF Records, Phases, Terminal, Valid
  <2>5. Sound(T)
    BY <1>1, <1>2, <1>3, <1>9, <2>1, <2>4 DEF Sound, Valid, Terminal
  <2> QED  BY <1>9, <2>1, <2>4, <2>5 DEF Fits
<1> QED  BY <1>4, <1>5, <1>6, <1>7, <1>8, <1>9 DEF Marks

\* A final record is overwritten by its like alone.
LEMMA TargetOutcome ==
  ASSUME IInv, NEW phase \in Marks, Doing(phase), Owned(h),
         Recorded(now.record), now.record.phase \in Terminal
  PROVE  Target(phase).phase = now.record.phase
<1> DEFINE r == h.record
<1>1. /\ <<phase, call, at>> \in
              {<<"prepared", "open", 4>>, <<"forward_prepared", "apply", 2>>,
               <<"forward_published", "apply", 6>>, <<"forward_completed", "finish", 2>>,
               <<"reverse_prepared", "restore", 2>>, <<"reversed", "restore", 7>>}
      /\ now.record = h.own.record /\ (call # "open" => Knows(h))
  BY MarkWhere
<1>2. call # "open"
  BY <1>1 DEF IInv, OpenInv, Recorded
<1>3. r.phase = now.record.phase /\ Fits(r, h) /\ r.phase \in Terminal
      /\ h.original.image = "before"
  BY <1>1, <1>2, KnownPhase DEF Knows
<1>4. phase \notin {"forward_prepared", "forward_published"}
  BY <1>1, <1>3 DEF IInv, ApplyInv, Terminal
<1>5. CASE phase = "forward_completed"
  <2>1. h.direction = "forward" /\ Target(phase).phase = "forward_completed"
    BY <1>1, <1>5, TargetFits DEF IInv, FinishInv
  <2> QED  BY <1>3, <2>1 DEF Fits, Terminal
<1>6. CASE phase = "reverse_prepared"
  BY <1>1, <1>3, <1>6 DEF IInv, RestoreInv, Fits, Terminal
<1>7. CASE phase = "reversed"
  <2>1. h.own.leaf.image = "before" /\ h.direction = "reverse"
    BY <1>1, <1>7 DEF IInv, RestoreInv
  <2>2. r.phase = (IF h.own.leaf = h.original THEN "aborted" ELSE "restored")
    BY <1>3, <2>1 DEF Fits, Terminal
  <2> QED  BY <1>3, <1>7, <2>2, TargetFits
<1> QED  BY <1>1, <1>2, <1>4, <1>5, <1>6, <1>7

\* The new record explains every file that may be on disk, and does not stand
\* against an outcome the barrier is not up for.
LEMMA TargetExplains ==
  ASSUME IInv, Quiet, NEW phase \in Marks, Doing(phase), Owned(h)
  PROVE  \A leaf \in disk.leaf :
           Explained(Target(phase), leaf) /\ (FALSE \in disk.pending => Agreed(leaf, Target(phase)))
<1> DEFINE T == Target(phase)
<1>1. /\ <<phase, call, at>> \in
              {<<"prepared", "open", 4>>, <<"forward_prepared", "apply", 2>>,
               <<"forward_published", "apply", 6>>, <<"forward_completed", "finish", 2>>,
               <<"reverse_prepared", "restore", 2>>, <<"reversed", "restore", 7>>}
      /\ h # None /\ now.leaf = h.own.leaf /\ now.record = h.own.record
      /\ now.leaf \in Files /\ (call # "open" => h.granted /\ Knows(h))
  BY MarkWhere
<1>2. DiskInv /\ OwnerInv /\ SyncedInv /\ NamesOK
  BY TypeParts DEF IInv, QuietInv
<1>3. T \in Records /\ T.original = h.original /\ h.original.image = "before" /\ Recorded(T)
  BY TargetFits, NullFacts DEF Fits, Sound, Recorded
<1>4. call # "open" =>
        /\ Recorded(now.record) /\ now.record.phase = h.record.phase /\ now.record.original = h.original
        /\ now.record \in disk.record /\ Fits(h.record, h)
  BY <1>1, <1>2, KnownPhase DEF Knows, NamesOK
<1>5. Lasting => FALSE \notin disk.pending
  BY DEF Lasting
<1> SUFFICES ASSUME NEW leaf \in disk.leaf
             PROVE  Explained(T, leaf) /\ (FALSE \in disk.pending => Agreed(leaf, T))
  OBVIOUS
<1>6. CASE phase = "prepared"
  <2>1. T.phase = "prepared" /\ h.own.leaf = h.original /\ h.own.record = Blank /\ Lasting
    BY <1>1, <1>2, <1>6, TargetFits DEF IInv, OpenInv, SyncedInv
  <2>2. leaf = h.original
    BY <1>1, <1>2, <2>1 DEF DiskInv, Recorded
  <2> QED  BY <1>3, <1>5, <2>1, <2>2 DEF Explained
<1>7. CASE phase = "forward_prepared"
  <2>1. T.phase = "forward_prepared" /\ leaf = h.original /\ Lasting
    BY <1>1, <1>2, <1>7, TargetFits DEF IInv, ApplyInv, SyncedInv, OwnerInv
  <2> QED  BY <1>3, <1>5, <2>1 DEF Explained
<1>8. CASE phase = "forward_published"
  <2>1. T.phase = phase /\ leaf = now.leaf /\ T.forward = leaf /\ leaf.image = "after" /\ Lasting
    BY <1>1, <1>2, <1>8, TargetFits DEF IInv, ApplyInv, SyncedInv, OwnerInv
  <2>2. Remembered(T, leaf)
    BY <1>1, <2>1, NullFacts DEF Remembered
  <2> QED  BY <1>3, <1>5, <1>8, <2>1, <2>2 DEF Explained
<1>9. CASE phase = "forward_completed"
  <2>1. T.phase = phase /\ leaf = now.leaf /\ T.forward = leaf /\ leaf.image = "after"
    BY <1>1, <1>2, <1>9, TargetFits DEF IInv, FinishInv, SyncedInv
  <2>2. Remembered(T, leaf)
    BY <1>1, <2>1, NullFacts DEF Remembered
  <2> QED  BY <1>3, <1>9, <2>1, <2>2 DEF Explained, Agreed
<1>10. CASE phase = "reverse_prepared"
  <2>1. T.phase = phase /\ h.own.leaf.image = "after" /\ h.direction = "reverse"
        /\ T.forward = h.record.forward
    BY <1>1, <1>10, TargetFits DEF IInv, RestoreInv
  <2>2. leaf = now.leaf \/ leaf = h.original
    BY <1>1, <1>2, <1>4, <1>10, <2>1 DEF DiskInv
  <2>3. Remembered(h.record, now.leaf)
    BY <1>1, <1>2, <1>10, <2>1 DEF OwnerInv
  <2>4. Remembered(T, now.leaf)
    BY <2>1, <2>3 DEF Remembered
  <2>5. FALSE \notin disk.pending
    <3>1. h.record.phase # "forward_completed"
      BY <1>1, <1>4, <1>10, <2>1 DEF Fits
    <3>2. ~Agreed(now.leaf, now.record)
      BY <1>1, <1>4, <1>10, <2>1, <3>1 DEF Agreed
    <3> QED  BY <1>2, <3>2 DEF DiskInv, NamesOK
  <2> QED  BY <1>1, <1>3, <1>10, <2>1, <2>2, <2>4, <2>5 DEF Explained
<1>11. CASE phase = "reversed"
  <2>1. leaf = now.leaf /\ leaf.image = "before"
    BY <1>1, <1>2, <1>11 DEF IInv, RestoreInv, SyncedInv
  <2>2. CASE leaf = h.original
    BY <1>1, <1>3, <1>11, <2>1, <2>2, TargetFits DEF Explained, Agreed
  <2>3. CASE leaf # h.original
    BY <1>1, <1>3, <1>11, <2>1, <2>3, TargetFits DEF Explained, Agreed
  <2> QED  BY <2>2, <2>3
<1> QED  BY <1>6, <1>7, <1>8, <1>9, <1>10, <1>11 DEF Marks

\* The record is renamed into place, in memory and perhaps on disk.
LEMMA TargetPut ==
  ASSUME IInv, NEW phase \in Marks, Doing(phase), Owned(h), Put("record", Target(phase))
  PROVE  /\ NamesOK' /\ RecordInv' /\ (Quiet => DiskInv')
         /\ now'.leaf = now.leaf /\ now'.record = Target(phase) /\ now'.pending = now.pending
         /\ disk'.leaf = disk.leaf /\ disk'.record = disk.record \cup {Target(phase)}
         /\ disk'.pending = disk.pending
<1> DEFINE T == Target(phase)
<1>1. T \in Records /\ Fits(T, h) /\ Sound(T) /\ T.original = h.original /\ Recorded(T)
  BY TargetFits, NullFacts DEF Fits, Recorded
<1>2. NamesOK
  BY TypeParts DEF IInv
<1>3. Recorded(now.record) /\ now.record.phase \in Terminal => T.phase = now.record.phase
  BY TargetOutcome
<1>4. Quiet => \A leaf \in disk.leaf : Explained(T, leaf) /\ (FALSE \in disk.pending => Agreed(leaf, T))
  BY TargetExplains
<1>5. Put("record", T)
  OBVIOUS
<1> HIDE DEF T
<1>6. /\ now'.leaf = now.leaf /\ now'.record = T /\ now'.pending = now.pending
      /\ disk'.leaf = disk.leaf /\ disk'.record = disk.record \cup {T} /\ disk'.pending = disk.pending
      /\ NamesOK'
  BY <1>1, <1>2, <1>5 DEF NamesOK, Put
<1>7. RecordInv'
  <2> SUFFICES ASSUME NEW r \in disk'.record, Recorded(r)
               PROVE  /\ Sound(r)
                      /\ r.phase \in Terminal => Recorded(now'.record) /\ now'.record.phase = r.phase
    BY DEF RecordInv, Recorded
  <2>1. CASE r = T
    BY <1>1, <1>6, <2>1
  <2>2. CASE r \in disk.record
    <3>1. Sound(r) /\ (r.phase \in Terminal => Recorded(now.record) /\ now.record.phase = r.phase)
      BY <2>2 DEF IInv, RecordInv
    <3> QED  BY <1>1, <1>3, <1>6, <3>1
  <2> QED  BY <1>6, <2>1, <2>2
<1>8. ASSUME Quiet  PROVE DiskInv'
  <2>1. DiskInv /\ OwnerInv
    BY <1>8 DEF IInv, QuietInv
  <2>2. h # None /\ now.leaf = h.own.leaf /\ now.record = h.own.record /\ (call # "open" => Knows(h))
        /\ (call = "open" => phase = "prepared")
    BY MarkWhere
  <2>3. \A r \in disk.record : Recorded(r) => r.original = T.original
    BY <1>1, <2>1, <2>2 DEF OwnerInv
  <2>4. ASSUME now.leaf.image = "after", NEW leaf \in disk.leaf
        PROVE  leaf = now.leaf \/ leaf = T.original
    <3>1. call # "open"
      BY <2>2, <2>4 DEF IInv, OpenInv
    <3>2. Recorded(now.record) /\ now.record \in disk.record
      BY <1>2, <2>2, <3>1, KnownPhase DEF NamesOK
    <3> QED  BY <2>1, <2>3, <2>4, <3>2 DEF DiskInv
  <2>5. \A leaf \in disk'.leaf, r \in disk'.record : Explained(r, leaf)
    BY <1>4, <1>6, <1>8, <2>1 DEF DiskInv
  <2>6. \A r, s \in disk'.record : Recorded(r) /\ Recorded(s) => r.original = s.original
    BY <1>6, <2>3
  <2>7. now'.leaf.image = "after" =>
          \A leaf \in disk'.leaf, r \in disk'.record : leaf = now'.leaf \/ leaf = r.original
    BY <1>6, <2>1, <2>4 DEF DiskInv
  <2>8. FALSE \in disk'.pending => \A leaf \in disk'.leaf, r \in disk'.record : Agreed(leaf, r)
    BY <1>4, <1>6, <1>8, <2>1 DEF DiskInv
  <2>9. Recorded(now'.record) /\ now'.record # None
    BY <1>1, <1>6 DEF Recorded
  <2> QED  BY <2>5, <2>6, <2>7, <2>8, <2>9 DEF DiskInv, Recorded
<1> QED  BY <1>6, <1>7, <1>8 DEF T

\* What a handle may look like after a record was written, or was not.
Alike(g) ==
  /\ g \in Handles
  /\ g.durable = h.durable /\ g.granted = h.granted /\ g.used = h.used /\ g.direction = h.direction
  /\ g.original = h.original /\ g.stage = h.stage /\ g.consent = h.consent
  /\ g.own.leaf = h.own.leaf /\ g.try.leaf = h.try.leaf
Kept(g) == Alike(g) /\ g.own.record = h.own.record /\ g.record = h.record
WrittenAs(g, T) == Alike(g) /\ g.own.record = T /\ g.record = T /\ g.try.record = h.try.record

\* The handles of writeRecord's outcomes.
LEMMA MarkShapes ==
  ASSUME h \in Handles, NEW T \in Records
  PROVE  LET g == [h EXCEPT !.record = T] IN
         /\ WrittenAs([g EXCEPT !.own["record"] = T], T)
         /\ Kept([g EXCEPT !.try["record"] = T, !.record = h.record])
         /\ [g EXCEPT !.try["record"] = T, !.record = h.record].try.record = T
         /\ [g EXCEPT !.record = h.record] = h
<1> DEFINE g == [h EXCEPT !.record = T]
<1>1. g \in Handles
  BY DEF Handles
<1>2. [g EXCEPT !.own["record"] = T] \in Handles
  BY <1>1 DEF Handles
<1>3. WrittenAs([g EXCEPT !.own["record"] = T], T)
  BY <1>2 DEF Handles, WrittenAs, Alike
<1>4. [g EXCEPT !.try["record"] = T, !.record = h.record] \in Handles
  BY <1>1 DEF Handles
<1>5. Kept([g EXCEPT !.try["record"] = T, !.record = h.record])
  BY <1>4 DEF Handles, Kept, Alike
<1>6. [g EXCEPT !.try["record"] = T, !.record = h.record].try.record = T
  BY DEF Handles
<1>7. [g EXCEPT !.record = h.record] = h
  BY DEF Handles
<1> QED  BY <1>3, <1>5, <1>6, <1>7

\* The handle still knows its record, whatever came of the rename.
LEMMA MarkHandle ==
  ASSUME IInv, NEW phase \in Marks, Doing(phase), Owned(h), call # "open", NEW g, h' = g,
         WrittenAs(g, Target(phase)) \/ (Kept(g) /\ g.try.record \in {None, Target(phase)}),
         call' = call \/ call' = "none"
  PROVE  CallInv' /\ JournalInv' /\ ConsentInv' /\ HandleOK'
<1> DEFINE T == Target(phase)
<1>1. /\ h # None /\ h \in Handles /\ h.durable /\ h.try = NoTry /\ h.granted /\ Knows(h)
      /\ (h.used \/ h.direction # None) /\ call \notin Opening
      /\ call \in {"apply", "finish", "restore"}
  BY MarkWhere DEF Opening
<1>2. T \in Records /\ Fits(T, h) /\ Valid(T)
  BY TargetFits DEF Fits, Sound
<1>3. WrittenAs(g, T) \/ (Kept(g) /\ g.try.record \in {None, T})
  OBVIOUS
<1> HIDE DEF T
<1>4. Alike(g) /\ g # None
  BY <1>3, NullFacts DEF WrittenAs, Kept, Alike
<1>5. g.granted /\ g.durable /\ g.try.leaf = None
  BY <1>1, <1>4 DEF Alike, NoTry
<1>6. CallInv'
  BY <1>1, <1>4, <1>5 DEF IInv, CallInv, Alike, Opening
<1>7. Knows(g)
  <2>1. CASE WrittenAs(g, T)
    <3>1. T = [T EXCEPT !.forward = T.forward]
      BY <1>2 DEF Records
    <3>2. Fits(T, g)
      BY <1>2, <1>4 DEF Fits, Alike
    <3>3. g.record = T /\ g.own.record = T
      BY <2>1 DEF WrittenAs
    <3>4. ~(g.direction = None /\ ~g.used)
      BY <1>1, <1>4 DEF Alike
    <3> QED  BY <1>2, <3>1, <3>2, <3>3, <3>4 DEF Knows
  <2>2. CASE Kept(g)
    BY <1>1, <1>4, <2>2 DEF Knows, Fits, Kept, Alike
  <2> QED  BY <1>3, <2>1, <2>2
<1>8. g.try.record # None => Fits(g.try.record, g)
  <2>1. g.try.record \in {None, T}
    BY <1>1, <1>3 DEF WrittenAs, NoTry
  <2> QED  BY <1>2, <1>4, <2>1 DEF Fits, Alike
<1>9. JournalInv'
  <2>1. ~(g.direction = None /\ ~g.used)
    BY <1>1, <1>4 DEF Alike
  <2> QED  BY <1>5, <1>7, <1>8, <2>1 DEF JournalInv, Knows, Fits
<1>10. ConsentInv'
  <2>1. h.consent # None =>
          /\ h.durable /\ h.used /\ h.direction # None
          /\ \/ h.own.leaf = h.consent.leaf /\ h.direction = h.consent.direction
             \/ h.direction = "reverse" /\ h.stage # None /\ h.stage.image = "before"
                /\ SamePrepared(h.own.leaf, h.stage)
    BY <1>1 DEF IInv, ConsentInv
  <2> QED  BY <1>4, <1>5, <2>1 DEF ConsentInv, Alike, SamePrepared, Renamed
<1>11. HandleOK'
  <2>1. g.record # None => Valid(g.record)
    BY <1>7 DEF Knows, Fits, Sound
  <2> QED  BY <1>4, <2>1 DEF HandleOK, Alike
<1> QED  BY <1>6, <1>9, <1>10, <1>11

\* The names a record's rename leaves.
Named(T) ==
  /\ NamesOK' /\ RecordInv' /\ (Quiet => DiskInv')
  /\ now'.leaf = now.leaf /\ now'.record \in {now.record, T} /\ now'.pending = now.pending
  /\ disk'.leaf = disk.leaf /\ disk'.record \subseteq disk.record \cup {T}
  /\ disk'.pending = disk.pending

LEMMA MarkNames ==
  ASSUME IInv, NEW phase \in Marks, Doing(phase), Owned(h),
         Put("record", Target(phase)) \/ UNCHANGED <<now, disk>>
  PROVE  Named(Target(phase))
<1>1. CASE Put("record", Target(phase))
  BY <1>1, TargetPut DEF Named
<1>2. CASE UNCHANGED <<now, disk>>
  BY <1>2, Untouched DEF Named
<1> QED  BY <1>1, <1>2

\* OwnerInv holds of the handle that is left.
LEMMA MarkOwner ==
  ASSUME IInv, Quiet, NEW phase \in Marks, Doing(phase), Owned(h), Named(Target(phase)),
         NEW g, h' = g, g # None,
         WrittenAs(g, Target(phase)) \/ (Kept(g) /\ call # "open"),
         call' = "none" \/ (call' = call /\ now'.record = g.own.record)
  PROVE  OwnerInv'
<1> DEFINE T == Target(phase)
<1>1. h # None /\ h.durable /\ now.leaf = h.own.leaf /\ now.leaf \in disk.leaf
      /\ (call = "open" => ~h.granted)
  BY MarkWhere, TypeParts DEF IInv, NamesOK
<1>2. OwnerInv
  BY DEF IInv, QuietInv
<1>3. T \in Records /\ T.original = h.original /\ Recorded(T) /\ Explained(T, now.leaf)
  <2>1. T \in Records /\ Fits(T, h)
    BY TargetFits
  <2>2. Recorded(T) /\ T.original = h.original
    BY <2>1, NullFacts DEF Fits, Recorded
  <2>3. Explained(T, now.leaf)
    BY <1>1, TargetExplains
  <2> QED  BY <2>1, <2>2, <2>3
<1>4. WrittenAs(g, T) \/ (Kept(g) /\ call # "open")
  OBVIOUS
<1>5. Named(T)
  OBVIOUS
<1> HIDE DEF T
<1>6. Alike(g)
  BY <1>4 DEF WrittenAs, Kept
<1>7. g.durable /\ g.own.leaf = now.leaf /\ g.direction = h.direction
  BY <1>1, <1>6 DEF Alike
<1>8. \A r \in disk'.record : Recorded(r) => r.original = g.original
  BY <1>1, <1>2, <1>3, <1>5, <1>6 DEF OwnerInv, Named, Alike
<1>9. call # "open" /\ now.leaf.image = "after" => Remembered(g.record, now.leaf)
  <2>1. CASE WrittenAs(g, T)
    BY <1>3, <2>1 DEF Explained, WrittenAs
  <2>2. CASE Kept(g)
    BY <1>1, <1>2, <2>2 DEF OwnerInv, Kept
  <2> QED  BY <1>4, <2>1, <2>2
<1>10. call = "open" => now.leaf.image = "before"
  BY <1>1 DEF IInv, OpenInv
<1>11. g.granted /\ g.direction = None => Lasting'
  <2>1. h.granted /\ h.direction = None => Lasting
    BY <1>1, <1>2 DEF OwnerInv
  <2> QED  BY <1>5, <1>6, <2>1 DEF Named, Lasting, Alike
<1>12. now'.leaf = now.leaf
  BY <1>5 DEF Named
<1>13. now'.leaf.image = "after" => Remembered(g.record, now'.leaf)
  BY <1>9, <1>10, <1>12
<1> QED  BY <1>7, <1>8, <1>11, <1>12, <1>13 DEF OwnerInv

\* An error on the way: the outcome is known, or is looked at by the next call.
LEMMA MarkFail ==
  ASSUME IInv, NEW phase \in Marks, Doing(phase), Owned(h), NEW g, Fail(g),
         Put("record", Target(phase)) \/ UNCHANGED <<now, disk>>,
         WrittenAs(g, Target(phase)) \/ (Kept(g) /\ g.try.record \in {None, Target(phase)})
  PROVE  IInv'
<1> DEFINE T == Target(phase)
<1>1. Named(T)
  BY MarkNames
<1>2. CountsOK' /\ Rest /\ (Quiet' <=> Quiet)
  BY BoundsAssumption, TypeParts DEF IInv, CountsOK, Fail, Quiet
<1>3. CASE ~h.granted
  <2>1. h' = None
    BY <1>3 DEF Fail
  <2> QED  BY <1>1, <1>2, <2>1, Abandoned DEF Named
<1>4. CASE h.granted
  <2>1. h' = g /\ call # "open" /\ call' = "none"
    BY <1>2, <1>4, MarkWhere DEF Fail, Rest
  <2>2. CallInv' /\ JournalInv' /\ ConsentInv' /\ HandleOK'
    BY <2>1, MarkHandle
  <2>3. TypeOK'
    BY <1>1, <1>2, <2>2, Resting, TypeNext DEF Named
  <2>4. g # None
    BY NullFacts DEF WrittenAs, Kept, Alike
  <2>5. Quiet => OwnerInv'
    BY <1>1, <2>1, <2>4, MarkOwner
  <2> QED  BY <1>1, <1>2, <2>2, <2>3, <2>5, Resting DEF IInv, QuietInv, Named
<1> QED  BY <1>3, <1>4

\* The record is written, or was there already.
LEMMA MarkDone ==
  ASSUME IInv, NEW phase \in Marks, Doing(phase), Owned(h), NEW g, Done(g),
         \/ Put("record", Target(phase)) /\ WrittenAs(g, Target(phase))
         \/ UNCHANGED <<now, disk>> /\ g = h /\ h.own.record = Target(phase)
  PROVE  IInv'
<1> DEFINE T == Target(phase)
<1>1. Named(T) /\ now'.record = T
  <2>1. CASE Put("record", T) /\ WrittenAs(g, T)
    BY <2>1, TargetPut, MarkNames
  <2>2. CASE UNCHANGED <<now, disk>> /\ g = h /\ h.own.record = T
    BY <2>2, MarkNames, MarkWhere
  <2> QED  BY <2>1, <2>2
<1>2. /\ <<phase, call, at>> \in
              {<<"prepared", "open", 4>>, <<"forward_prepared", "apply", 2>>,
               <<"forward_published", "apply", 6>>, <<"forward_completed", "finish", 2>>,
               <<"reverse_prepared", "restore", 2>>, <<"reversed", "restore", 7>>}
      /\ h # None /\ h \in Handles /\ h.durable /\ h.try = NoTry
      /\ now.leaf = h.own.leaf /\ now.record = h.own.record
      /\ call # "open" => h.granted /\ Knows(h)
      /\ call = "open" => ~h.granted
  BY MarkWhere
<1>3. /\ T \in Records /\ Fits(T, h)
      /\ phase = "prepared" => T.phase = phase
      /\ phase = "forward_prepared" => T.phase = phase /\ T.forward = h.stage /\ T.candidate = h.stage
      /\ phase = "forward_completed" => T.phase = phase
      /\ phase = "reverse_prepared" => T.phase = phase /\ T.candidate = h.stage
      /\ phase = "reversed" => T.phase \in {"restored", "aborted"}
  BY TargetFits
<1>4. Alike(h)
  BY <1>2 DEF Alike
<1>5. /\ Alike(g) /\ g # None /\ g.own.record = T /\ g.try = NoTry
      /\ g.record = T \/ (g = h /\ call # "open" /\ h.own.record = T)
  <2>1. CASE WrittenAs(g, T)
    <3>1. Alike(g) /\ g.own.record = T /\ g.record = T /\ g.try.record = None /\ g.try.leaf = None
      BY <1>2, <2>1 DEF WrittenAs, Alike, NoTry
    <3>2. g \in Handles
      BY <3>1 DEF Alike
    <3>3. g.try = NoTry
      BY <3>1, <3>2 DEF Handles, NoTry
    <3> QED  BY <3>1, <3>2, <3>3, NullFacts
  <2>2. CASE g = h /\ h.own.record = T
    <3>1. call # "open"
      BY <1>2, <1>3, <2>2, NullFacts DEF IInv, OpenInv
    <3> QED  BY <1>2, <1>4, <2>2, <3>1
  <2> QED  BY <2>1, <2>2
<1>6. h' = g /\ call' = call /\ at' = at + 1 /\ call # "none" /\ call \in DOMAIN Steps /\ TypeOK
  BY <1>2, Onward, Working DEF Last
<1>7. WrittenAs(g, T) \/ (Kept(g) /\ g.try.record \in {None, T} /\ call # "open")
  BY <1>2, <1>4, <1>5 DEF WrittenAs, Kept, NoTry
<1>8. g.record.phase = T.phase /\ g.record.candidate = T.candidate
      /\ (phase = "forward_prepared" => g.record.forward = T.forward)
  <2>1. CASE g.record = T
    BY <2>1
  <2>2. CASE g = h /\ call # "open" /\ h.own.record = T
    <3>1. T.phase = h.record.phase /\ T.candidate = h.record.candidate
      BY <1>2, <2>2, KnownPhase
    <3>2. phase # "forward_prepared"
      BY <1>2, <1>3, <3>1 DEF IInv, ApplyInv
    <3> QED  BY <2>2, <3>1, <3>2
  <2> QED  BY <1>5, <2>1, <2>2
<1> HIDE DEF T
<1>9. g.record # None => Valid(g.record)
  BY <1>2, <1>3, <1>5 DEF Fits, Sound, Knows
<1>10. TypeOK' /\ (Quiescent' <=> SwapNext(call', at')) /\ (Quiet' <=> Quiet)
  BY <1>1, <1>5, <1>6, <1>9, Advancing DEF Named, Alike
<1>11. CallInv' /\ JournalInv' /\ ConsentInv'
  <2>1. CASE call = "open"
    <3>1. CallInv'
      BY <1>2, <1>5, <1>6, <2>1 DEF IInv, CallInv, Alike, NoTry
    <3>2. JournalInv' /\ ConsentInv'
      BY <1>5, <1>6, <2>1 DEF IInv, OpenInv, JournalInv, ConsentInv, Alike
    <3> QED  BY <3>1, <3>2
  <2>2. CASE call # "open"
    BY <1>6, <1>7, <2>2, MarkHandle DEF T
  <2> QED  BY <2>1, <2>2
<1>12. OpenInv'
  <2> SUFFICES ASSUME call = "open"  PROVE OpenInv'
    BY <1>6 DEF OpenInv
  <2>1. phase = "prepared" /\ at = 4 /\ g.record = T
    BY <1>2, <1>5
  <2>2. Fits(T, g)
    BY <1>3, <1>5 DEF Fits, Alike
  <2>3. /\ g.direction = None /\ ~g.used /\ g.stage = None /\ g.consent = None
        /\ g.own.leaf = g.original /\ g.original.image = "before"
    BY <1>5 DEF IInv, OpenInv, Alike
  <2> QED  BY <1>3, <1>5, <1>6, <2>1, <2>2, <2>3 DEF OpenInv, Fits
<1>13. ApplyInv'
  <2> SUFFICES ASSUME call = "apply"  PROVE ApplyInv'
    BY <1>6 DEF ApplyInv
  <2>1. g.used /\ g.direction = None /\ g.try = NoTry /\ g.own.leaf = h.own.leaf
        /\ g.stage = h.stage /\ g.original = h.original
    BY <1>5 DEF IInv, ApplyInv, Alike
  <2>2. CASE at = 2
    <3>1. StagedAs("after") /\ h.own.leaf = h.original /\ phase = "forward_prepared"
      BY <1>2, <2>2 DEF IInv, ApplyInv
    <3>2. StagedAs("after")'
      BY <1>6, <2>1, <3>1 DEF StagedAs
    <3> QED  BY <1>3, <1>5, <1>6, <1>8, <2>1, <2>2, <3>1, <3>2 DEF ApplyInv
  <2>3. CASE at = 6
    <3>1. h.own.leaf.image = "after"
      BY <2>3 DEF IInv, ApplyInv
    <3> QED  BY <1>6, <2>1, <2>3, <3>1 DEF ApplyInv
  <2> QED  BY <1>2, <2>2, <2>3
<1>14. FinishInv'
  BY <1>5, <1>6 DEF IInv, FinishInv, Alike
<1>15. RestoreInv'
  <2> SUFFICES ASSUME call = "restore"  PROVE RestoreInv'
    BY <1>6 DEF RestoreInv
  <2>1. g.direction = "reverse" /\ g.try = NoTry /\ g.own.leaf = h.own.leaf
        /\ g.stage = h.stage /\ g.original = h.original
    BY <1>5 DEF IInv, RestoreInv, Alike
  <2>2. CASE at = 2
    <3>1. StagedAs("before") /\ h.own.leaf.image = "after" /\ phase = "reverse_prepared"
      BY <1>2, <2>2 DEF IInv, RestoreInv
    <3>2. StagedAs("before")'
      BY <1>6, <2>1, <3>1 DEF StagedAs
    <3> QED  BY <1>3, <1>6, <1>8, <2>1, <2>2, <3>1, <3>2 DEF RestoreInv
  <2>3. CASE at = 7
    <3>1. h.own.leaf.image = "before"
      BY <2>3 DEF IInv, RestoreInv
    <3> QED  BY <1>6, <2>1, <2>3, <3>1 DEF RestoreInv
  <2> QED  BY <1>2, <2>2, <2>3
<1>16. PlainInv'
  BY <1>2, <1>6 DEF PlainInv
<1>17. QuiescentInv'
  BY <1>1, <1>2, <1>5, <1>6 DEF QuiescentInv, Named, Alike
<1>18. ASSUME Quiet  PROVE OwnerInv' /\ SyncedInv'
  <2>1. OwnerInv'
    BY <1>1, <1>5, <1>6, <1>7, <1>18, MarkOwner DEF T
  <2>2. SyncedInv
    BY <1>18 DEF IInv, QuietInv
  <2>3. now'.leaf = now.leaf /\ disk'.leaf = disk.leaf /\ now'.pending = now.pending
        /\ disk'.pending = disk.pending /\ now'.record = T /\ g.original = h.original
    BY <1>1, <1>5 DEF Named, Alike
  <2>4. (Barred => Barred') /\ (Lasting => Lasting')
    BY <2>3 DEF Barred, Lasting
  <2>5. SyncedInv'
    BY <1>2, <1>3, <1>6, <2>2, <2>3, <2>4 DEF SyncedInv
  <2> QED  BY <2>1, <2>5
<1> QED  BY <1>1, <1>10, <1>11, <1>12, <1>13, <1>14, <1>15, <1>16, <1>17, <1>18 DEF IInv, QuietInv, Named

\* writeRecord.
LEMMA MarkInv == IInv /\ Mark => IInv'
<1> SUFFICES ASSUME IInv, Mark  PROVE IInv'
  OBVIOUS
<1>1. PICK phase \in Marks :
        /\ Doing(phase) /\ Owned(h)
        /\ IF h.own.record = Target(phase) THEN Done(h) /\ UNCHANGED <<now, disk>>
           ELSE Rename("record", Target(phase), [h EXCEPT !.record = Target(phase)])
  BY DEF Mark
<1> DEFINE T == Target(phase)
           g == [h EXCEPT !.record = T]
<1>2. h \in Handles /\ T \in Records /\ h.try = NoTry
  BY <1>1, MarkWhere, TargetFits
<1>3. CASE h.own.record = T
  BY <1>1, <1>3, MarkDone
<1>4. CASE h.own.record # T
  <2>1. Rename("record", T, g)
    BY <1>1, <1>4
  <2>2. /\ WrittenAs([g EXCEPT !.own["record"] = T], T)
        /\ Kept([g EXCEPT !.try["record"] = T, !.record = h.record])
        /\ [g EXCEPT !.try["record"] = T, !.record = h.record].try.record = T
        /\ [g EXCEPT !.record = h.record] = h
    BY <1>2, MarkShapes
  <2>3. Kept(h) /\ h.try.record = None
    BY <1>2 DEF Kept, Alike, NoTry
  <2> DEFINE known == [g EXCEPT !.own["record"] = T]
             unknown == [g EXCEPT !.try["record"] = T, !.record = h.record]
  <2>4. \/ Put("record", T) /\ (Done(known) \/ Fail(known) \/ Fail(unknown))
        \/ (Fail(h) \/ Fail(unknown)) /\ UNCHANGED <<now, disk>>
    BY <2>1, <2>2 DEF Rename
  <2> HIDE DEF known, unknown
  <2>5. WrittenAs(known, T) /\ Kept(unknown) /\ unknown.try.record = T
    BY <2>2 DEF known, unknown
  <2>6. CASE Put("record", T) /\ Done(known)
    BY <1>1, <2>5, <2>6, MarkDone
  <2>7. CASE Put("record", T) /\ Fail(known)
    BY <1>1, <2>5, <2>7, MarkFail
  <2>8. CASE Fail(unknown) /\ (Put("record", T) \/ UNCHANGED <<now, disk>>)
    BY <1>1, <2>5, <2>8, MarkFail
  <2>9. CASE Fail(h) /\ UNCHANGED <<now, disk>>
    BY <1>1, <2>3, <2>9, MarkFail
  <2> QED  BY <2>4, <2>6, <2>7, <2>8, <2>9
<1> QED  BY <1>3, <1>4

-----------------------------------------------------------------------------
(* The rename of the file.                                                   *)

\* What is ready when the sibling is about to take the name.
LEMMA SwapReady ==
  ASSUME IInv, Doing("swap")
  PROVE  /\ <<call, at>> \in {<<"apply", 4>>, <<"restore", 4>>, <<"plain_apply", 2>>, <<"plain_restore", 2>>}
         /\ call \in DOMAIN Steps /\ TypeOK
         /\ h # None /\ h \in Handles /\ h.granted /\ h.stage \in Files
         /\ (h.record # None => Valid(h.record))
         /\ now.leaf = h.own.leaf /\ now.leaf \in Files
         /\ h.stage.image = (IF call \in {"apply", "plain_apply"} THEN "after" ELSE "before")
         /\ h.durable <=> call \in {"apply", "restore"}
         /\ h.durable => /\ h.try = NoTry /\ Knows(h) /\ h.stage.inode # h.original.inode /\ ~h.stage.moved
                         /\ (h.used \/ h.direction # None)
         /\ call = "apply" => /\ h.own.leaf = h.original /\ h.record.phase = "forward_prepared"
                              /\ h.direction = None /\ h.used
                              /\ h.record.candidate = h.stage /\ h.record.forward = h.stage
                              /\ h.own.record.forward = h.stage
         /\ call = "restore" => /\ h.own.leaf.image = "after" /\ h.record.phase = "reverse_prepared"
                                /\ h.direction = "reverse" /\ h.record.candidate = h.stage
<1>1. call # "none" /\ h # None /\ h \in Handles /\ TypeOK /\ call \in DOMAIN Steps
      /\ (h.record # None => Valid(h.record)) /\ (call \notin Opening => h.granted)
  BY Working
<1>2. <<call, at>> \in {<<"apply", 4>>, <<"restore", 4>>, <<"plain_apply", 2>>, <<"plain_restore", 2>>}
  BY <1>1, Where
<1>3. h.granted /\ (h.durable <=> call \in {"apply", "restore"})
  BY <1>1, <1>2 DEF IInv, CallInv, Opening
<1>4. now.leaf = h.own.leaf /\ now.leaf \in Files
  BY <1>1, TypeParts DEF IInv, QuiescentInv, Quiescent, NamesOK
<1>5. CASE call = "apply"
  <2>1. /\ StagedAs("after") /\ h.own.leaf = h.original /\ h.record.phase = "forward_prepared"
        /\ h.direction = None /\ h.used /\ h.try = NoTry
        /\ h.record.candidate = h.stage /\ h.record.forward = h.stage /\ h.own.record.forward = h.stage
    BY <1>2, <1>5 DEF IInv, ApplyInv
  <2>2. Knows(h)
    BY <1>1, <1>3, <1>5 DEF IInv, JournalInv
  <2> QED  BY <1>1, <1>2, <1>3, <1>4, <1>5, <2>1, <2>2 DEF StagedAs, Handles
<1>6. CASE call = "restore"
  <2>1. /\ StagedAs("before") /\ h.own.leaf.image = "after" /\ h.record.phase = "reverse_prepared"
        /\ h.direction = "reverse" /\ h.try = NoTry /\ h.record.candidate = h.stage
    BY <1>2, <1>6 DEF IInv, RestoreInv
  <2>2. Knows(h)
    BY <1>1, <1>3, <1>6 DEF IInv, JournalInv
  <2> QED  BY <1>1, <1>2, <1>3, <1>4, <1>6, <2>1, <2>2, NullFacts DEF StagedAs, Handles
<1>7. CASE call \in {"plain_apply", "plain_restore"}
  <2>1. h.stage # None /\ h.stage.image = (IF call = "plain_apply" THEN "after" ELSE "before")
    BY <1>2, <1>7 DEF IInv, PlainInv
  <2> QED  BY <1>1, <1>2, <1>3, <1>4, <1>7, <2>1 DEF Handles
<1> QED  BY <1>2, <1>5, <1>6, <1>7

\* What a handle may look like after the rename: it owns the new file, it does
\* not, or it does not know.
Swapped(g) ==
  /\ g \in Handles
  /\ g.durable = h.durable /\ g.granted = h.granted /\ g.used = h.used /\ g.direction = h.direction
  /\ g.original = h.original /\ g.stage = h.stage /\ g.consent = h.consent
  /\ g.own.record = h.own.record /\ g.record = h.record /\ g.try.record = h.try.record
  /\ \/ g.own.leaf = Renamed(h.stage) /\ g.try.leaf = h.try.leaf
     \/ g.own.leaf = h.own.leaf /\ g.try.leaf \in {h.try.leaf, Renamed(h.stage)}

LEMMA SwapShapes ==
  ASSUME h \in Handles, h.stage \in Files
  PROVE  LET f == Renamed(h.stage) IN
         /\ Swapped([h EXCEPT !.own["leaf"] = f]) /\ [h EXCEPT !.own["leaf"] = f].own.leaf = f
         /\ [h EXCEPT !.own["leaf"] = f].try = h.try
         /\ Swapped([h EXCEPT !.try["leaf"] = f, !.record = h.record])
         /\ [h EXCEPT !.record = h.record] = h /\ Swapped(h)
<1> DEFINE f == Renamed(h.stage)
<1>1. f \in Files
  BY SameFile
<1>2. f = Renamed(h.stage)
  OBVIOUS
<1> HIDE DEF f
<1>3. [h EXCEPT !.own["leaf"] = f] \in Handles
  BY <1>1 DEF Handles
<1>4. Swapped([h EXCEPT !.own["leaf"] = f]) /\ [h EXCEPT !.own["leaf"] = f].own.leaf = f
      /\ [h EXCEPT !.own["leaf"] = f].try = h.try
  BY <1>2, <1>3 DEF Handles, Swapped
<1>5. [h EXCEPT !.try["leaf"] = f, !.record = h.record] \in Handles
  BY <1>1 DEF Handles
<1>6. Swapped([h EXCEPT !.try["leaf"] = f, !.record = h.record])
  BY <1>2, <1>5 DEF Handles, Swapped
<1>7. [h EXCEPT !.record = h.record] = h /\ Swapped(h)
  BY DEF Handles, Swapped
<1> QED  BY <1>4, <1>6, <1>7 DEF f

\* The handle still knows its record, and what was consented to.
LEMMA SwapHandle ==
  ASSUME IInv, Doing("swap"), NEW g, h' = g, Swapped(g), call' = call \/ call' = "none"
  PROVE  CallInv' /\ JournalInv' /\ ConsentInv' /\ HandleOK'
<1> DEFINE f == Renamed(h.stage)
<1>1. /\ <<call, at>> \in {<<"apply", 4>>, <<"restore", 4>>, <<"plain_apply", 2>>, <<"plain_restore", 2>>}
      /\ h # None /\ h \in Handles /\ h.granted /\ h.stage \in Files
      /\ (h.record # None => Valid(h.record))
      /\ h.stage.image = (IF call \in {"apply", "plain_apply"} THEN "after" ELSE "before")
      /\ h.durable <=> call \in {"apply", "restore"}
      /\ h.durable => /\ h.try = NoTry /\ Knows(h) /\ h.stage.inode # h.original.inode
                      /\ (h.used \/ h.direction # None)
      /\ call = "apply" => /\ h.own.leaf = h.original /\ h.record.phase = "forward_prepared"
                           /\ h.direction = None
      /\ call = "restore" => /\ h.own.leaf.image = "after" /\ h.record.phase = "reverse_prepared"
                             /\ h.direction = "reverse"
  BY SwapReady
<1>2. f \in Files /\ f.image = h.stage.image /\ f.inode = h.stage.inode /\ SamePrepared(f, h.stage) /\ f # None
  BY <1>1, SameFile, NullFacts
<1>3. \/ g.own.leaf = f /\ g.try.leaf = h.try.leaf
      \/ g.own.leaf = h.own.leaf /\ g.try.leaf \in {h.try.leaf, f}
  BY DEF Swapped
<1> HIDE DEF f
<1>4. /\ g \in Handles /\ g # None /\ g.granted
      /\ g.durable = h.durable /\ g.used = h.used /\ g.direction = h.direction
      /\ g.original = h.original /\ g.stage = h.stage /\ g.consent = h.consent
      /\ g.own.record = h.own.record /\ g.record = h.record /\ g.try.record = h.try.record
  BY <1>1, NullFacts DEF Swapped
<1>5. CallInv'
  <2>1. h.own.leaf.image \in {"before", "after"} /\ (h.own.leaf.image = "before" => h.direction # "forward")
        /\ (~h.durable => h.direction # "forward"
                          /\ (h.try.leaf # None => h.try.leaf.image \in {"before", "after"}))
    BY <1>1 DEF IInv, CallInv
  <2>2. f.image \in {"before", "after"} /\ (f.image = "before" => h.direction # "forward")
    BY <1>1, <1>2, <2>1
  <2>3. g.own.leaf.image \in {"before", "after"} /\ (g.own.leaf.image = "before" => g.direction # "forward")
    BY <1>3, <1>4, <2>1, <2>2
  <2>4. ~g.durable => g.direction # "forward"
                      /\ (g.try.leaf # None => g.try.leaf.image \in {"before", "after"})
    BY <1>3, <1>4, <2>1, <2>2
  <2>5. call' \notin Opening /\ (call' \in {"open", "recover", "apply", "finish", "restore"} => g.durable)
        /\ (call' \in {"plain_open", "plain_apply", "plain_restore"} => ~g.durable)
    BY <1>1, <1>4 DEF Opening
  <2> QED  BY <1>4, <2>3, <2>4, <2>5 DEF CallInv, Opening
<1>6. JournalInv'
  <2> SUFFICES ASSUME h.durable  PROVE JournalInv'
    BY <1>4 DEF JournalInv
  <2>1. Knows(h) /\ Fits(h.record, h) /\ h.try.leaf = None /\ h.try.record = None
    BY <1>1 DEF Knows, NoTry
  <2>2. Fits(g.record, g)
    <3>1. CASE g.own.leaf = f
      <4>1. f # h.original
        BY <1>1, <1>2
      <4> QED  BY <1>1, <1>2, <1>4, <2>1, <3>1, <4>1 DEF Fits
    <3>2. CASE g.own.leaf = h.own.leaf
      BY <1>4, <2>1, <3>2 DEF Fits
    <3> QED  BY <1>3, <3>1, <3>2
  <2>3. Knows(g)
    BY <1>1, <1>4, <2>1, <2>2 DEF Knows
  <2>4. g.try.leaf # None =>
         /\ g.stage # None /\ g.try.leaf = Renamed(g.stage)
         /\ g.stage.inode # g.original.inode
         /\ \/ g.stage.image = "after" /\ g.own.leaf = g.original
               /\ g.record.phase = "forward_prepared"
            \/ g.stage.image = "before" /\ g.own.leaf.image = "after"
               /\ g.record.phase = "reverse_prepared"
    BY <1>1, <1>3, <1>4, <2>1, NullFacts DEF f
  <2>5. ~(g.direction = None /\ ~g.used) /\ g.try.record = None
    BY <1>1, <1>4, <2>1
  <2> QED  BY <2>3, <2>4, <2>5 DEF JournalInv, Knows, Fits
<1>7. ConsentInv'
  <2> SUFFICES ASSUME h.consent # None  PROVE ConsentInv'
    BY <1>4 DEF ConsentInv
  <2>1. /\ h.durable /\ h.used /\ h.direction # None
        /\ \/ h.own.leaf = h.consent.leaf /\ h.direction = h.consent.direction
           \/ h.direction = "reverse" /\ h.stage # None /\ h.stage.image = "before"
              /\ SamePrepared(h.own.leaf, h.stage)
    BY <1>1 DEF IInv, ConsentInv
  <2>2. call = "restore" /\ h.stage # None /\ h.stage.image = "before" /\ h.direction = "reverse"
    BY <1>1, <2>1, NullFacts
  <2>3. \/ g.own.leaf = g.consent.leaf /\ g.direction = g.consent.direction
        \/ g.direction = "reverse" /\ g.stage # None /\ g.stage.image = "before"
           /\ SamePrepared(g.own.leaf, g.stage)
    BY <1>2, <1>3, <1>4, <2>1, <2>2
  <2> QED  BY <1>4, <2>1, <2>2, <2>3 DEF ConsentInv, SamePrepared, Renamed
<1>8. HandleOK'
  BY <1>1, <1>4 DEF HandleOK
<1> QED  BY <1>5, <1>6, <1>7, <1>8

\* Where the file took the name, the record explains it.
LEMMA SwapPut ==
  ASSUME IInv, Doing("swap"), Put("leaf", Renamed(h.stage))
  PROVE  /\ NamesOK' /\ RecordInv' /\ (Quiet => DiskInv')
         /\ now'.leaf = Renamed(h.stage) /\ now'.record = now.record
         /\ disk'.record = disk.record /\ disk'.pending = disk.pending
<1> DEFINE f == Renamed(h.stage)
<1>1. /\ <<call, at>> \in {<<"apply", 4>>, <<"restore", 4>>, <<"plain_apply", 2>>, <<"plain_restore", 2>>}
      /\ h # None /\ h \in Handles /\ h.granted /\ h.stage \in Files
      /\ now.leaf = h.own.leaf
      /\ h.stage.image = (IF call \in {"apply", "plain_apply"} THEN "after" ELSE "before")
      /\ h.durable <=> call \in {"apply", "restore"}
      /\ h.durable => /\ Knows(h) /\ h.stage.inode # h.original.inode /\ ~h.stage.moved
      /\ call = "apply" => /\ h.own.leaf = h.original /\ h.record.phase = "forward_prepared"
                           /\ h.direction = None
                           /\ h.record.candidate = h.stage /\ h.own.record.forward = h.stage
      /\ call = "restore" => /\ h.own.leaf.image = "after" /\ h.record.phase = "reverse_prepared"
                             /\ h.record.candidate = h.stage
  BY SwapReady
<1>2. f \in Files /\ f.image = h.stage.image /\ f.inode = h.stage.inode /\ SamePrepared(f, h.stage)
  BY <1>1, SameFile
<1>3. NamesOK
  BY TypeParts DEF IInv
<1>4. Put("leaf", f)
  OBVIOUS
<1> HIDE DEF f
<1>5. /\ now'.leaf = f /\ now'.record = now.record
      /\ disk'.leaf = disk.leaf \cup {f} /\ disk'.record = disk.record /\ disk'.pending = disk.pending
      /\ NamesOK'
  BY <1>2, <1>3, <1>4 DEF Put, NamesOK
<1>6. RecordInv'
  BY <1>5 DEF IInv, RecordInv, Recorded
<1>7. ASSUME Quiet  PROVE DiskInv'
  <2>1. DiskInv /\ OwnerInv /\ SyncedInv
    BY <1>7 DEF IInv, QuietInv
  <2>2. h.durable /\ now.record = h.own.record /\ Knows(h)
    BY <1>1, <2>1, SwapReady DEF OwnerInv
  <2>3. disk.record = {now.record}
    BY <1>1, <2>1, <2>2 DEF SyncedInv
  <2>4. /\ Recorded(now.record) /\ now.record.original = h.original /\ h.original.image = "before"
        /\ now.record.phase = h.record.phase /\ now.record.candidate = h.record.candidate
    BY <2>2, KnownPhase
  <2>5. Explained(now.record, f)
    <3>1. CASE call = "apply"
      <4>1. Remembered(now.record, f)
        BY <1>1, <2>2, <3>1, NullFacts DEF Remembered
      <4> QED  BY <1>1, <1>2, <2>2, <2>4, <3>1, <4>1 DEF Explained
    <3>2. CASE call = "restore"
      BY <1>1, <1>2, <2>4, <3>2 DEF Explained
    <3> QED  BY <1>1, <2>2, <3>1, <3>2
  <2>6. f.image = "after" => disk.leaf = {h.original}
    BY <1>1, <1>2, <2>1, <2>2 DEF SyncedInv
  <2>7. FALSE \notin disk.pending
    <3>1. CASE call = "apply"
      BY <1>1, <2>1, <3>1 DEF OwnerInv, Lasting
    <3>2. CASE call = "restore"
      <4>1. ~Agreed(now.leaf, now.record)
        BY <1>1, <2>4, <3>2 DEF Agreed
      <4> QED  BY <1>3, <2>1, <4>1 DEF DiskInv, NamesOK
    <3> QED  BY <1>1, <2>2, <3>1, <3>2
  <2>8. \A leaf \in disk'.leaf, r \in disk'.record : Explained(r, leaf)
    BY <1>5, <2>1, <2>3, <2>5 DEF DiskInv
  <2>9. now'.leaf.image = "after" =>
          \A leaf \in disk'.leaf, r \in disk'.record : leaf = now'.leaf \/ leaf = r.original
    BY <1>5, <2>3, <2>4, <2>6
  <2>10. \A r, s \in disk'.record : Recorded(r) /\ Recorded(s) => r.original = s.original
    BY <1>5, <2>3
  <2>11. now'.record # None /\ Recorded(now'.record) /\ FALSE \notin disk'.pending
    BY <1>5, <2>4, <2>7 DEF Recorded
  <2> QED  BY <2>8, <2>9, <2>10, <2>11 DEF DiskInv, Recorded
<1> QED  BY <1>5, <1>6, <1>7 DEF f

\* ... or nothing has changed; either way the owner remembers it.
LEMMA SwapNames ==
  ASSUME IInv, Doing("swap"), NEW g, h' = g, Swapped(g),
         Put("leaf", Renamed(h.stage)) \/ UNCHANGED <<now, disk>>,
         call' = "none" \/ (call' = call /\ now'.leaf = g.own.leaf)
  PROVE  NamesOK' /\ RecordInv' /\ (Quiet => DiskInv' /\ OwnerInv')
<1>1. NamesOK' /\ RecordInv' /\ (Quiet => DiskInv')
  BY SwapPut, Untouched
<1>2. ASSUME Quiet  PROVE OwnerInv'
  <2>1. OwnerInv /\ DiskInv
    BY <1>2 DEF IInv, QuietInv
  <2>2. h # None /\ h.durable /\ call \in {"apply", "restore"} /\ now.record = h.own.record
    BY <2>1, SwapReady DEF OwnerInv
  <2>3. now'.record = now.record /\ disk'.record = disk.record /\ disk'.pending = disk.pending
        /\ now'.leaf \in {now.leaf, Renamed(h.stage)}
    <3>1. CASE Put("leaf", Renamed(h.stage))
      BY <3>1, SwapPut
    <3>2. CASE UNCHANGED <<now, disk>>
      BY <3>2
    <3> QED  BY <3>1, <3>2
  <2>4. ASSUME now'.leaf.image = "after"  PROVE Remembered(h.record, now'.leaf)
    <3>1. CASE now'.leaf = now.leaf
      BY <2>1, <2>2, <2>4, <3>1 DEF OwnerInv
    <3>2. CASE now'.leaf = Renamed(h.stage)
      <4>1. h.stage.image = "after" /\ h.stage \in Files
        BY <2>4, <3>2, SwapReady, SameFile
      <4>2. call = "apply"
        BY <2>2, <4>1, SwapReady
      <4> QED  BY <4>1, <4>2, SwapReady, NullFacts DEF Remembered
    <3> QED  BY <2>3, <3>1, <3>2
  <2>5. g # None /\ g.durable /\ g.record = h.record /\ g.own.record = h.own.record
        /\ g.original = h.original /\ g.direction = h.direction /\ g.granted = h.granted
    BY <2>2, NullFacts DEF Swapped
  <2>6. g.granted /\ g.direction = None => Lasting'
    BY <2>1, <2>2, <2>3, <2>5 DEF OwnerInv, Lasting
  <2>7. \A r \in disk'.record : Recorded(r) => r.original = g.original
    BY <2>1, <2>2, <2>3, <2>5 DEF OwnerInv
  <2>8. call' # "none" => now'.leaf = g.own.leaf /\ now'.record = g.own.record
    BY <2>2, <2>3, <2>5
  <2> QED  BY <2>4, <2>5, <2>6, <2>7, <2>8 DEF OwnerInv
<1> QED  BY <1>1, <1>2

\* publish.
LEMMA SwapInv == IInv /\ Swap => IInv'
<1> SUFFICES ASSUME IInv, Swap  PROVE IInv'
  OBVIOUS
<1> DEFINE f == Renamed(h.stage)
           known == [h EXCEPT !.own["leaf"] = f]
           unknown == [h EXCEPT !.try["leaf"] = f, !.record = h.record]
<1>1. Doing("swap") /\ Rename("leaf", f, h)
  BY DEF Swap
<1>2. /\ <<call, at>> \in {<<"apply", 4>>, <<"restore", 4>>, <<"plain_apply", 2>>, <<"plain_restore", 2>>}
      /\ call \in DOMAIN Steps /\ TypeOK
      /\ h # None /\ h \in Handles /\ h.granted /\ h.stage \in Files
      /\ h.stage.image = (IF call \in {"apply", "plain_apply"} THEN "after" ELSE "before")
  BY <1>1, SwapReady
<1>3. /\ Swapped(known) /\ known.own.leaf = f /\ known.try = h.try
      /\ Swapped(unknown) /\ [h EXCEPT !.record = h.record] = h /\ Swapped(h)
  BY <1>2, SwapShapes
<1>4. \/ Put("leaf", f) /\ (Done(known) \/ Fail(known) \/ Fail(unknown))
      \/ (Fail(h) \/ Fail(unknown)) /\ UNCHANGED <<now, disk>>
  BY <1>1, <1>3 DEF Rename
<1>5. f.image = h.stage.image
  BY <1>2, SameFile
<1> HIDE DEF known, unknown
<1>6. ASSUME NEW g, Fail(g), Swapped(g), Put("leaf", f) \/ UNCHANGED <<now, disk>>
      PROVE  IInv'
  <2>1. h' = g /\ Rest /\ call' = "none" /\ CountsOK' /\ (Quiet' <=> Quiet)
    BY <1>2, <1>6, BoundsAssumption, TypeParts DEF Fail, Rest, CountsOK, Quiet
  <2>2. CallInv' /\ JournalInv' /\ ConsentInv' /\ HandleOK'
    BY <1>1, <1>6, <2>1, SwapHandle
  <2>3. NamesOK' /\ RecordInv' /\ (Quiet => DiskInv' /\ OwnerInv')
    BY <1>1, <1>6, <2>1, SwapNames
  <2>4. TypeOK'
    BY <2>1, <2>2, <2>3, Resting, TypeNext
  <2> QED  BY <2>1, <2>2, <2>3, <2>4, Resting DEF IInv, QuietInv
<1>7. CASE Put("leaf", f) /\ Done(known)
  <2>1. h' = known /\ call' = call /\ at' = at + 1 /\ call # "none"
        /\ UNCHANGED <<agreed, edits, faults, legacy>>
    BY <1>2, <1>7, Onward DEF Last
  <2>2. CallInv' /\ JournalInv' /\ ConsentInv' /\ HandleOK'
    BY <1>1, <1>3, <2>1, SwapHandle
  <2>3. now'.leaf = known.own.leaf
    BY <1>1, <1>3, <1>7, SwapPut
  <2>4. NamesOK' /\ RecordInv' /\ (Quiet => DiskInv' /\ OwnerInv')
    BY <1>1, <1>3, <1>7, <2>1, <2>3, SwapNames
  <2>5. known \in Handles /\ (known.record # None => Valid(known.record))
    BY <1>1, <1>3, SwapReady DEF Swapped
  <2>6. TypeOK' /\ (Quiescent' <=> SwapNext(call', at')) /\ (Quiet' <=> Quiet)
    BY <1>2, <1>7, <2>1, <2>4, <2>5, Advancing
  <2>7. QuiescentInv' /\ OpenInv' /\ FinishInv' /\ PlainInv'
    <3>1. ~SwapNext(call', at')
      BY <1>2, <2>1 DEF SwapNext
    <3>2. call' \in {"apply", "restore", "plain_apply", "plain_restore"} /\ at' \in {3, 5}
      BY <1>2, <2>1
    <3> QED  BY <2>6, <3>1, <3>2 DEF QuiescentInv, OpenInv, FinishInv, PlainInv
  <2>8. ApplyInv'
    <3> SUFFICES ASSUME call = "apply"  PROVE ApplyInv'
      BY <2>1 DEF ApplyInv
    <3>1. at = 4 /\ f.image = "after"
      BY <1>2, <1>5
    <3>2. h.used /\ h.direction = None /\ h.try = NoTry /\ h.record.phase = "forward_prepared"
      BY <3>1 DEF IInv, ApplyInv
    <3>3. known.used /\ known.direction = None /\ known.try = NoTry
          /\ known.record.phase = "forward_prepared" /\ known.own.leaf.image = "after"
      BY <1>3, <3>1, <3>2 DEF Swapped
    <3> QED  BY <2>1, <3>1, <3>3 DEF ApplyInv
  <2>9. RestoreInv'
    <3> SUFFICES ASSUME call = "restore"  PROVE RestoreInv'
      BY <2>1 DEF RestoreInv
    <3>1. at = 4 /\ f.image = "before"
      BY <1>2, <1>5
    <3>2. h.direction = "reverse" /\ h.try = NoTry
      BY DEF IInv, RestoreInv
    <3>3. known.direction = "reverse" /\ known.try = NoTry /\ known.own.leaf.image = "before"
      BY <1>3, <3>1, <3>2 DEF Swapped
    <3> QED  BY <2>1, <3>1, <3>3 DEF RestoreInv
  <2>10. SyncedInv'
    BY <1>2, <2>1 DEF SyncedInv
  <2> QED  BY <2>2, <2>4, <2>6, <2>7, <2>8, <2>9, <2>10 DEF IInv, QuietInv
<1>8. CASE Put("leaf", f) /\ (Fail(known) \/ Fail(unknown))
  BY <1>3, <1>6, <1>8
<1>9. CASE (Fail(h) \/ Fail(unknown)) /\ UNCHANGED <<now, disk>>
  BY <1>3, <1>6, <1>9
<1> QED  BY <1>4, <1>7, <1>8, <1>9

-----------------------------------------------------------------------------
(* The theorems.                                                             *)

LEMMA NextInv == IInv /\ [Next]_vars => IInv'
<1> SUFFICES ASSUME IInv, [Next]_vars  PROVE IInv'
  OBVIOUS
<1>1. ASSUME NEW durable \in BOOLEAN, Begin(durable)  PROVE IInv'
  BY <1>1, BeginInv
<1>2. ASSUME NEW direction \in {"forward", "reverse"}, Propose(direction)  PROVE IInv'
  BY <1>2, ProposeInv
<1>3. ASSUME NEW direction \in {"forward", "reverse"}, BeginRecovery(direction)  PROVE IInv'
  BY <1>3, BeginRecoveryInv
<1>4. CASE Apply \/ Finish \/ Restore
  BY <1>4, ApplyCallInv, FinishCallInv, RestoreCallInv
<1>5. CASE CreatePending \/ CreateRecord \/ Grant \/ Stage \/ Mark \/ Swap \/ Unlink \/ Sync \/ End
  BY <1>5, CreatePendingInv, CreateRecordInv, GrantInv, StageInv, MarkInv, SwapInv, UnlinkInv, SyncInv, EndInv
<1>6. CASE Leave \/ Error \/ PowerLoss \/ Edit
  BY <1>6, LeaveInv, ErrorInv, PowerLossInv, EditInv
<1>7. CASE UNCHANGED vars
  <2>1. UNCHANGED <<now, disk>> /\ h' = h /\ call' = call /\ at' = at /\ UNCHANGED <<agreed, edits, faults, legacy>>
    BY <1>7 DEF vars
  <2>2. TypeOK' /\ (Quiet' <=> Quiet)
    BY <2>1 DEF IInv, TypeOK, Valid, Quiet
  <2>3. CallInv' /\ OpenInv' /\ JournalInv' /\ ApplyInv' /\ FinishInv' /\ RestoreInv' /\ PlainInv'
    BY <2>1 DEF IInv, CallInv, OpenInv, JournalInv, ApplyInv, FinishInv, RestoreInv, PlainInv,
                StagedAs, Fits, Knows
  <2>4. QuiescentInv' /\ ConsentInv'
    BY <2>1 DEF IInv, QuiescentInv, Quiescent, Doing, ConsentInv
  <2>5. Quiet => OwnerInv' /\ SyncedInv'
    BY <2>1 DEF IInv, QuietInv, OwnerInv, SyncedInv, Remembered, Lasting, Barred
  <2> QED  BY <2>1, <2>2, <2>3, <2>4, <2>5, Untouched DEF IInv, QuietInv
<1> QED  BY <1>1, <1>2, <1>3, <1>4, <1>5, <1>6, <1>7 DEF Next

\* The inductive invariant: what every call knows at each of its steps of the
\* file, the record and the barrier, and of what a power failure may leave.
THEOREM Invariant == Spec => []IInv
BY InitInv, NextInv, PTL DEF Spec

\* Every record that is written or read back is one validPublicationRecord takes
\* (publication_record.go), and every call is at one of its steps.
THEOREM TypeCorrect == Spec => []TypeOK
<1>1. IInv => TypeOK
  BY DEF IInv
<1> QED  BY <1>1, Invariant, PTL

\* durable_publication.go:86-105: the barrier comes down, and may be lost by a
\* power failure, only when file and record agree on the outcome in whatever the
\* failure may leave of them.
THEOREM BarrierHolds == Spec => []BarrierOutlastsDoubt
<1>1. IInv => BarrierOutlastsDoubt
  BY DEF IInv, QuietInv, Quiet, DiskInv, Agreed, BarrierOutlastsDoubt
<1> QED  BY <1>1, Invariant, PTL

\* interrupted_recovery_observe.go:341-377: whatever step a publication was cut
\* off at, and whatever a power failure took back, its record explains the file
\* and a direction is left, but for the two reversals Resolvable names.
THEOREM InterruptionsResolve == Spec => []Resolvable
<1>1. IInv => Resolvable
  <2> SUFFICES ASSUME IInv, h = None, now.pending, Recorded(now.record), edits = 0, ~legacy,
                      now.record.phase = "reverse_prepared" =>
                        now.record.forward.moved /\ now.leaf # now.record.original
               PROVE  \E direction \in {"forward", "reverse"} : Eligible(direction)
    BY DEF Resolvable
  <2>1. Explained(now.record, now.leaf)
    BY TypeParts DEF IInv, QuietInv, Quiet, DiskInv, NamesOK
  <2>2. CASE now.leaf.image = "before"
    <3>1. Image(now.record, now.leaf, "reverse")
      BY <2>1, <2>2 DEF Explained, Image
    <3> QED  BY <3>1 DEF Eligible
  <2>3. CASE now.leaf.image = "after" /\ now.record.phase = "reverse_prepared"
    <3>1. now.leaf = now.record.forward
      BY <2>1, <2>3 DEF Explained, Remembered
    <3>2. Image(now.record, now.leaf, "reverse")
      BY <2>3, <3>1 DEF Image
    <3> QED  BY <3>2 DEF Eligible
  <2>4. CASE now.leaf.image = "after" /\ now.record.phase # "reverse_prepared"
    <3>1. Image(now.record, now.leaf, "forward")
      BY <2>1, <2>4 DEF Explained, Image
    <3> QED  BY <3>1 DEF Eligible
  <2> QED  BY <2>1, <2>2, <2>3, <2>4 DEF Explained
<1> QED  BY <1>1, Invariant, PTL

\* interrupted_recovery.go:120-122: a recovery ends as it was proposed for what
\* was found, or has brought the original back in that direction.
THEOREM RecoveredAsProposed == Spec => []AsProposed
<1>1. IInv => AsProposed
  BY DEF IInv, ConsentInv, AsProposed
<1> QED  BY <1>1, Invariant, PTL

\* An outcome that is on disk is the one the name has.
LEMMA OutcomeIs ==
  ASSUME IInv, Outcome(disk.record) # {}
  PROVE  /\ \A r \in disk.record : Recorded(r) /\ r.phase = now.record.phase
         /\ now.record.phase \in Terminal /\ Recorded(now.record)
         /\ Outcome(disk.record) = {now.record.phase}
<1>1. \A r \in disk.record : Recorded(r) /\ r.phase \in Terminal
  BY DEF Outcome
<1>2. now.record \in disk.record
  BY TypeParts DEF IInv, NamesOK
<1>3. \A r \in disk.record : r.phase = now.record.phase
  BY <1>1 DEF IInv, RecordInv
<1>4. {r.phase : r \in disk.record} = {now.record.phase}
  BY <1>2, <1>3
<1> QED  BY <1>1, <1>2, <1>3, <1>4 DEF Outcome

\* A step adds to the disk no record of another outcome.
LEMMA OutcomeStep ==
  ASSUME IInv, IInv', [Next]_vars, Outcome(disk.record) # {}, edits' = edits
  PROVE  \A r \in disk'.record : Recorded(r) /\ r.phase = now.record.phase
<1>1. /\ \A r \in disk.record : Recorded(r) /\ r.phase = now.record.phase
      /\ now.record.phase \in Terminal /\ Recorded(now.record) /\ NamesOK
  BY OutcomeIs, TypeParts DEF IInv
<1>2. CASE disk'.record \subseteq disk.record
  BY <1>1, <1>2
<1>3. CASE Mark
  <2>1. PICK phase \in Marks :
        /\ Doing(phase) /\ Owned(h)
        /\ IF h.own.record = Target(phase) THEN Done(h) /\ UNCHANGED <<now, disk>>
           ELSE Rename("record", Target(phase), [h EXCEPT !.record = Target(phase)])
    BY <1>3 DEF Mark
  <2>2. Put("record", Target(phase)) \/ UNCHANGED <<now, disk>>
    BY <2>1 DEF Rename
  <2>3. Named(Target(phase)) /\ Target(phase).phase = now.record.phase /\ Recorded(Target(phase))
    BY <1>1, <2>1, <2>2, MarkNames, TargetOutcome, TargetFits, NullFacts DEF Recorded
  <2> QED  BY <1>1, <2>3 DEF Named
<1>4. CASE CreateRecord
  <2>1. h # None /\ call = "open" /\ at = 3 /\ h.durable /\ Owned(h)
    <3>1. Doing("slot") /\ Owned(h)
      BY <1>4 DEF CreateRecord
    <3>2. call = "open" /\ at = 3 /\ h # None
      BY <3>1, Where, Working
    <3> QED  BY <3>1, <3>2 DEF IInv, CallInv
  <2>2. now.record = None
    BY <2>1 DEF IInv, OpenInv, Owned
  <2> QED  BY <1>1, <2>2 DEF Recorded
<1>5. CASE Sync
  <2>1. PICK step \in DOMAIN Synced : Keep(Synced[step]) /\ UNCHANGED now
    BY <1>5 DEF Sync
  <2>2. Synced[step] \in {"leaf", "record", "pending"}
    BY DEF Synced
  <2>3. disk'.record \subseteq disk.record
    BY <1>1, <2>1, <2>2, Syncing DEF NamesOK
  <2> QED  BY <1>2, <2>3
<1>6. CASE PowerLoss
  <2>1. disk'.record \subseteq disk.record
    BY <1>6 DEF PowerLoss
  <2> QED  BY <1>2, <2>1
<1>7. CASE Edit
  BY <1>7, TypeParts DEF Edit, IInv, CountsOK
<1>8. CASE CreatePending \/ Unlink
  <2>1. disk'.record = disk.record
    BY <1>1, <1>8 DEF CreatePending, Unlink, Put, NamesOK
  <2> QED  BY <1>2, <2>1
<1>9. CASE Swap
  <2>1. Put("leaf", Renamed(h.stage)) \/ UNCHANGED <<now, disk>>
    BY <1>9 DEF Swap, Rename
  <2>2. disk'.record = disk.record
    BY <1>1, <2>1 DEF Put, NamesOK
  <2> QED  BY <1>2, <2>2
<1>10. CASE Grant \/ Stage \/ End \/ Error \/ Leave \/ Apply \/ Finish \/ Restore
  <2>1. disk' = disk
    BY <1>10 DEF Grant, Stage, End, Error, Leave, Apply, Finish, Restore, Call
  <2> QED  BY <1>2, <2>1
<1>11. CASE \E durable \in BOOLEAN : Begin(durable)
  <2>1. disk' = disk
    BY <1>11 DEF Begin
  <2> QED  BY <1>2, <2>1
<1>12. CASE \E direction \in {"forward", "reverse"} : Propose(direction) \/ BeginRecovery(direction)
  <2>1. disk' = disk
    BY <1>12 DEF Propose, BeginRecovery
  <2> QED  BY <1>2, <2>1
<1>13. CASE UNCHANGED vars
  BY <1>2, <1>13 DEF vars
<1> QED  BY <1>3, <1>4, <1>5, <1>6, <1>7, <1>8, <1>9, <1>10, <1>11, <1>12, <1>13 DEF Next

\* publication_storage.go:203-253, durable_publication.go:86-88: a file the user
\* has written since it was last looked at is not replaced, and no step of any
\* call, crash or recovery turns an outcome that is on disk into another one.
THEOREM WhatIsSettledStays == Spec => SettledStays
<1>1. IInv /\ Doing("swap") => now.leaf = h.own.leaf
  BY DEF IInv, QuiescentInv, Quiescent
<1>2. ASSUME IInv, IInv', [Next]_vars, Outcome(disk.record) # {}, edits' = edits
      PROVE  Outcome(disk'.record) = Outcome(disk.record)
  <2>1. now.record.phase \in Terminal /\ Outcome(disk.record) = {now.record.phase}
    BY <1>2, OutcomeIs
  <2>2. \A r \in disk'.record : Recorded(r) /\ r.phase = now.record.phase
    BY <1>2, OutcomeStep
  <2>3. now'.record \in disk'.record
    BY <1>2 DEF IInv, TypeOK
  <2>4. {r.phase : r \in disk'.record} = {now.record.phase}
    BY <2>2, <2>3
  <2> QED  BY <2>1, <2>2, <2>4 DEF Outcome
<1>3. IInv /\ IInv' /\ [Next]_vars =>
        [/\ Doing("swap") /\ now'.leaf # now.leaf /\ ~Doing("swap")' => now.leaf = h.own.leaf
         /\ Outcome(disk.record) # {} /\ edits' = edits =>
              Outcome(disk'.record) = Outcome(disk.record)]_vars
  BY <1>1, <1>2
<1> QED  BY <1>3, Invariant, PTL DEF Spec, SettledStays

=============================================================================
