------------------------------- MODULE Review -------------------------------
(***************************************************************************)
(* A review of a pull request (internal/reviewci) by batches of its diff   *)
(* sent to a model (internal/reviewbatch, internal/review).  The check on  *)
(* the bound head is opened, the manifest and the diff are fetched, the    *)
(* workers send the batches under one ledger of allowances, the report is  *)
(* published, and the check is concluded.  Meanwhile the pull request may  *)
(* be pushed to, a signal or the total deadline ends the context, and the  *)
(* provider answers as it likes or not at all.                             *)
(*                                                                         *)
(* A revision is its tree.  `bound` says whether the pull request still is *)
(* at the base and head the run bound itself to.                           *)
(***************************************************************************)
EXTENDS ReviewInputs

CONSTANTS
  Cases,       \* sequence of [trees, manifests, raw]: the repositories, manifests and diffs taken
  Streams,     \* the event streams the provider may send
  Parallelism, HTTPRetries, MaxBatches, RequestTokens, \* the policy
  Allowances \* and the run-wide ones it may set: [requests, tokens, input]

VARIABLES
  pc, ctx, bound,
  given,   \* what was fetched: [before, after, sections]
  shown,   \* whose diff that is: of the bound revision, or of another one, from
           \* which the pull request has returned or not
  plan,    \* the batches, until they are sent
  covered, \* no file of the diff is unreviewable
  size, status,
  worker,  \* per batch: the state of its goroutine
  attempts, sent, answered,
  allowed, \* the allowances of this run
  ledger,  \* [stopped, requests, tokens, input]
  run,     \* the report's status, what reviewbatch.Run returned, the files it left
  comment, check

vars == <<pc, ctx, bound, given, shown, plan, covered, size, status, worker, attempts, sent,
          answered, allowed, ledger, run, comment, check>>
inputs == <<given, shown, plan, covered>>
work == <<size, status, worker, attempts, sent, answered, allowed, ledger>>

Nothing == [before |-> <<>>, after |-> <<>>, sections |-> {}]
Unwritten == [status |-> None, returned |-> 2, report |-> FALSE, markdown |-> FALSE]

Init ==
  /\ pc = "metadata" /\ ctx = "live" /\ bound = TRUE
  /\ given = Nothing /\ shown = None /\ plan = <<>> /\ covered = FALSE
  /\ size = <<>> /\ status = <<>> /\ worker = <<>>
  /\ attempts = <<>> /\ sent = <<>> /\ answered = <<>>
  /\ allowed = [requests |-> 0, tokens |-> 0, input |-> 0]
  /\ ledger = [stopped |-> FALSE, requests |-> 0, tokens |-> 0, input |-> 0]
  /\ run = Unwritten /\ comment = FALSE /\ check = None

(***************************************************************************)
(* The world.                                                              *)
(***************************************************************************)
Over == pc \in {"ended", "killed"}
Expire == /\ ctx = "live" /\ ~ Over /\ ctx' = "over"
          /\ UNCHANGED <<pc, bound, inputs, work, run, comment, check>>
\* To another revision, or back to the bound one.
Push == /\ ~ Over /\ bound' = ~ bound
        /\ shown' = IF shown = "another" THEN "returned" ELSE shown
        /\ UNCHANGED <<pc, ctx, given, plan, covered, work, run, comment, check>>
Kill == /\ ~ Over /\ pc' = "killed"
        /\ UNCHANGED <<ctx, bound, inputs, work, run, comment, check>>

(***************************************************************************)
(* reviewci: every call may fail, and fails once the context is over.      *)
(***************************************************************************)
FailEarly == /\ pc \in {"metadata", "open"} /\ pc' = "ended"
             /\ UNCHANGED <<ctx, bound, inputs, work, run, comment, check>>
Fail == /\ pc \in {"fetch", "recheck", "plan", "read", "comment"} /\ pc' = "conclude"
        /\ UNCHANGED <<ctx, bound, inputs, work, run, comment, check>>

Metadata == /\ pc = "metadata" /\ ctx = "live" /\ bound /\ pc' = "open"
            /\ UNCHANGED <<ctx, bound, inputs, work, run, comment, check>>
\* An answer that does not arrive leaves a check that nobody knows.
OpenCheck == /\ pc = "open" /\ ctx = "live" /\ check' = "in_progress"
             /\ pc' \in {"fetch", "ended"}
             /\ UNCHANGED <<ctx, bound, inputs, work, run, comment>>

\* The manifest and the diff.  Trees are read by commit, so only a raw diff
\* shows the pull request where it is now; it is GitHub's, and true of that.
CompleteDiff ==
  /\ pc = "fetch" /\ ctx = "live"
  /\ \E c \in DOMAIN Cases : \E before, after \in Cases[c].trees, rows \in Cases[c].manifests, raw \in Cases[c].raw :
       LET sections == IF raw THEN RawDiff(rows, before, after) ELSE LargeDiff(rows, before, after) IN
       /\ IF raw THEN Explains(sections, before, after) ELSE Accepted(rows, before, after)
       /\ ReadInputs(rows, sections)
       /\ given' = [before |-> before, after |-> after, sections |-> sections]
       /\ shown' = IF raw /\ ~ bound THEN "another" ELSE "bound"
  /\ pc' = "recheck"
  /\ UNCHANGED <<ctx, bound, plan, covered, work, run, comment, check>>

Recheck == /\ pc = "recheck" /\ ctx = "live" /\ bound /\ pc' = "plan"
           /\ plan' = MakePlan(given.sections)
           /\ covered' = (given.sections # {} /\ \A s \in given.sections : Reviewable(s))
           /\ UNCHANGED <<ctx, bound, given, shown, work, run, comment, check>>

(***************************************************************************)
(* reviewbatch.  A batch with an authenticated cache entry is complete.    *)
(***************************************************************************)
Refused == \/ plan = <<>> \/ Len(plan) > MaxBatches
LoadCache(cached) == [i \in DOMAIN plan |-> IF i \in cached THEN "complete" ELSE "planned"]
Execute ==
  /\ pc = "plan"
  /\ size' = [i \in DOMAIN plan |-> Bytes(plan[i])]
  /\ worker' = [i \in DOMAIN plan |-> "idle"]
  /\ attempts' = [i \in DOMAIN plan |-> 0]
  /\ sent' = [i \in DOMAIN plan |-> 0]
  /\ \E cached \in SUBSET DOMAIN plan :
       /\ Refused => cached = {}
       /\ status' = LoadCache(cached)
       /\ answered' = [i \in DOMAIN plan |-> IF i \in cached THEN "cached" ELSE None]
  /\ pc' = IF Refused THEN "write" ELSE "batches"
  /\ run' = [run EXCEPT !.status = IF Refused THEN "skipped" ELSE @]
  /\ allowed' \in Allowances
  /\ given' = Nothing /\ plan' = <<>>
  /\ UNCHANGED <<ctx, bound, shown, covered, ledger, comment, check>>
\* Without a key nothing is sent.
MissingKey == /\ pc = "plan" /\ ~ Refused /\ pc' = "write"
              /\ run' = [run EXCEPT !.status = "failed"]
              /\ given' = Nothing /\ plan' = <<>>
              /\ UNCHANGED <<ctx, bound, shown, covered, work, comment, check>>

Busy == {i \in DOMAIN worker : worker[i] \notin {"idle", "collected"}}
Pending(i) == status[i] = "planned" /\ worker[i] = "idle"
Startable == /\ Cardinality(Busy) < Parallelism
             /\ ctx = "live" /\ ~ ledger.stopped
             /\ \E i \in DOMAIN worker : Pending(i)
First == CHOOSE i \in DOMAIN worker : Pending(i) /\ \A j \in 1..(i - 1) : ~ Pending(j)

StartBatch ==
  /\ pc = "batches" /\ Startable
  /\ worker' = [worker EXCEPT ![First] = "reserve"]
  /\ UNCHANGED <<pc, ctx, bound, inputs, size, status, attempts, sent, answered, allowed, ledger, run, comment, check>>
\* The request itself is over its limit.
StartOversized ==
  /\ pc = "batches" /\ Startable
  /\ status' = [status EXCEPT ![First] = "failed"]
  /\ ledger' = [ledger EXCEPT !.stopped = TRUE]
  /\ UNCHANGED <<pc, ctx, bound, inputs, size, worker, attempts, sent, answered, allowed, run, comment, check>>

\* A worker ends: one that failed closes the ledger before it says so.
Stopped(i, outcome) ==
  /\ worker' = [worker EXCEPT ![i] = outcome]
  /\ ledger' = [ledger EXCEPT !.stopped = TRUE]
\* Mutant: each worker's first request is free.
Mutant_Exhausted(i) ==
  /\ attempts[i] > 0
  /\ \/ ledger.requests >= allowed.requests
     \/ RequestTokens > allowed.tokens - ledger.tokens
     \/ size[i] > allowed.input - ledger.input
Exhausted(i) ==
  \/ ledger.requests >= allowed.requests
  \/ RequestTokens > allowed.tokens - ledger.tokens
  \/ size[i] > allowed.input - ledger.input
Reserve(i) ==
  /\ worker[i] = "reserve"
  /\ IF ctx = "over" THEN Stopped(i, "failed") /\ UNCHANGED attempts
     ELSE IF ledger.stopped \/ Exhausted(i) THEN Stopped(i, "skipped") /\ UNCHANGED attempts
     ELSE /\ worker' = [worker EXCEPT ![i] = "send"]
          /\ attempts' = [attempts EXCEPT ![i] = @ + 1]
          /\ ledger' = [ledger EXCEPT !.requests = @ + 1, !.tokens = @ + RequestTokens, !.input = @ + size[i]]
  /\ UNCHANGED <<pc, ctx, bound, inputs, size, status, sent, answered, allowed, run, comment, check>>

Send(i) ==
  /\ worker[i] = "send" /\ ctx = "live"
  /\ worker' = [worker EXCEPT ![i] = "wait"]
  /\ sent' = [sent EXCEPT ![i] = @ + 1]
  /\ UNCHANGED <<pc, ctx, bound, inputs, size, status, attempts, answered, allowed, ledger, run, comment, check>>

\* What the provider sends when it has sent all of an answer.
Entire(stream) ==
  LET events == stream.events
      n == Len(events)
  IN /\ stream.clean /\ n > 0 /\ events[n] = "done"
     /\ \A i \in 1..(n - 1) : events[i] \in {"text", "stop", "usage"}
     /\ \E i \in 1..(n - 1) : events[i] = "text"
     /\ \E i \in 1..(n - 1) : events[i] = "stop"
     /\ \A i, j \in 1..(n - 1) : events[i] = "stop" /\ events[j] = "text" => j < i

\* readStream: [terminal, done, text, bad] after the events so far.
Event(state, event) ==
  IF state.bad \/ state.done THEN [state EXCEPT !.bad = TRUE]
  ELSE CASE event = "text" -> [state EXCEPT !.text = TRUE, !.bad = state.terminal]
         [] event = "stop" -> [state EXCEPT !.terminal = TRUE]
         [] event = "usage" -> state
         [] event = "done" -> [state EXCEPT !.done = TRUE, !.bad = ~ state.terminal]
         [] OTHER -> [state EXCEPT !.bad = TRUE]
\* A stream is [events, clean, long]: it ends between two events, or inside one; its
\* findings may be more than runBatch takes.
ReadStream(stream) ==
  LET end == FoldLeft(Event, [terminal |-> FALSE, done |-> FALSE, text |-> FALSE, bad |-> FALSE], stream.events)
  IN ~ end.bad /\ end.terminal /\ end.done /\ end.text /\ stream.clean

Answer(i) ==
  /\ worker[i] = "wait" /\ ctx = "live"
  /\ \E stream \in Streams :
       /\ answered' = [answered EXCEPT ![i] =
            IF ~ Entire(stream) THEN "torn" ELSE IF stream.long THEN "oversized" ELSE "entire"]
       /\ IF ReadStream(stream) /\ ~ stream.long
          THEN worker' = [worker EXCEPT ![i] = "complete"] /\ UNCHANGED ledger
          ELSE Stopped(i, "failed")
  /\ UNCHANGED <<pc, ctx, bound, inputs, size, status, attempts, sent, allowed, run, comment, check>>
\* 429 and 503 are tried once more after a delay.
Refuse(i) ==
  /\ worker[i] = "wait" /\ ctx = "live" /\ attempts[i] = 1 /\ HTTPRetries = 1
  /\ worker' = [worker EXCEPT ![i] = "reserve"]
  /\ UNCHANGED <<pc, ctx, bound, inputs, size, status, attempts, sent, answered, allowed, ledger, run, comment, check>>
\* Mutant: no deadline while the answer is awaited.  Otherwise:
\* Any other failure, the batch's own deadline, or the end of the context.
Mutant_Lapse(i) ==
  /\ worker[i] \in {"reserve", "send"}
  /\ Stopped(i, "failed")
  /\ UNCHANGED <<pc, ctx, bound, inputs, size, status, attempts, sent, answered, allowed, run, comment, check>>
Lapse(i) ==
  /\ worker[i] \in {"reserve", "send", "wait"}
  /\ Stopped(i, "failed")
  /\ UNCHANGED <<pc, ctx, bound, inputs, size, status, attempts, sent, answered, allowed, run, comment, check>>

Outcomes == {"complete", "failed", "skipped"}
Collect(i) ==
  /\ pc = "batches" /\ worker[i] \in Outcomes
  /\ status' = [status EXCEPT ![i] = worker[i]]
  /\ worker' = [worker EXCEPT ![i] = "collected"]
  /\ UNCHANGED <<pc, ctx, bound, inputs, size, attempts, sent, answered, allowed, ledger, run, comment, check>>

\* updateCoverage and the verdict of execute.
\* Mutant: the batches are counted, the files are not.
Mutant_Complete == \A i \in DOMAIN status : status[i] = "complete"
Complete == covered /\ \A i \in DOMAIN status : status[i] = "complete"
EndBatches ==
  /\ pc = "batches" /\ ~ Startable /\ Busy = {}
  /\ run' = [run EXCEPT !.status =
       IF Complete THEN (IF ctx = "over" THEN "failed" ELSE "complete")
       ELSE IF \E i \in DOMAIN status : status[i] = "complete" THEN "partial" ELSE "failed"]
  /\ status' = [i \in DOMAIN status |-> IF status[i] = "planned" THEN "skipped" ELSE status[i]]
  /\ pc' = "write"
  /\ UNCHANGED <<ctx, bound, inputs, size, worker, attempts, sent, answered, allowed, ledger, comment, check>>

\* writeReport: report.json, then review.md.  A publication that reports
\* failure may have left its file.
WriteReport ==
  /\ pc = "write" /\ pc' = "read"
  /\ \E report, markdown \in BOOLEAN :
       run' = [run EXCEPT !.report = report, !.markdown = markdown]
  /\ UNCHANGED <<ctx, bound, inputs, work, comment, check>>
Written ==
  /\ pc = "write" /\ pc' = "read"
  /\ run' = [run EXCEPT !.report = TRUE, !.markdown = TRUE,
                        !.returned = IF run.status = "complete" THEN 0 ELSE 1]
  /\ UNCHANGED <<ctx, bound, inputs, work, comment, check>>

(***************************************************************************)
(* reviewci again.                                                         *)
(***************************************************************************)
ReadReport == /\ pc = "read" /\ run.report /\ run.markdown /\ ctx = "live" /\ bound
              /\ pc' = "comment"
              /\ UNCHANGED <<ctx, bound, inputs, work, run, comment, check>>
\* The answer to the comment may be lost.
PostComment == /\ pc = "comment" /\ ctx = "live" /\ comment' = TRUE
               /\ pc' \in {"commented", "conclude"}
               /\ UNCHANGED <<ctx, bound, inputs, work, run, check>>

Conclusion ==
  IF ctx = "over" THEN "cancelled"
  ELSE IF pc = "commented" /\ run.status = "complete" /\ run.returned = 0 THEN "success"
  ELSE IF pc = "commented" /\ run.status = "skipped" THEN "skipped"
  ELSE "failure"
\* The update has a context of its own; it may fail, and be made all the same.
Conclude == /\ pc \in {"commented", "conclude"} /\ pc' = "ended"
            /\ check' = Conclusion
            /\ UNCHANGED <<ctx, bound, inputs, work, run, comment>>
LoseConclusion == /\ pc \in {"commented", "conclude"} /\ pc' = "ended"
                  /\ UNCHANGED <<ctx, bound, inputs, work, run, comment, check>>

Steps == \/ FailEarly \/ Fail \/ Metadata \/ OpenCheck \/ Recheck
         \/ Execute \/ MissingKey \/ StartBatch \/ StartOversized \/ EndBatches
         \/ WriteReport \/ Written \/ ReadReport \/ PostComment \/ Conclude \/ LoseConclusion
Worker(i) == Reserve(i) \/ Send(i) \/ Answer(i) \/ Refuse(i) \/ Lapse(i)
Stop == Over /\ UNCHANGED vars
Next == \/ Steps \/ CompleteDiff \/ Expire \/ Push \/ Kill \/ Stop
        \/ \E i \in DOMAIN worker : Worker(i) \/ Collect(i)

Spec == Init /\ [][Next]_vars

\* The process goes on; a request that gets no answer reaches its deadline, so
\* the diff is fetched or the call fails.
FairSpec ==
  /\ Spec /\ WF_vars(Steps)
  /\ \A i \in 1..MaxBatches : WF_vars(i \in DOMAIN worker /\ (Reserve(i) \/ Lapse(i)))
  /\ \A i \in 1..MaxBatches : WF_vars(i \in DOMAIN worker /\ Collect(i))

(***************************************************************************)
(* Properties.                                                             *)
(***************************************************************************)

\* The diff that is reviewed is the whole change: read section by section it
\* is true of the merge base and the head, each line at the coordinates it is
\* given, and replayed on the one it gives the other on every path, in the
\* manifest or not (largeDiff, reconcileReviewTrees, ApplyFilePatch).
TreesExplained ==
  given.sections # {} => Explains(given.sections, given.before, given.after)

\* Every line of the diff goes out in exactly one batch, under the coordinates
\* it has in the two files; no batch is over the limit, and related files that
\* fit into one batch are not separated (splitFile, makePlan).
Lines(pieces) == FoldLeft(LAMBDA lines, piece : lines \o piece.lines, <<>>, pieces)
InPlace(f, old, new) ==
  /\ f.olds > 0 => f.old + f.olds - 1 <= Len(old) /\ SubSeq(old, f.old, f.old + f.olds - 1) = Minus(f)
  /\ f.news > 0 => f.new + f.news - 1 <= Len(new) /\ SubSeq(new, f.new, f.new + f.news - 1) = Plus(f)
PlanIsWhole ==
  pc = "plan" =>
    LET all == FoldLeft(LAMBDA sum, batch : sum \o batch, <<>>, plan)
        of(name) == SelectSeq(all, LAMBDA f : f.name = name)
        parts(name) == Parts(given.sections, name)
    IN /\ \A s \in given.sections :
            (\A part \in ToSet(parts(s.name)) : Reviewable(part)) =>
              /\ Len(of(s.name)) >= Len(parts(s.name))
              /\ Lines(of(s.name)) = FoldLeft(LAMBDA sum, part : sum \o Lines(part.hunks), <<>>, parts(s.name))
              /\ \A f \in ToSet(of(s.name)) :
                   InPlace(f, Entry(given.before, s.from).blob, Entry(given.after, s.name).blob)
       /\ \A i \in DOMAIN plan : Bytes(plan[i]) <= BatchBytes
       /\ \A i, j \in DOMAIN plan : \A f \in ToSet(plan[i]), g \in ToSet(plan[j]) :
            /\ RelatedKey[f.name] = RelatedKey[g.name]
            /\ Bytes(SelectSeq(all, LAMBDA h : RelatedKey[h.name] = RelatedKey[f.name])) <= BatchBytes
            => i = j

\* What the report says is so: the requests sent are among those it counts and
\* within the allowances of the whole run, whatever the workers and retries
\* were; a batch is complete if and only if the provider's entire answer to it
\* was received and kept, whatever became of the others (reserve, runBatches).
HasAnswer(i) == answered[i] \in {"cached", "entire"}
ReportIsTrue ==
  /\ FoldLeft(+, 0, sent) <= ledger.requests
  /\ ledger.requests <= allowed.requests
  /\ ledger.tokens <= allowed.tokens /\ ledger.input <= allowed.input
  /\ run.status # None => \A i \in DOMAIN status : (status[i] = "complete") = HasAnswer(i)

\* The check on a head succeeds only when each file of the diff that was fetched
\* was covered by complete answers, after the findings were posted; and that diff
\* is the head's unless the pull request had left it when the diff was fetched and
\* came back before it was looked at again (execute, run).
SuccessIsCovered ==
  check = "success" =>
    /\ covered /\ comment /\ ctx = "live" /\ shown \in {"bound", "returned"}
    /\ DOMAIN status # {} /\ \A i \in DOMAIN status : HasAnswer(i)

\* command.go:178: "Coverage is incomplete until all batches finish for this exact
\* revision".  The code compares the pull request's revision before and after, and
\* a raw diff does not say whose it is: this does not hold.
SuccessIsOfThisRevision == check = "success" => shown = "bound"

\* A run ends although the provider never answers: each request has a deadline
\* and every worker that was started is waited for (runBatch, runBatches).
Terminates == <>Over
==============================================================================
