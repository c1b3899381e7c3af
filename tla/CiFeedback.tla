------------------------------ MODULE CiFeedback ------------------------------
(***************************************************************************)
(* The CI feedback service (ci_feedback/): a workflow of the repository    *)
(* completes, GitHub starts an invocation of the service for that event,   *)
(* and the invocation keeps one defect per failing check in Linear: it     *)
(* creates, updates or closes issues whose description carries their       *)
(* metadata, and returns the issue a pull request came from to review.     *)
(*                                                                         *)
(* Each request to Linear or GitHub is a step, so an invocation may stop   *)
(* between any two of them.  The concurrency group of ci-feedback.yml      *)
(* lets one invocation run and one wait; a newer one displaces the one     *)
(* that waits.  Comments on issues are never read back and are left out.   *)
(***************************************************************************)
EXTENDS Integers, Sequences

CONSTANTS
    Runs,                 \* workflow runs of the repository
    Context,              \* per run: workflow, pr, branch, origin, depth
    Outcomes,             \* [conclusion, jobs] an attempt of a run may have
    NoValue,              \* Python's None: no pull request, no origin
    MaxAttempts,          \* bound: attempts of one run
    HistoryLimit,         \* policy.history_limit
    HumanReviewAfter,     \* policy.human_review_after
    SystemicAfter,        \* policy.systemic_after
    MaxRemediationDepth   \* policy.max_remediation_depth

\* A failing job of an outcome: its slot in the run, and the check (job and
\* step names, normalised) by which the fingerprint tells failures apart.
\* A run that could not start fails with no job at all.
Completion == "workflow completion"
Conclusions == {"success", "failure", "cancelled"}

\* _validate_cross_fields and _positive_int of config.py.
ASSUME PolicyAssumption ==
    /\ MaxAttempts \in Nat \ {0}
    /\ MaxRemediationDepth \in Nat \ {0}
    /\ HumanReviewAfter \in Nat \ {0}
    /\ SystemicAfter \in Nat /\ HistoryLimit \in Nat
    /\ HumanReviewAfter < SystemicAfter
    /\ SystemicAfter <= HistoryLimit

ASSUME OutcomeAssumption ==
    \A o \in Outcomes :
        /\ o.conclusion \in Conclusions
        /\ \A j \in o.jobs : j.slot \in Nat \ {0} /\ j.check # Completion
        /\ o.conclusion = "success" => o.jobs = {}

\* extract_remediation_depth: a number read from the originating issue, or 0.
ASSUME ContextAssumption == \A r \in Runs : Context[r].depth \in Nat

VARIABLES
    ci,        \* GitHub: per run its attempt, whether it still runs, its outcome
    emitted,   \* completed attempts, each an event that can be delivered again
    pending,   \* the event whose invocation waits for the concurrency group
    defects,   \* Linear: the issues the service created
    origins,   \* Linear: state of the issues pull requests came from
    inv        \* the running invocation: its program counter and locals

vars == <<ci, emitted, pending, defects, origins, inv>>

OriginIds == {Context[r].origin : r \in Runs} \ {NoValue}

Idle == [pc |-> "idle"]

-----------------------------------------------------------------------------
(* What an event says of a failure: its fingerprint and observation key.   *)

\* The job id of a run's job differs in every attempt; 0 stands in for it
\* when no failing job is listed, whatever the attempt.
Observation(r, attempt, slot, check) ==
    [run |-> r, attempt |-> attempt, slot |-> slot, check |-> check]

Fingerprint(o) == <<Context[o.run].workflow, o.check>>

FailureEvents(r, attempt, jobs) ==
    IF jobs = {}
    THEN {Observation(r, 0, 0, Completion)}
    ELSE {Observation(r, attempt, j.slot, j.check) : j \in jobs}

\* Only the run and the job id enter the key.
Key(o) == <<o.run, o.attempt, o.slot>>

-----------------------------------------------------------------------------
(* DefectMetadata.                                                         *)

\* Keeps one entry too many.
LastNAndOne(s, n) == IF Len(s) <= n THEN s ELSE SubSeq(s, Len(s) - n, Len(s))

LastN(s, n) == IF Len(s) <= n THEN s ELSE SubSeq(s, Len(s) - n + 1, Len(s))

Elements(s) == {s[i] : i \in DOMAIN s}

Maximum(a, b) == IF a >= b THEN a ELSE b

FromEvent(o) ==
    [fingerprint  |-> Fingerprint(o),
     workflow     |-> Context[o.run].workflow,
     pr           |-> Context[o.run].pr,
     branch       |-> Context[o.run].branch,
     origin       |-> Context[o.run].origin,
     count        |-> 1,
     depth        |-> Context[o.run].depth,
     status       |-> "open",
     observations |-> <<o>>,
     recoveries   |-> <<>>]

\* Looks at the latest observation only.
RepeatsLatest(meta, o) == Key(meta.observations[Len(meta.observations)]) = Key(o)

ContainsObservation(meta, o) ==
    \E seen \in Elements(meta.observations) : Key(seen) = Key(o)

\* Takes the depth of the latest failure.
RecordFailureAtItsDepth(meta, o) ==
    [meta EXCEPT !.count = @ + 1, !.status = "open",
                 !.branch = Context[o.run].branch, !.pr = Context[o.run].pr,
                 !.origin = IF Context[o.run].origin # NoValue THEN Context[o.run].origin ELSE @,
                 !.depth = Context[o.run].depth,
                 !.observations = LastN(Append(@, o), HistoryLimit)]

RecordFailure(meta, o) ==
    [meta EXCEPT
        !.count  = @ + 1,
        !.status = "open",
        !.branch = Context[o.run].branch,
        !.pr     = Context[o.run].pr,
        !.origin = IF Context[o.run].origin # NoValue THEN Context[o.run].origin ELSE @,
        !.depth  = Maximum(@, Context[o.run].depth),
        !.observations = LastN(Append(@, o), HistoryLimit)]

\* Notes the run and leaves the status alone.
RecordRecoveryOnly(meta, r) ==
    [meta EXCEPT !.recoveries = LastN(Append(@, r), HistoryLimit)]

RecordRecovery(meta, r) ==
    [meta EXCEPT !.status = "resolved",
                 !.recoveries = LastN(Append(@, r), HistoryLimit)]

\* Any success of the workflow will do.
MatchesWorkflow(meta, r) == meta.workflow = Context[r].workflow

MatchesRecovery(meta, r) ==
    /\ meta.workflow = Context[r].workflow
    /\ IF meta.pr # NoValue \/ Context[r].pr # NoValue
       THEN meta.pr = Context[r].pr
       ELSE meta.branch = Context[r].branch

\* Human review starts one occurrence late.
LabelsOneLate(meta) ==
    IF meta.count > HumanReviewAfter \/ meta.depth >= MaxRemediationDepth
    THEN {"agent:human-review-required"} ELSE {"agent:eligible"}

\* The remediation depth does not matter.
LabelsByCount(meta) ==
    IF meta.count >= HumanReviewAfter
    THEN {"agent:human-review-required"} ELSE {"agent:eligible"}

\* The labels that decide who works on the defect.
DesiredLabels(meta) ==
    {l \in {"agent:eligible", "agent:human-review-required", "needs-triage", "recurring"} :
        LET tooDeep == meta.depth >= MaxRemediationDepth
            review  == meta.count >= HumanReviewAfter \/ tooDeep
        IN  \/ l = "agent:eligible" /\ ~review
            \/ l = "agent:human-review-required" /\ review
            \/ l = "needs-triage" /\ (meta.count >= SystemicAfter \/ tooDeep)
            \/ l = "recurring" /\ meta.count > 1}

StateFor(meta) == IF meta.depth >= MaxRemediationDepth THEN "escalated" ELSE "todo"

\* The issue as create_issue and _update_defect leave it in Linear.
Issue(meta) == [meta |-> meta, state |-> StateFor(meta), labels |-> DesiredLabels(meta)]

-----------------------------------------------------------------------------
(* GitHub: runs, events and the concurrency group.                         *)

Completed(r) ==
    [run |-> r, attempt |-> ci[r].attempt, conclusion |-> ci[r].outcome.conclusion]

FinishRun(r) ==
    /\ ci[r].running
    /\ ci' = [ci EXCEPT ![r].running = FALSE]
    /\ emitted' = emitted \cup {Completed(r)}
    /\ pending' = Completed(r)
    /\ UNCHANGED <<defects, origins, inv>>

\* "Re-run jobs": the run keeps its id and starts another attempt.
RerunWorkflow(r) ==
    /\ ~ci[r].running /\ ci[r].attempt < MaxAttempts
    /\ \E o \in Outcomes :
           ci' = [ci EXCEPT ![r] = [attempt |-> @.attempt + 1, running |-> TRUE, outcome |-> o]]
    /\ UNCHANGED <<emitted, pending, defects, origins, inv>>

\* An operator runs the feedback job of an earlier event again.
Redeliver(e) ==
    /\ e \in emitted
    /\ inv # Idle => inv.event # e
    /\ pending' = e
    /\ UNCHANGED <<ci, emitted, defects, origins, inv>>

-----------------------------------------------------------------------------
(* People and agents move the originating issues.                          *)

MoveOrigin(o) ==
    /\ origins[o] # "missing"
    /\ \E s \in {"open", "closed"} \ {origins[o]} : origins' = [origins EXCEPT ![o] = s]
    /\ UNCHANGED <<ci, emitted, pending, defects, inv>>

-----------------------------------------------------------------------------
(* process_workflow_run.                                                   *)

Metas == [i \in DOMAIN defects |-> defects[i].meta]

\* The fingerprint names at most one issue of the listing.
IndexOf(view, fingerprint) == {i \in DOMAIN view : view[i].fingerprint = fingerprint}

\* Does not add the issues an invocation creates.
RememberUpdates(view, id, meta) == [i \in DOMAIN view |-> IF i = id THEN meta ELSE view[i]]

\* Keeps the listed metadata of the issues an invocation updates.
RememberCreations(view, id, meta) == IF id \in DOMAIN view THEN view ELSE Append(view, meta)

\* indexed[event.fingerprint] = issue: a later event of the same invocation
\* finds what an earlier one created or wrote.
Remember(view, id, meta) ==
    IF id \in DOMAIN view THEN [view EXCEPT ![id] = meta] ELSE Append(view, meta)

StartInvocation ==
    /\ inv = Idle /\ pending # NoValue
    /\ pending' = NoValue
    /\ inv' = CASE pending.conclusion = "success" -> [pc |-> "list recovery", event |-> pending]
                [] pending.conclusion = "failure" -> [pc |-> "list failures", event |-> pending]
                [] OTHER -> Idle
    /\ UNCHANGED <<ci, emitted, defects, origins>>

\* A request failed (after its retries, for a read), a mutation's answer was
\* lost, or the job ran out of its ten minutes.
AbortInvocation ==
    /\ inv # Idle
    /\ inv' = Idle
    /\ UNCHANGED <<ci, emitted, pending, defects, origins>>

(* Failures: list_project_issues and _index_defects, then the jobs.        *)

ListForFailures ==
    /\ inv.pc = "list failures"
    /\ \A i \in DOMAIN Metas : IndexOf(Metas, Metas[i].fingerprint) = {i}
    /\ inv' = [pc |-> "list jobs", event |-> inv.event, view |-> Metas]
    /\ UNCHANGED <<ci, emitted, pending, defects, origins>>

\* The jobs are those of the run's current attempt, which may be a later one
\* than the event's, and may still run: then some of its failures show.
ListJobs ==
    /\ inv.pc = "list jobs"
    /\ LET r == inv.event.run IN
       \E jobs \in SUBSET ci[r].outcome.jobs :
           /\ ci[r].running \/ jobs = ci[r].outcome.jobs
           /\ inv' = [pc    |-> "failures",
                      event |-> inv.event,
                      view  |-> inv.view,
                      todo  |-> FailureEvents(r, ci[r].attempt, jobs),
                      done  |-> {}]
    /\ UNCHANGED <<ci, emitted, pending, defects, origins>>

\* One event of the loop of _process_failures is dealt with, the issue id
\* then holding meta.
Handled(o, id, meta) ==
    inv' = [inv EXCEPT !.todo = @ \ {o}, !.done = @ \cup {o},
                       !.view = Remember(@, id, meta)]

CreateDefect(o) ==
    /\ inv.pc = "failures" /\ o \in inv.todo
    /\ IndexOf(inv.view, Fingerprint(o)) = {}
    /\ defects' = Append(defects, Issue(FromEvent(o)))
    /\ Handled(o, Len(defects) + 1, FromEvent(o))
    /\ UNCHANGED <<ci, emitted, pending, origins>>

UpdateDefect(o) ==
    /\ inv.pc = "failures" /\ o \in inv.todo
    /\ \E id \in IndexOf(inv.view, Fingerprint(o)) :
           /\ ~ContainsObservation(inv.view[id], o)
           /\ LET meta == RecordFailure(inv.view[id], o) IN
              /\ defects' = [defects EXCEPT ![id] = Issue(meta)]
              /\ Handled(o, id, meta)
    /\ UNCHANGED <<ci, emitted, pending, origins>>

ReplayFailure(o) ==
    /\ inv.pc = "failures" /\ o \in inv.todo
    /\ \E id \in IndexOf(inv.view, Fingerprint(o)) :
           /\ ContainsObservation(inv.view[id], o)
           /\ Handled(o, id, inv.view[id])
    /\ UNCHANGED <<ci, emitted, pending, defects, origins>>

FinishFailures ==
    /\ inv.pc = "failures" /\ inv.todo = {}
    /\ inv' = Idle
    /\ UNCHANGED <<ci, emitted, pending, defects, origins>>

(* Recovery: the loop of _process_recovery, then the originating issues.   *)

\* Resolved by this very run: the invocation repeats one that stopped early,
\* and only its originating issues are left to do.
ResolvedBefore(view, r) ==
    {i \in DOMAIN view : /\ MatchesRecovery(view[i], r)
                         /\ view[i].status = "resolved"
                         /\ r \in Elements(view[i].recoveries)}

ToClose(view, r) ==
    {i \in DOMAIN view : /\ MatchesRecovery(view[i], r)
                         /\ view[i].status # "resolved"
                         /\ r \notin Elements(view[i].recoveries)}

OriginsOf(view, ids) == {view[i].origin : i \in ids} \ {NoValue}

ListForRecovery ==
    /\ inv.pc = "list recovery"
    /\ LET r == inv.event.run IN
       inv' = [pc       |-> "recovery",
               event    |-> inv.event,
               view     |-> Metas,
               closing  |-> ToClose(Metas, r),
               resolved |-> {},
               origins  |-> OriginsOf(Metas, ResolvedBefore(Metas, r)),
               origin   |-> NoValue]
    /\ UNCHANGED <<ci, emitted, pending, defects, origins>>

CloseDefect(id) ==
    /\ inv.pc = "recovery" /\ id \in inv.closing
    /\ defects' = [defects EXCEPT ![id].meta = RecordRecovery(inv.view[id], inv.event.run),
                                  ![id].state = "done"]
    /\ inv' = [inv EXCEPT !.closing  = @ \ {id},
                          !.resolved = @ \cup {id},
                          !.origins  = @ \cup OriginsOf(inv.view, {id})]
    /\ UNCHANGED <<ci, emitted, pending, origins>>

\* Looks at the workflow that recovered only.
StillOpenInWorkflow(o) ==
    \E i \in DOMAIN inv.view \ inv.resolved :
        /\ inv.view[i].origin = o
        /\ inv.view[i].workflow = Context[inv.event.run].workflow
        /\ inv.view[i].status # "resolved"

\* _resume_originating_issue looks for an open defect of the issue and the
\* pull request in the listing, less what this invocation resolved.
StillOpen(o) ==
    \E i \in DOMAIN inv.view \ inv.resolved :
        /\ inv.view[i].origin = o
        /\ inv.view[i].pr = Context[inv.event.run].pr
        /\ inv.view[i].status # "resolved"

SkipOrigin(o) ==
    /\ inv.pc = "recovery" /\ inv.closing = {} /\ o \in inv.origins
    /\ StillOpen(o) \/ origins[o] \in {"missing", "closed"}
    /\ inv' = [inv EXCEPT !.origins = @ \ {o}]
    /\ UNCHANGED <<ci, emitted, pending, defects, origins>>

\* get_issue answers; the update is a request of its own.
CheckOrigin(o) ==
    /\ inv.pc = "recovery" /\ inv.closing = {} /\ o \in inv.origins
    /\ ~StillOpen(o) /\ origins[o] \notin {"missing", "closed"}
    /\ inv' = [inv EXCEPT !.pc = "resume", !.origins = @ \ {o}, !.origin = o]
    /\ UNCHANGED <<ci, emitted, pending, defects, origins>>

ResumeOrigin ==
    /\ inv.pc = "resume"
    /\ origins' = [origins EXCEPT ![inv.origin] = "in_review"]
    /\ inv' = [inv EXCEPT !.pc = "recovery", !.origin = NoValue]
    /\ UNCHANGED <<ci, emitted, pending, defects>>

FinishRecovery ==
    /\ inv.pc = "recovery" /\ inv.closing = {} /\ inv.origins = {}
    /\ inv' = Idle
    /\ UNCHANGED <<ci, emitted, pending, defects, origins>>

-----------------------------------------------------------------------------
Init ==
    /\ ci \in [Runs -> [attempt : {1}, running : {TRUE}, outcome : Outcomes]]
    /\ emitted = {} /\ pending = NoValue
    /\ defects = <<>>
    /\ origins \in [OriginIds -> {"open", "missing"}]
    /\ inv = Idle

Failures ==
    \/ ListForFailures \/ ListJobs \/ FinishFailures
    \/ /\ inv.pc = "failures"
       /\ \E o \in inv.todo : CreateDefect(o) \/ UpdateDefect(o) \/ ReplayFailure(o)

Recovery ==
    \/ ListForRecovery \/ ResumeOrigin \/ FinishRecovery
    \/ /\ inv.pc = "recovery"
       /\ \/ \E id \in inv.closing : CloseDefect(id)
          \/ \E o \in inv.origins : SkipOrigin(o) \/ CheckOrigin(o)

\* No event is delivered twice.
NextOnce ==
    \/ \E r \in Runs : FinishRun(r) \/ RerunWorkflow(r)
    \/ \E o \in OriginIds : MoveOrigin(o)
    \/ StartInvocation \/ AbortInvocation
    \/ Failures
    \/ Recovery

Next == NextOnce \/ \E e \in emitted : Redeliver(e)

Spec == Init /\ [][Next]_vars

SpecOnce == Init /\ [][NextOnce]_vars

-----------------------------------------------------------------------------
(* Properties.                                                             *)

Workflows    == {Context[r].workflow : r \in Runs}
PullRequests == {Context[r].pr : r \in Runs}
Branches     == {Context[r].branch : r \in Runs}
Checks       == {Completion} \cup {j.check : j \in UNION {o.jobs : o \in Outcomes}}

Observations == [run : Runs, attempt : 0..MaxAttempts, slot : Nat, check : Checks]

Metadata ==
    [fingerprint : Workflows \X Checks, workflow : Workflows,
     pr : PullRequests, branch : Branches, origin : OriginIds \cup {NoValue},
     count : Nat, depth : Nat,
     status : {"open", "resolved"},
     observations : Seq(Observations), recoveries : Seq(Runs)]

Issues ==
    [meta : Metadata, state : {"todo", "escalated", "done"},
     labels : SUBSET {"agent:eligible", "agent:human-review-required", "needs-triage",
                      "recurring"}]

Of(conclusion) == {e \in emitted : e.conclusion = conclusion}

\* The running invocation, by where it stands.
InvocationTyped ==
    \/ inv = Idle
    \/ inv \in [pc : {"list failures"}, event : Of("failure")]
    \/ inv \in [pc : {"list jobs"}, event : Of("failure"), view : Seq(Metadata)]
    \/ inv \in [pc : {"failures"}, event : Of("failure"), view : Seq(Metadata),
                todo : SUBSET Observations, done : SUBSET Observations]
    \/ inv \in [pc : {"list recovery"}, event : Of("success")]
    \/ inv \in [pc : {"recovery"}, event : Of("success"), view : Seq(Metadata),
                closing : SUBSET Nat, resolved : SUBSET Nat, origins : SUBSET OriginIds,
                origin : {NoValue}]
    \/ inv \in [pc : {"resume"}, event : Of("success"), view : Seq(Metadata),
                closing : {{}}, resolved : SUBSET Nat, origins : SUBSET OriginIds,
                origin : OriginIds]

\* The type of the state; no metadata outgrows policy.history_limit
\* (DefectMetadata, record_failure, record_recovery).
TypeOK ==
    /\ ci \in [Runs -> [attempt : 1..MaxAttempts, running : BOOLEAN, outcome : Outcomes]]
    /\ emitted \subseteq [run : Runs, attempt : 1..MaxAttempts, conclusion : Conclusions]
    /\ pending \in emitted \cup {NoValue}
    /\ origins \in [OriginIds -> {"open", "in_review", "closed", "missing"}]
    /\ defects \in Seq(Issues)
    /\ \A i \in DOMAIN defects :
           /\ Len(defects[i].meta.observations) \in 1..HistoryLimit
           /\ Len(defects[i].meta.recoveries) <= HistoryLimit
    /\ InvocationTyped

\* Two issues never carry the same fingerprint, whatever the jobs of a run,
\* the attempts and the invocations that stopped half way: otherwise
\* _index_defects refuses every later failure of the repository.
OneDefectPerFingerprint ==
    \A i, j \in DOMAIN defects :
        defects[i].meta.fingerprint = defects[j].meta.fingerprint => i = j

\* While its history holds every occurrence, a defect counts each failing job
\* of each attempt once: a redelivered event, or one repeated after an
\* invocation that stopped, does not bring it nearer to human review
\* (contains_observation, record_failure).
CountedOnce ==
    \A i \in DOMAIN defects :
        LET m == defects[i].meta
            keys == {Key(o) : o \in Elements(m.observations)}
        IN  m.count <= HistoryLimit =>
                \A a, b \in DOMAIN m.observations :
                    /\ m.count = Len(m.observations)
                    /\ Key(m.observations[a]) = Key(m.observations[b]) => a = b

\* What an invocation has dealt with stays recorded while it deals with the
\* rest: two jobs of a run that share a fingerprint are both in its defect
\* (indexed[event.fingerprint] in _process_failures).
NoObservationLost ==
    inv.pc = "failures" =>
        \A o \in inv.done : \E i \in DOMAIN defects :
            /\ defects[i].meta.fingerprint = Fingerprint(o)
            /\ \/ defects[i].meta.count > HistoryLimit
               \/ ContainsObservation(defects[i].meta, o)

\* The pull request a defect is on, or its branch when it has none.
Covers(c, meta) ==
    /\ c.workflow = meta.workflow /\ c.pr = meta.pr
    /\ meta.pr = NoValue => c.branch = meta.branch

\* A resolved defect was resolved by a success of its own workflow on its own
\* pull request, or on its branch when it has none (_matches_recovery); a
\* success elsewhere in the repository leaves it open.
ResolvedByMatchingSuccess ==
    \A i \in DOMAIN defects :
        defects[i].meta.status = "resolved" =>
            \E e \in emitted : /\ e.conclusion = "success"
                               /\ Covers(Context[e.run], defects[i].meta)

\* Once a recovery turns to the originating issues, no defect it covers is
\* left open, but one that had been resolved by this run before and has failed
\* since (the loop of _process_recovery, record_recovery).
RecoveryCloses ==
    inv.pc \in {"recovery", "resume"} /\ inv.closing = {} =>
        \A i \in DOMAIN defects :
            Covers(Context[inv.event.run], defects[i].meta) =>
                \/ defects[i].meta.status = "resolved"
                \/ inv.event.run \in Elements(inv.view[i].recoveries)

\* What a defect says of itself, "the targeted check passes as part of the
\* complete required workflow", holds of every defect that the success of a
\* run's last attempt covers: none is left open.
LastAttemptCloses ==
    /\ inv.pc \in {"recovery", "resume"} /\ inv.closing = {}
    /\ ~ci[inv.event.run].running
    /\ inv.event.attempt = ci[inv.event.run].attempt
    => \A i \in DOMAIN defects :
           Covers(Context[inv.event.run], defects[i].meta) =>
               defects[i].meta.status = "resolved"

\* A completed workflow that failed has become remediation work once its event
\* is dealt with: every failure of the run's last attempt has an open defect.
LastAttemptReported ==
    /\ inv.pc = "failures" /\ inv.todo = {}
    /\ ~ci[inv.event.run].running
    /\ inv.event.attempt = ci[inv.event.run].attempt
    => \A o \in inv.done : \E i \in DOMAIN defects :
           /\ defects[i].meta.fingerprint = Fingerprint(o)
           /\ defects[i].meta.status = "open"

\* What a defect says of itself, "the fingerprint no longer reproduces", holds
\* when it is resolved: every pull request it was observed on has had a success
\* of the workflow.
GoneWhereObserved ==
    \A i \in DOMAIN defects :
        defects[i].meta.status = "resolved" =>
            \A o \in Elements(defects[i].meta.observations) :
                \E e \in emitted :
                    /\ e.conclusion = "success"
                    /\ Context[e.run].workflow = Context[o.run].workflow
                    /\ Context[e.run].pr = Context[o.run].pr

\* A defect that has been observed HumanReviewAfter times, or observed in work
\* that is itself a remediation MaxRemediationDepth deep, is not for an agent,
\* whichever run or pull request reported it last (_desired_labels).
EligibilityWithdrawn ==
    \A i \in DOMAIN defects :
        "agent:eligible" \in defects[i].labels =>
            /\ Len(defects[i].meta.observations) < HumanReviewAfter
            /\ \A o \in Elements(defects[i].meta.observations) :
                   Context[o.run].depth < MaxRemediationDepth

\* The service never hands a defect back to agents: not when it is resolved
\* and fails again, nor when shallower work reports it (record_failure).
AutonomyNeverRegained ==
    [][\A i \in DOMAIN defects :
           "agent:eligible" \notin defects[i].labels =>
               "agent:eligible" \notin defects'[i].labels]_defects

\* An originating issue returns to review only when Linear holds no open
\* defect of it on the pull request that recovered, of any of its workflows
\* (_resume_originating_issue).
ResumedOnlyWhenClear ==
    [][\A o \in OriginIds :
           origins[o] # "in_review" /\ origins'[o] = "in_review" =>
               \A i \in DOMAIN defects :
                   /\ defects[i].meta.origin = o
                   /\ defects[i].meta.pr = Context[inv.event.run].pr
                   => defects[i].meta.status = "resolved"]_origins

=============================================================================
