# TLA+ models of the Lattix Rust SDK

Specifications of the program in `src/`, the TLC configurations that check them
on small instances and the TLAPS proofs of their main properties. The modules
are translated from the code; paths below are relative to the repository.

1. [The system](#the-system) — components, state, interactions, hard behaviour
2. [Modules](#modules) — what models what
3. [Runs](#runs) — what TLC checks, bounds, fairness
4. [Proofs](#proofs) — what holds for every value of the constants
5. [Not modelled](#not-modelled) and [plan](#plan)

## The system

The SDK protects content *in the caller's process*. A remote platform sees
metadata only: it says what it supports (bootstrap), decides about a described
operation (policy resolve, protection plan, key access plan), keeps a catalog of
artifacts (artifact register) and takes evidence. The README of the repository
promises that the library "fails closed if the platform contract stops requiring
local-only handling".

| Component | State | Operations | What makes it correct |
|---|---|---|---|
| **Local workflows** `src/local.rs` | none between calls; within a call: request or artifact, keys, plaintext, the artifact being made | `prepare_local_protection`, `generate_cid_binding`, `protect_/access_/rewrap_bytes_with_envelope`, the same `_with_tdf`, `set_/edit_tdf_attributes`, `sign_/verify_…detached_signature` | content is opened and sealed only as the platform allowed for this call; what is returned is registered and evidenced; a failing call hands out nothing |
| **Artifacts and bindings** `src/local.rs` | the bytes callers keep | binding hash, associated data, AES-GCM, Ed25519, the checks on opening | every artifact returned can be opened; a changed one cannot |
| **Contract checks** `src/local.rs`, `src/models.rs` | none | the `ensure_*` functions | every answer under which plaintext or raw keys could leave is refused |
| **HTTP client** `src/client.rs`, `src/builder.rs` | base URL, headers, agent | one blocking request per call, never repeated | a request ends with an answer or an error |
| **Managed key providers** `src/providers.rs` | registry name → provider; keys of a provider; the process and pipes of a call | register, resolve provider, resolve key (in memory, or by a child process) | the named provider answers, or an error; no process is left behind; caller and command do not wait for each other |
| **C ABI** `src/ffi.rs` | client handles, strings given out, last error per thread | one function per workflow, client creation, string and handle release | ownership; the error belongs to the last call of the thread; nothing runs for a malformed call; a client has all its providers |
| **Integration runner** `src/integration_full_runner.rs` | one scenario, the kind of envelope keys | all workflows against a deployment, with fallback to managed keys | fallback is taken for the right error only and used from there on; a summary means that everything was done |
| **CI feedback** `ci_feedback/` | defect metadata inside Linear issues: history of failures and recoveries, count, status, pull request, origin | failure, recovery, path policy; each a one-shot program started by a completed workflow | one defect per fingerprint, every failure recorded and none twice, closed by its own recovery, originating issue resumed when nothing of it is open |
| **Severity gate, security suite** `scripts/` | none | normalise findings, compare with thresholds | fails exactly above a threshold |

How they interact: a workflow calls the client for each request and the provider
registry for each managed key, all synchronously on the caller's thread. A
`Client` is shared between threads; calls meet only in what the platform, the
providers and the callers' stored artifacts hold. The C ABI and the runner call
the workflows. CI feedback and the gate are separate Python programs.

What is hard: each workflow is four to fifteen fallible steps in an order that
matters; registrations and evidence may take effect although the call fails;
a managed reference may get a new key between two resolutions of one call; the
description of a TDF is encrypted, so a legacy one is opened before the platform
can be asked, and one with a clear policy context is asked about under a
description still to be confirmed; an attribute edit changes the description in
mid-call; artifacts go through chains of calls and rest in storage in between.
A key provider command is a process with three pipes of limited size that the
caller writes and reads one after the other; it may answer without listening,
close, fail or hang. A caller of the C ABI frees strings and clients and asks for
messages from any thread between calls. The runner decides about keys from one
answer of the platform and is told otherwise by a later one.
For CI feedback: events that come late, twice, out of order or not at all,
invocations that stop between two requests, re-runs that keep their run id, and
defects shared by pull requests. `PROJECT.json` lists these hazards with their
lines.

## Modules

| Module | Models |
|---|---|
| `LocalArtifact` | the three artifact formats: `SealEnvelope`, `SealTdf`, `SignDetached`, the conditions `EnvelopeOpens`, `TdfManifestTrusted`, `TdfPayloadOpens`, `SignatureVerifies`, attribute edits, `meta_version` |
| `PlatformContract` | the response fields that are read, one operator per `ensure_*` check, and which answers leave the local library |
| `LocalWorkflow` | the state machine: concurrent calls, the platform's catalog and ledger, the providers' key versions |
| `LocalProperties` | type invariant, safety, fairness, liveness |
| `Custody` | the abstract specification: what a call promises whatever its route |
| `LocalCustody` | the refinement mapping from `LocalWorkflow` to `Custody` |
| `KeyProviders` | the registry of a client, the choice of a provider, and its command: caller, process and pipes; its properties |
| `KeyService` | the abstract specification: what resolving a managed key promises, as one step |
| `KeyResolution` | the refinement mapping from `KeyProviders` to `KeyService` |
| `FfiBoundary` | the C ABI: threads, client handles, strings, `LAST_ERROR`; its properties |
| `IntegrationRunner` | the integration scenario, composed with `LocalWorkflow`; its properties |
| `CiFeedback` | CI feedback: GitHub's runs and events, Linear's issues, the invocation in progress; its properties |
| `DefectLedger` | the abstract specification: what CI feedback promises about defects, eligibility and originating issues |
| `FeedbackLedger` | the refinement mapping from `CiFeedback` to `DefectLedger` |
| `MCLocalWorkflow`, `MCLocalCustody`, `MCKeyProviders`, `MCFfiBoundary`, `MCIntegrationRunner`, `MCCiFeedback` | values for TLC |
| `LocalWorkflowProofs`, `LocalIntegrityProofs` | theorems about the workflows and their refinement of `Custody`; the second extends the first |
| `CustodyProofs`, `LedgerProofs` | theorems about the abstract specifications, which their implementations inherit |
| `KeyProvidersProofs`, `FfiBoundaryProofs`, `CiFeedbackProofs`, `IntegrationRunnerProofs` | theorems about those modules, with the refinements of `KeyService` and `DefectLedger`; the last extends `LocalIntegrityProofs` |

`LocalWorkflow` extends `LocalArtifact` and `PlatformContract`;
`IntegrationRunner` extends `LocalWorkflow`; `LocalCustody` instantiates `Custody`,
`FeedbackLedger` `DefectLedger` and `KeyResolution` `KeyService`.
`KeyProviders` and `FfiBoundary` stand by themselves: what a key resolution does
inside is one step of `LocalWorkflow` (`ResolveCurrentKey`, `ResolveNewKey`,
`ProviderFails`), which `KeyService` justifies; and what a method of the SDK does is one step of `FfiBoundary`
(`Perform`, then `ReturnResponse` or `ReturnError`).

### Local workflows

**State.** `status[c]` and `at[c]` say where call `c` is on its route; `job[c]`
holds its arguments, `work[c]` its local variables (`desc`, `tenant`, `digest`,
`targets`, `mode` of the last key transport, `current` and `new` key,
`plaintext`, `product`). `held` is the set of artifacts returned to callers,
`keystore` the current key version of each managed reference, `catalog` and
`ledger` the platform's records. `grants` and `objected` are history variables:
what the platform allowed and for which description, and which calls were given
an answer outside the contract. No action reads them.

**Steps.** Every workflow is straight-line code in which each step either
succeeds or returns `Err`, so `Route(job)` gives the sequence of steps of each
public function and there is one action per kind of step:

| Action | Code |
|---|---|
| `BeginMaking`, `BeginReading`, `BeginRewriting`, `RejectSource` | everything before the first request or key use: digest, decoding, version and profile, clear policy context against the binding hash |
| `Bootstrap`, `PolicyResolve`, `ProtectionPlan`, `KeyAccessPlan` | the request and its `ensure_*` check; where the caller's tenant and the binding targets are taken over |
| `ResolveCurrentKey`, `ResolveNewKey`, `ProviderFails` | `resolve_symmetric_key_for_runtime` |
| `OpenManifest`, `OpenContent`, `Verify` | decryption, digest and binding checks, signature |
| `Seal` | `encrypt_*`, `sign_*` and the digest of the bytes |
| `Register`, `Evidence` | the request, which may take effect although its answer is lost (`delivered`) or unacceptable |
| `ConnectionFails` | transport error, HTTP error status or undecodable body |
| `RotateKey` (external) | the provider's operator |

`Proceed` returns the result after the last step; `Fail` drops the locals (they
are Rust locals, and the keys are `ZeroizeOnDrop`).

**Data.** A description stands for workload, resource, purpose, labels and
attributes: `resource` is what an edit leaves alone, `attributes` a function.
`raw_cid` and the content size are functions of the content and are represented
by its digest. Cryptography is symbolic: a ciphertext is the record of its key,
nonce, associated data and message; SHA-256 is injective. Serialisation is
abstracted (equal artifacts have equal bytes; undecodable bytes are one of the
ways `RejectSource` happens). Answers are records of the fields the code
reads; what it does not read (for instance the artifact profile of the plan's
execution section, or the caller in answers other than the plan) is left out, as
it cannot influence a call. `DamagedCopies` is what storage may do to an
artifact: any one of its fields changed, a ciphertext, a hash, the signer and
`meta_version` included, or a TDF's policy context dropped or added. A changed
ciphertext or signature fits no associated data and no signed bytes (`Noise`).

### Managed key providers

**State.** `registry` is the `BTreeMap` of the client, built by `Register` and fixed
by `Build`; `registered` is the history of registrations. For each call `pc` says
where its thread is (`spawn`, `write`, `collect`), `sent` and `got` what it has
written and read, `reaped` whose process it waited for. For each process `child`
is its fate, `step` its position in its script, `taken`, `written` and `listening`
its side of the pipes.

| Action | Code |
|---|---|
| `Register`, `Build` | `ManagedSymmetricKeyProviderRegistry::register`, `ClientBuilder` |
| `Resolve` | `resolve`, the check of the transport mode, and an in-memory `resolve_key` |
| `Spawn`, `SpawnFails` | `Command::spawn` |
| `WriteRequest`, `BrokenPipe` | `write_all`, and its early return: the process is neither killed nor waited for |
| `Collect`, `Wait` | `wait_with_output`, exit status, decoding |
| `ReadUnit`, `ReadEnd`, `Write`, `Close`, `Exit`, `Killed` | the command (external): pipes block when full or empty, SIGPIPE kills a writer nobody reads |

**Data.** A command is a script of reads, writes, a close and an exit; `Deaf` is the
command of the repository's own test (`tests/managed_tdf.rs:649`), a `printf` that
does not read its request. Output counts by its amount, and by whether
all of it decodes to a key. Pipes are those of Unix. A process that passes its ends
of the pipes on to a descendant, and Windows, are not modelled. The pipes of two
calls have nothing to do with each other (`std` creates them close-on-exec), and
calls share only the registry, which is fixed when the client exists.

### C ABI

**State.** `pc`, `call`, `did`, `at`, `draft` are the locals of the function a thread
is in; `slot` is `LAST_ERROR`, one per thread; `clients` are the boxed clients by
handle, `heap` and `handed` the C strings and the pointers to them the caller still
has. `flaws`, `last` and `said` are history variables: what was wrong with the
latest call of a thread, whether it was given null, and what
`lattix_sdk_last_error_message` then said.

| Action | Code |
|---|---|
| `CallFunction` | the decoding at the start of every function, in the order of `Route`; the first part that does not decode ends the call |
| `Perform`, `ReturnResponse`, `ReturnError` | the method of the SDK, `ffi_result`, `into_c_string` |
| `ClientNew`, `ConfigureProvider`, `BuildClient` | `lattix_sdk_client_new`: options, providers one by one, `ClientBuilder::build` |
| `ClientFree`, `StringFree`, `Version`, `LastErrorMessage` | the functions of these names |

**Data.** Functions that decode the same parts in the same order are represented
by one of them; the comment before `Route` names the groups. An argument is
represented by whether it decodes, a key by its source and its legacy field. The
caller keeps the documented rules: it frees what it was given, once, and uses no
freed handle; a call in progress counts as a use.

### Integration runner

`IntegrationRunner` adds to the state of `LocalWorkflow` the position in `Scenario`,
`use_managed` (`use_managed_envelope_keys`), `retried` and the `error` of a call. Each
library call of the scenario is a call of `LocalWorkflow` named after its step, with
its own routes, failures and lost answers; the second attempt at the envelope is the
call `protect_envelope_again`. `Call`, `Work`, `Continue`, `Retry`, `GiveUp` run them,
`AskOnly`, `AskForMode`, `RegisterDirectly`, `AttestDirectly` are the runner's own
requests. The runner looks at no `allow` or `accepted` of their answers and reports
"ok" for each; the summary therefore means that the *library's* steps were taken
(`SummaryMeansDone`). Only the words `wrapped_key_reference` in an error start the
fallback; the other managed transport modes end the run. A step that is neither
possible nor the end would be reported as a deadlock: `runner` checks for it.

### CI feedback

**State.** `ci` holds for each workflow run its current attempt, whether it still
runs, and the outcome this attempt has (chosen when it starts, seen in full
when it ends). `emitted` and `pending` are the events and the one that waits for
the concurrency group of `ci-feedback.yml`, whose next arrival displaces it.
`defects` are the issues in Linear with their metadata (`DefectMetadata`), state
and labels, `origins` the issues pull requests came from. `inv` is the
invocation in progress: `pc`, the event, the listing it took at its start
(`view`) and what is left of its loops.

| Action | Code |
|---|---|
| `FinishRun`, `RerunWorkflow`, `Redeliver`, `MoveOrigin` | GitHub, an operator repeating a feedback job, people in Linear |
| `StartInvocation` | `process_workflow_run`: recovery, failures, or ignored |
| `ListForFailures`, `ListJobs` | `_index_defects`, and the jobs of the run's *latest* attempt |
| `CreateDefect`, `UpdateDefect`, `ReplayFailure`, `FinishFailures` | the loop of `_process_failures` |
| `ListForRecovery`, `CloseDefect` | the loop of `_process_recovery` |
| `SkipOrigin`, `CheckOrigin`, `ResumeOrigin`, `FinishRecovery` | `_resume_originating_issue`: reading the issue and updating it are two requests |
| `AbortInvocation` | any request that fails, and the time limit; after a mutation it is a lost answer or a failed comment |

**Data.** A failing job is its slot in the run and its check, which stands for all
that the fingerprint is made of (job and step name, category, conclusion). The
fingerprint adds the workflow; the base branch is the same throughout. The
observation key is run, attempt and slot because GitHub gives a job a new id in
each attempt; without an actionable job the program uses id 0 for all attempts.
"failure" stands for the four actionable conclusions, "cancelled" for the others.
Comments, titles, priorities and rendering are left out: the program never reads
them back. It is assumed that nobody edits the managed block of a description,
that the pull request's text stays as it is, and that events come from the
repository itself (the workflow's `if:`). Labels and issues of other kinds in
the project are not modelled, nor are changes that people make to the labels of a
defect; the next update would compute those anew (service.py:461). Loop orders that depend on what Linear returns or
on issue names are left open.

## Runs

| Run | Instance | Properties |
|---|---|---|
| `answers` | 1 call, all 11 operations, answers conforming or wrong in one field, envelope, TDF, legacy TDF and signature from an earlier session, any one field damaged, inline and managed keys, 1 rotation, two tenants; `FairSpec` | `TypeOK`, `ReleaseIsAuthorised`, `DamageIsDetected`, `FailsClosed`, `CallsEnd`, `ImplementsCustody` |
| `custody` | 2 calls that protect, access and rewrap envelopes and edit TDFs (current and legacy), 1 inline key, 2 managed references, 1 rotation each, two tenants, lost and rejected records | `SealedAsAuthorised`, `CustodyRecorded`, `EvidenceFollowsRegistration`, `ReturnedArtifactsOpen` |
| `chain` | 3 calls that rewrap and edit one TDF just below the largest `meta_version` (4 here), made under another tenant | `LineageKept`, `MetaVersionNamesManifest` |
| `keys` | 1 call, up to 2 registrations out of 11 providers (3 in memory, 8 commands), requests of 1 and 3 units, pipes of 1 unit; `FairSpec` | `TypeOK`, `KeyFromServingProvider`, `ProcessesReaped`, `AnswersAreTaken`, `BlockedByLargeRequestOnly`, `ResolutionsEnd`, `ImplementsService` |
| `ffi` | 2 threads, 1 client handle, addresses for 2 strings, 5 sets of client options, 3 ways to give a key, every combination of malformed parts | `TypeOK`, `MessageNamesCause`, `PerformedAsAsked`, `StringsHandedOnce`, `ClientsComplete` |
| `runner` | the whole scenario, 3 transport modes at every key access plan, refused and lost records, 1 rotation | `RunTypeOK`, `KeysFollowSealing`, `OneArtifactPerStep`, `RecordsAgree`, `DiscoveredModeIsMet`, `SummaryMeansDone` |
| `feedback_jobs` | 1 workflow run, 3 attempts, all kinds of outcomes, `history_limit` 3 | `TypeOK`, `OneDefectPerFingerprint`, `CountedOnce`, `NoObservationLost` |
| `feedback_pull_request` | runs of 2 workflows on 1 pull request, 2 attempts each | `RecoveryCloses`, `ResumedOnlyWhenClear`, `ImplementsLedger` |
| `feedback_shared` | runs of 1 workflow on 2 pull requests, one at the remediation depth limit, 2 attempts each | `ResolvedByMatchingSuccess`, `EligibilityWithdrawn`, `AutonomyNeverRegained` |
| `feedback_rerun`, `feedback_start`, `feedback_gone` | 1 run with 4 or 3 attempts; 2 pull requests; each event delivered at most once | violated: `LastAttemptCloses`, `LastAttemptReported`, `GoneWhereObserved` |

What they show:

* `ReleaseIsAuthorised` — plaintext (or a verdict) reaches the caller only if
  for this call the platform allowed access and unwrap for the description that
  is *sealed* in the artifact, not for a clear copy of it, and has evidence of
  the access to these bytes.
* `SealedAsAuthorised` — what is sealed is allowed under its own description and
  digest; after an attribute edit that is the second round of requests.
* `FailsClosed` — README.md:45: an answer under which plaintext or raw keys could
  leave, or enforcement would be elsewhere, ends the call with an error.
* `DamageIsDetected`, `ReturnedArtifactsOpen` — the two sides of the binding:
  nothing changed is served, nothing unchanged is lost to an inconsistent hash,
  associated data or tenant. Two fields of a TDF are excepted (`AsSealed`), as the code
  does serve them changed. Its `meta_version` is covered neither by the associated data
  (local.rs:2777–2797) nor by the binding hash (2823–2836), so that a changed one is
  opened, and a rewrap carries it on. Its policy context is compared with the manifest
  only where there is one, so that a dropped one, or one added to an older artifact, is
  not noticed; what the platform must then have allowed, `ReleaseIsAuthorised` says.
* `CustodyRecorded`, `EvidenceFollowsRegistration` — the catalog names the key
  that seals, and the ledger never runs ahead of the catalog, whatever is lost.
  The converse does not hold and is not claimed: a call that fails after
  `artifact_register` leaves a registration without evidence, and lost answers
  leave records of artifacts that no caller has.
* `LineageKept`, `MetaVersionNamesManifest` — what survives chains of calls.
  From the saturated `meta_version` on, and between two edits of the same
  artifact, a version no longer names one manifest.
* `ImplementsCustody` — every behaviour, failures included, is one of `Custody`. The run
  has one call; the theorem has any number.
* `CallsEnd` — a call ends although the platform may never answer, given a timeout.
* `KeyFromServingProvider` — whatever is registered in whatever order, a key comes
  from the provider that is meant, supports the mode and has said the key in full.
* `ProcessesReaped`, `AnswersAreTaken` — a process is left behind, and a good answer
  refused, in one case only: the command closed its input, or ended, before it had
  been sent the whole request. Whether that happens to a command that does not read
  is a race (`Deaf`).
* `BlockedByLargeRequestOnly`, `ResolutionsEnd` — caller and command wait for each
  other only if the request is larger than a pipe and the command fills an output
  pipe before it reads; otherwise a command that exits is served to its end.
* `ImplementsService` — every behaviour of registry, threads and processes is one of
  `KeyService`: a resolution takes effect at once, when it ends, with a key of the
  provider that is designated then, or with an error, and once only.
* `MessageNamesCause` — the message a thread reads is about its own latest call.
* `PerformedAsAsked` — no method runs for a malformed call, and a key source that does
  not decode is never made up for by the legacy field.
* `StringsHandedOnce`, `ClientsComplete` — each pointer is freed once; a client has all
  of its providers or does not exist.
* `KeysFollowSealing`, `DiscoveredModeIsMet` — an early answer that is wrong about the
  mode is made good, and the keys of later steps follow.
* `OneArtifactPerStep`, `RecordsAgree`, `SummaryMeansDone` — neither the repeated
  protection nor the runner's own registration leaves a second, different record,
  and a summary is given only when all artifacts are made, recorded and read back.
  The runner's records describe the artifact as its manifest does
  (`ManifestDescription`), the library's as it was sealed after a rewrap of what was
  opened: that the two agree is `RecordsAgree`.
* `OneDefectPerFingerprint`, `CountedOnce`, `NoObservationLost` — defects stay
  deduplicated, and the number that decides about human review counts failing
  jobs, not deliveries, although invocations stop after any request. `CountedOnce`
  and `NoObservationLost` speak of defects whose history was not cut to
  `history_limit`: a failure that was cut is counted again when its event is repeated.
* `RecoveryCloses`, `ResolvedByMatchingSuccess`, `ResumedOnlyWhenClear` — a
  recovery closes all it covers and nothing else, and the originating issue
  waits for the last defect of its pull request.
* `ImplementsLedger` — every behaviour, with repeated and displaced events, re-runs and
  stopped invocations, is one of `DefectLedger`: a defect is entered once, counted and
  reopened on failures of its workflow, resolved by a success that covers it, and an
  issue resumed only after such a resolution.
* `EligibilityWithdrawn`, `AutonomyNeverRegained` — what was taken from agents
  is not given back by a resolution, a reopening or shallower work (people's own
  changes to labels apart).

Some definitions are preceded by a variant with a plausible mistake, such as
`RememberUpdates` for `Remember` or `TenantOfCaller` for `BoundTenant`. No action
uses them: each property of a passing run is violated once the variant named for
it in `PROJECT.json` ("mutants") takes the definition's place.

### Findings

Three runs refute what the program says of itself. None of them needs a repeated
event, a lost answer or a stopped invocation.

* `feedback_rerun`: the recovery key is the run id, which a re-run keeps. A run
  that fails, succeeds, fails and succeeds again leaves its defect open, since
  the second recovery counts as a replay (`src/ci_feedback/model.py:179`); a
  success of another run closes it.
* `feedback_start`: a failure without an actionable job has job id 0, in every
  attempt of the run (`src/ci_feedback/service.py:360`). After a recovery in
  between it counts as a replay, and no defect is open.
* `feedback_gone`: the fingerprint does not contain the pull request, and the
  latest failure overwrites the defect's pull request and originating issue
  (`src/ci_feedback/model.py:170`). The recovery of the latest resolves the defect
  for all, and the earlier originating issue is never resumed.

Also, without a property, because nothing in the repository promises more: a
success event that arrives late closes a defect which a later attempt opened; a
displaced event is never seen; an originating issue closed between the two
requests of its resumption returns to In Review.

**Bounds.** `MaxRotations` bounds rotations of a reference; one rotation separates
the key an artifact is sealed under from the current one, and two resolutions
of one call from each other. `MaxMetaVersion` stands for `u64::MAX`. Two calls
suffice for the interleavings because calls share only grow-only sets and the
key versions; two calls also make an artifact of one the source of the next.
Chains need as many calls as they are long. Answers differ from a conforming one
in one field, since each check is a conjunction. One description value is enough
where no description is compared with another; `answers` uses two, `custody` and
`chain` get others from edits.
`SYMMETRY` permutes calls in safety runs only. `CHECK_DEADLOCK FALSE`: the system
stops when every call has ended.

In `keys`, `MaxRegistrations` bounds registrations: two give a replaced provider, two
names, and one. One call is enough because calls share nothing that changes; the
theorems hold for any number. Pipes of one unit and a request of three make every
order of blocking happen, and commands write one unit more than a pipe holds. In
`ffi`, a second thread and a second string are what could be mixed up with the
first; `SYMMETRY` permutes addresses. In `runner` the constants are those of the
program (`RunnerAssumption`); one rotation falls between any two steps.

For CI feedback, `MaxAttempts` bounds re-runs: two attempts give every order of one
failure and one recovery per run; three give a reopening and, with two failing
jobs each, more observations than `history_limit` keeps. The thresholds are the
smallest that are distinct (`human_review_after` 2 or 3), and the depth limit is
2 with work of depth 0 and 2. Repeated events need no bound. `SpecOnce` is
`Spec` without repeated events; it stops when the attempts are used up. Every
instance has pull requests: the match by branch, for pushes, is modelled and not
exercised by a run.

**Fairness.** `FairSpec` assumes weak fairness of `ConnectionFails` and of the
local steps, and *not* that the platform ever answers. The first is what
`ClientBuilder::with_timeout_secs` gives: without it ureq waits for ever, and
calls need not end. The second is that the caller's thread runs and that a key
provider returns. When it does is the question of `KeyProviders`, whose
`FairSpec` assumes that the operating system runs the calling thread and the
process; nothing makes an application resolve keys, and nothing makes a command
exit that does not mean to (`Hangs`).

## Proofs

All with `tlapm`; the assumptions are those named in the modules
(`MetaVersionAssumption`, `WorkflowAssumption`, `ContentAssumption`, `ResponseAssumption`,
`ProviderAssumption`, `BoundaryAssumption`, `RunnerAssumption`, `PolicyAssumption`,
`OutcomeAssumption`, `ContextAssumption`): numbers are numbers, operations, answers,
providers and options come from their types, no name is both an inline key and
a managed reference, and the CI policy's thresholds are ordered as
`_validate_cross_fields` demands. Calls, threads, contents, descriptions, keys, answers,
artifacts, commands, pipe sizes, workflow runs and all bounds are arbitrary.
`RunnerAssumption` fixes what the program itself fixes: the steps of its scenario and
the one description, of the manifest, that all its calls are given.

* `LocalWorkflowProofs!TypeCorrect`: `Spec => []TypeOK`. `TypeOK` is inductive as it
  stands because it says that a running call stands on a position of *its* route
  with the keys its operation takes; the route lemmas (`RouteFacts`) give the
  step names and the kinds of operations that meet each.
* `LocalWorkflowProofs!CallsFailClosed`: `Spec => []FailsClosed`. Inductive with
  `TypeOK`; the heart is `ObjectionsAreRefused`: no `ensure_*` check accepts an
  answer that leaves the local library. A failed call takes no further step.
* `LocalWorkflowProofs!EvidenceNeverRunsAhead`: `Spec => []EvidenceFollowsRegistration`.
  The property is not inductive: it needs `RecordInv`, which adds that a maker or
  rewriter standing before its evidence request has its product in the catalog
  under its own event. That in turn needs that on every route only `register`
  leads to `evidence` for these operations (`OnlyRegisterPrecedesEvidence`).
* `LocalWorkflowProofs!ReleasesAreAuthorised`, `SealsAreAuthorised`:
  `Spec => []ReleaseIsAuthorised` and `Spec => []SealedAsAuthorised`. Both speak of the
  end of a call, so the invariant `AuthorityInv` follows it: every request behind the
  current position *that still counts* was allowed for what the call is working on
  now (`AskedOK`). For a rewritten TDF a request counts only after the manifest was
  opened or edited; for a read all count, and opening the manifest has to confirm
  what was asked about. That holds because `TdfManifestTrusted` compares the clear
  policy context with the sealed description: without that check the proof fails.
  `ReadOK` says which description a read works on before and after that point,
  `SealedOK` carries the authority over from the locals to the product.
* `LocalWorkflowProofs!WorkflowsImplementCustody`: `Spec => ImplementsCustody`, the
  refinement. Every route passes the stages of `Custody` in order (`CustodyRoute`); a
  step has bounded effects on the abstract state of its call and none on another
  (`Effects`, `OthersGrantsKept`); so each step is a step of `Custody` or a stutter. It
  needs `AuthorityInv` and `GrantsInv`: until a manifest is opened a call has asked
  only about what it works on. `Custody` lets a new description void authority and
  never restore any, so an earlier grant about another description must not exist.
* `LocalWorkflowProofs!WorkflowsKeepCustody`: `Spec => []C!ReturnedInCustody`, what a
  returned result has behind it, of the workflows themselves: `CP`, an instance of
  `CustodyProofs` under the refinement mapping, brings the theorem, and
  `SameCustody` that `CP` and the mapping of `LocalCustody` speak of the same steps.
* `LocalWorkflowProofs!CallsAreFinite`: `Spec => []StepIsKnown /\ [][CallsAdvance]_vars`. A
  step of a running call takes it to the next position of its route or ends it, no
  step of another call moves it, and a result is final. So a call takes at most as
  many steps as its route has, and can only hang inside one.
* `LocalIntegrityProofs!ArtifactsAreRecorded`: `Spec => []CustodyRecorded`. The record is
  compared with the artifact only when the call returns, so `KeptInv` follows the
  product until then: sealing, registering and attesting are the last three steps of
  every route that seals (`RecordRoute`); the new key taken before is the one the
  caller named, and the product is sealed as the record will say (`SealedAsNamed`);
  before the evidence step the record is in the catalog. The reference of a key is
  determined because no name is both inline and managed. A failed platform or a lost
  answer leaves a record without an artifact, never the reverse.
* `LocalIntegrityProofs!ReturnsOpen`, `DamagedArtifactsAreRefused`, `LineagesAreKept`,
  `VersionsNameManifests`: the four properties of artifacts at rest, from `TrustInv`.
  Everything held is `WellSealed` (its hash, associated data, digest and policy context
  are those its own seal computes), so it opens with its key; and each call knows of
  its source only what it has checked so far. A call that meets damage has a
  source whose undamaged original is well sealed. Damage leaves each ciphertext or
  signature as it was or spoilt (`EnvelopeKept`, `TdfKept`, `SignatureKept`); a spoilt one
  fails its own check, and one that is as it was determines every other field through
  the associated data, the signed bytes, the binding hash and the hash of the associated
  data. The symbolic hashes are
  injective because they are records. For the versions, a chain of edits and rewraps is
  followed back from a pair with the same version to the first place where two
  manifests could differ.
* `CustodyProofs`: `CustodyTypeCorrect`, `ReturnedResultsAreInCustody`,
  `LedgerFollowsCatalog` for the abstract specification, from `CustodyInv`, which
  describes what each stage has already secured.
* `KeyProvidersProofs`: `TypeCorrect`, `KeysComeFromTheirProviders`, `ProcessesAreReaped`,
  `GivenAnswersAreTaken`, from `KeysInv`. `RegistryOK` relates the registry to the
  history of registrations, `ChoiceOK` says that the choice of a call stays right
  (the registry is fixed before the first one), `OutcomeOK` says how a call that is
  over left its process. The bounds on the pipes are part of `TypeOK`.
* `KeyProvidersProofs!ResolutionsImplementService`: `Spec => ImplementsService`, the
  refinement. The abstract step is the concrete one that ends the call, so what was
  chosen at the start has to be right still: `ServiceInv` adds to `KeysInv` that the
  server of a call in progress is designated by the registry and supports the mode,
  and that a process that has succeeded was at a `"succeed"` of its script. Everything
  a process does, and all of the caller's steps but the last, are stutters.
* `KeyProvidersProofs!ResolutionsAreFinite`: `Spec => []Finite /\ [][Advancing]_vars`. The
  measure `Remaining` adds what is left of the caller's stages, of the life of the
  process, of its script (twice, as a step of it may put a unit into a pipe that is
  still to be collected), of the request on both sides, and of the output. It is a
  natural number and each step of the call's thread or process makes it smaller. So
  a call that does not end is blocked, or waits for a command that means to go on.
* `FfiBoundaryProofs`: `TypeCorrect`, `MessagesNameCauses`, `CallsPerformedAsAsked`,
  `StringsAreHandedOnce`, `ClientsAreComplete`, from `BoundaryInv`. `MessageOK` relates
  the slot of a thread to its latest call also while nobody has asked for the
  message; `SoundOK` says that a call past its decoding is well-formed; `DraftOK`
  that the client in the making has the first providers of its list.
* `KeyProvidersProofs!LargeRequestsOnlyBlock`: what `BlockedByLargeRequestOnly` says, with
  the guards of the caller's and the process's steps (`CallerCanMove`,
  `ProcessCanMove`) in place of `ENABLED`, which the prover cannot handle. TLC confirms
  on the instance of `keys` that the two agree.
* `IntegrationRunnerProofs`: `RunTyped`, `KeysFollow`, `OneArtifactRegistered`,
  `RegistrationsAgree`, `ModeIsMet`, `SummaryIsTrue`, from `RunInv`, which has three
  parts. `CallsInv` is what is proved of the workflows, and carries over because a step
  of the runner is a step of `LocalWorkflow` or only adds records
  (`RunStepsAreSteps`). `Placed` ties the position in the scenario to the calls:
  those behind it are done, with the arguments the runner gave them. `RecordsInv` ties
  the catalog to the steps that wrote it, the repeated envelope and the direct
  registration included, and explains an error of a call by an answer that
  asked for wrapped keys, so that the fallback is taken for that reason only.

* `CiFeedbackProofs`: `TypeCorrect`, `FingerprintsAreUnique`, `FailuresAreCountedOnce`,
  `ObservationsAreKept`, `ResolutionsAreEarned`, `EligibilityIsWithdrawn`, `RecoveriesClose`
  and the action properties `AutonomyIsNeverRegained` and `ResumptionsAreClear`, from
  `FeedbackInv`. No property follows from the defects alone: what an invocation writes
  it computes from its listing. `ListingCurrent` says that this listing, with what the
  invocation remembers, is what Linear holds, since only one invocation runs;
  `RecoveryView` that a recovery's listing, which it does not update, differs from Linear
  by just what it has resolved. `MetaOK` describes one metadata: the history is as long
  as the count until it is cut, without repetitions, and no deeper than the depth.
  An invocation may stop after any request; nothing in the invariant outlives it.
* `CiFeedbackProofs!FeedbackImplementsLedger`: `Spec => ImplementsLedger`, the refinement.
  Each request that writes is one step of `DefectLedger`, all else is a stutter. Beyond
  `FeedbackInv` it needs `LedgerInv`: the failures still to be dealt with are those
  of the event's own run (`FailuresOwn`), and an originating issue about to be
  resumed is one of a defect that this run has resolved (`OriginsOwn`). The ledger is the
  set of entries, not a function, so a second issue with one fingerprint would
  show as a step the ledger does not have.
* `LedgerProofs`: `EntriesAreFounded`, `ReviewsAreEarned` and the action property
  `EntriesAreRemembered`, for the abstract specification, from its `LedgerInv`. An entry
  moves to the pull request of its latest failure and may change its origin, so what
  it says is tied to *some* failed run each: `FailedThere` for the place, `CameFrom`
  for the origin, `RightlyResolved` for the success that resolved it. `ReviewEarned` puts
  the three together when an issue is resumed, and outlives the entry's later moves.
* `CiFeedbackProofs!FeedbackKeepsLedger`: the same of the issues in Linear, inherited through
  `FeedbackImplementsLedger` with an instance `LP` of `LedgerProofs`. It adds to the
  properties of the runs that a defect's place, its origin and every resumption go back to
  completions that did happen, and that no request takes a count or an origin back.

Only model-checked: `CallsEnd` and `ResolutionsEnd`, which are liveness under fairness
(`CallsAreFinite`, and `ResolutionsAreFinite` with `LargeRequestsOnlyBlock`, are the parts of them
that do not speak of it), and the literal form of `BlockedByLargeRequestOnly`, which speaks of `ENABLED` (its content with
the guards written out is `LargeRequestsOnlyBlock`); both are out of the prover's
reach. `LastAttemptCloses`, `LastAttemptReported` and `GoneWhereObserved` do not
hold (see [findings](#findings)). Every other property of a run is a theorem. No module
declares a `RECURSIVE` operator.

## Not modelled

* The artifact format's own bytes: JSON, base64, 12-byte nonces, key length. They
  decide whether bytes decode, which the model takes as a choice.
* A rewrap names only its current key in the key access plan; the new reference is
  used unplanned. No document of the repository asks for more, so no property
  does; the registration names the new reference (`CustodyRecorded`).
* `check_pull_request_path_policy`: a filter over the paths of a pull request.
* `capabilities` and `whoami`: plain reads no workflow uses; they appear as steps of
  the C ABI and of the runner only.
* Headers, tokens and endpoints of the HTTP client: no decision of the SDK depends on
  them.
* Callers of the C ABI that break its rules (a handle freed while a call uses it, a
  string freed twice): the functions are `unsafe` and promise nothing then.
* The descendants of a provider command, Windows pipes, and the time a command takes.
* The runner's manifest and the wording of its summary.
* The severity gate and the security suite: a comparison of four numbers and report
  parsing, without state. A failed gate exits with 2 where `config/gate.json:2` says 1; no
  run is spent on it.
* The bootstrap of CI feedback, the threat model check: one-shot programs whose steps
  are independent look-ups.
* Build files, packaging, examples, agent prompts: no program state.

## Plan

Done, in this order: the workflows with `Custody` and its refinement; `CiFeedback`;
`KeyProviders`; `FfiBoundary`; `IntegrationRunner`; a theorem for every safety property of
a run; `DefectLedger` and its refinement; the theorems about it; `KeyService`, by which a
resolution is one step whatever the process does; the measures behind the two liveness
properties. What is left:

1. `LocalWorkflow` over an instance of `KeyService`, so that the two modules share the
   outcome of a resolution and not only its shape.
2. The bootstrap of CI feedback, interrupted and repeated.
