------------------------- MODULE IntegrationRunner -------------------------
(***************************************************************************)
(* The integration run (src/src/integration_full_runner.rs): one thread    *)
(* takes the SDK through a scenario of requests of its own and calls of    *)
(* the library, each of which is a call of LocalWorkflow with a name of    *)
(* its own.  The key transport mode that is to decide between inline and   *)
(* managed envelope keys is asked for early and again by each call, and    *)
(* the answers need not agree.                                             *)
(***************************************************************************)
EXTENDS LocalWorkflow

CONSTANTS
    VerifyingKey,        \* the key pair verifying_key_b64 belongs to
    ManifestDescription  \* the manifest's workload, resource, labels, attributes, purpose

\* The requests of the runner, whose answers it does not check, and the calls.
DirectRequests ==
    {"capabilities", "bootstrap", "whoami", "protection_plan", "policy_resolve",
     "tdf_key_plan", "envelope_key_plan", "register", "evidence"}

Scenario ==
    <<"capabilities", "bootstrap", "whoami", "prepare", "cid_binding",
      "protection_plan", "policy_resolve", "tdf_key_plan", "envelope_key_plan",
      "sign", "verify", "protect_envelope", "access_envelope", "rewrap_envelope",
      "protect_tdf", "access_tdf", "rewrap_tdf", "register", "evidence">>

LibraryCalls == {Scenario[i] : i \in DOMAIN Scenario} \ DirectRequests

ASSUME RunnerAssumption ==
    /\ Calls = LibraryCalls \cup {"protect_envelope_again"}
    /\ InlineKeys = {"inline_key", "rewrap_key", "signing_key"}
    /\ ManagedRefs = {"managed_key_reference", "managed_rewrap_key_reference"}
    /\ VerifyingKey \in InlineKeys
    /\ Descriptions = {ManifestDescription}
    /\ InitialArtifacts = {} /\ ~DamageAtRest

VARIABLES
    outcome,       \* of the run: idle, running, ok (a summary), failed
    position,      \* in the scenario
    use_managed,   \* use_managed_envelope_keys
    retried,       \* the envelope protection is at its second call
    error          \* of the call that failed, if any

runnerVars == <<outcome, position, use_managed, retried, error>>

At(s) == outcome = "running" /\ Scenario[position] = s

\* The end is noticed one step late.
AdvancePastEnd ==
    /\ position' = position + 1
    /\ outcome' = IF position > Len(Scenario) THEN "ok" ELSE "running"

Advance ==
    /\ position' = position + 1
    /\ outcome' = IF position = Len(Scenario) THEN "ok" ELSE "running"

Stop ==
    /\ outcome' = "failed"
    /\ UNCHANGED position

-----------------------------------------------------------------------------
(* The arguments of the calls.                                             *)

Inline(name) == [managed |-> FALSE, name |-> name]
Managed(name) == [managed |-> TRUE, name |-> name]

EnvelopeKey ==
    IF use_managed THEN Managed("managed_key_reference") ELSE Inline("inline_key")
EnvelopeRewrapKey ==
    IF use_managed THEN Managed("managed_rewrap_key_reference") ELSE Inline("rewrap_key")

CallOf(s) == IF s = "protect_envelope" /\ retried THEN "protect_envelope_again" ELSE s

Result(s) == work[CallOf(s)].product

Make(op, new) == [op |-> op, new |-> new]
Read(op, source, current) == [op |-> op, source |-> source, current |-> current]
Rewrap(op, source, current, new) ==
    [op |-> op, source |-> source, current |-> current, new |-> new, edit |-> "none"]

Arguments(s) ==
    CASE s \in {"prepare", "cid_binding"} -> Make("prepare", Inline("inline_key"))
      [] s = "sign"   -> Make("sign", Inline("signing_key"))
      [] s = "verify" -> Read("verify", Result("sign"), Inline(VerifyingKey))
      [] s = "protect_envelope" -> Make(s, EnvelopeKey)
      [] s = "access_envelope"  -> Read(s, Result("protect_envelope"), EnvelopeKey)
      [] s = "rewrap_envelope"  ->
            Rewrap(s, Result("protect_envelope"), EnvelopeKey, EnvelopeRewrapKey)
      [] s = "protect_tdf" -> Make(s, Managed("managed_key_reference"))
      [] s = "access_tdf"  ->
            Read(s, Result("protect_tdf"), Managed("managed_key_reference"))
      [] s = "rewrap_tdf"  ->
            Rewrap(s, Result("protect_tdf"), Managed("managed_key_reference"),
                   Managed("managed_rewrap_key_reference"))

-----------------------------------------------------------------------------
(* The requests of the runner.                                             *)

\* The four keys decode to 32 bytes, or nothing is done at all.
Start ==
    /\ outcome = "idle"
    /\ outcome' \in {"running", "failed"}
    /\ UNCHANGED <<vars, position, use_managed, retried, error>>

\* Answered, with whatever answer; or failed in transport.
AskOnly(s) ==
    /\ At(s)
    /\ Advance \/ Stop
    /\ UNCHANGED <<vars, use_managed, retried, error>>

UsesManaged(mode) == mode \notin {"absent", "local_provided"}

AskForMode ==
    /\ At("envelope_key_plan")
    /\ \/ /\ \E r \in KeyPlanResponses : use_managed' = UsesManaged(r.key_transport.mode)
          /\ Advance
       \/ Stop /\ UNCHANGED use_managed
    /\ UNCHANGED <<vars, retried, error>>

Registered(reference) ==
    [operation        |-> "rewrap",
     artifact_profile |-> "tdf",
     digest           |-> Sha256(Result("rewrap_tdf")),
     key_reference    |-> reference,
     about            |-> ManifestDescription]

\* The reference the artifact was sealed with before the rewrap.
RegistrationOfCurrent == Registered("managed_key_reference")

DirectRegistration == Registered("managed_rewrap_key_reference")

RegisterDirectly ==
    /\ At("register")
    /\ \E accepted \in BOOLEAN :
           catalog' = IF accepted THEN catalog \cup {DirectRegistration} ELSE catalog
    /\ Advance \/ Stop
    /\ UNCHANGED <<callVars, keystore, ledger, grants, objected>>
    /\ UNCHANGED <<use_managed, retried, error>>

DirectEvidence ==
    [event  |-> "rewrap",
     digest |-> Sha256(Result("rewrap_tdf")),
     about  |-> ManifestDescription]

AttestDirectly ==
    /\ At("evidence")
    /\ \E accepted \in BOOLEAN :
           ledger' = IF accepted THEN ledger \cup {DirectEvidence} ELSE ledger
    /\ Advance \/ Stop
    /\ UNCHANGED <<callVars, keystore, catalog, grants, objected>>
    /\ UNCHANGED <<use_managed, retried, error>>

-----------------------------------------------------------------------------
(* The calls of the library.                                               *)

Call(s) ==
    LET c == CallOf(s) IN
    /\ At(s)
    /\ BeginMaking(c) \/ BeginReading(c) \/ BeginRewriting(c)
    /\ job'[c] = Arguments(s)
    /\ UNCHANGED runnerVars

\* What the message of a refused inline key names: the transport mode.
ErrorOf(c) ==
    IF Running(c, "new_key") /\ ~job[c].new.managed THEN work[c].mode ELSE "other"

Work(s) ==
    LET c == CallOf(s) IN
    /\ At(s)
    /\ AskPlatform(c) \/ ComputeLocally(c) \/ ConnectionFails(c)
    /\ error' = IF status'[c] = "failed" THEN ErrorOf(c) ELSE error
    /\ UNCHANGED <<outcome, position, use_managed, retried>>

\* The rewrapped envelope is not used by any later step, and so not missed.
SucceededWhereUsed(c) == status[c] = "returned" \/ (c = "rewrap_envelope" /\ status[c] = "failed")

Succeeded(c) == status[c] = "returned"

Continue(s) ==
    /\ At(s) /\ Succeeded(CallOf(s))
    /\ Advance
    /\ UNCHANGED <<vars, use_managed, retried, error>>

\* The text of the error is no longer the one the runner looks for.
TextHasChanged == FALSE

\* Any failure of the first attempt.
AnyError == error # "none"

\* requires_managed_envelope_key.
RequiresManaged == error = "wrapped_key_reference"

Retryable(s) ==
    s = "protect_envelope" /\ ~use_managed /\ ~retried /\ RequiresManaged

\* The second attempt only; the run goes on with inline keys.
UseManagedOnce == use_managed' = use_managed

UseManagedFromNowOn == use_managed' = TRUE

SecondArguments == Make("protect_envelope", Managed("managed_key_reference"))

\* The fallback: protect again with a managed key.
Retry(s) ==
    /\ At(s) /\ status[CallOf(s)] = "failed" /\ Retryable(s)
    /\ retried' = TRUE
    /\ UseManagedFromNowOn
    /\ BeginMaking("protect_envelope_again")
    /\ job'["protect_envelope_again"] = SecondArguments
    /\ UNCHANGED <<outcome, position, error>>

GiveUp(s) ==
    /\ At(s) /\ status[CallOf(s)] = "failed" /\ ~Retryable(s)
    /\ Stop
    /\ UNCHANGED <<vars, use_managed, retried, error>>

-----------------------------------------------------------------------------
RunInit ==
    /\ Init
    /\ outcome = "idle" /\ position = 1
    /\ use_managed = FALSE /\ retried = FALSE /\ error = "none"

\* The run is over.
Over == outcome \in {"ok", "failed"} /\ UNCHANGED <<vars, runnerVars>>

RunNext ==
    \/ Start \/ AskForMode \/ RegisterDirectly \/ AttestDirectly
    \/ \E s \in DirectRequests \ {"envelope_key_plan", "register", "evidence"} : AskOnly(s)
    \/ \E s \in LibraryCalls : Call(s) \/ Work(s) \/ Continue(s) \/ Retry(s) \/ GiveUp(s)
    \/ \E ref \in ManagedRefs : RotateKey(ref) /\ UNCHANGED runnerVars
    \/ Over

RunSpec == RunInit /\ [][RunNext]_<<vars, runnerVars>>

-----------------------------------------------------------------------------
(* Properties.                                                             *)

IndexOfStep(s) == CHOOSE i \in DOMAIN Scenario : Scenario[i] = s

\* The type of the run's state: it ends with the scenario, the calls after its position
\* have not begun, and the protection was called again only if its first call failed.
RunTypeOK ==
    /\ outcome \in {"idle", "running", "ok", "failed"}
    /\ position \in 1..(Len(Scenario) + 1)
    /\ outcome = "ok" <=> position > Len(Scenario)
    /\ use_managed \in BOOLEAN /\ retried \in BOOLEAN
    /\ error \in {"none", "other", "absent"} \cup KeyTransportMode
    /\ retried => status["protect_envelope"] = "failed"
    /\ ~retried => status["protect_envelope_again"] = "idle"
    /\ \A s \in LibraryCalls : IndexOfStep(s) > position => status[CallOf(s)] = "idle"

SealedUnder(a) ==
    CASE a.artifact_profile = "detached_signature" -> a.signer
      [] a.artifact_profile = "tdf"      -> a.payload.key.name
      [] a.artifact_profile = "envelope" -> a.ciphertext.key.name

\* Whatever the platform answers when, a run opens or rewraps an artifact only with the
\* key that sealed it: after the fallback, with the managed one (use_managed_envelope_keys).
KeysFollowSealing ==
    \A c \in Calls : status[c] = "running" /\ job[c].op \notin Makers \cup {"verify"} =>
        job[c].current.name = SealedUnder(job[c].source)

\* Repeating the protection repeats nothing the platform took: of each operation and
\* profile it has at most one artifact of the run, the one the run goes on with or
\* failed over (the error arms of protected_envelope).
OneArtifactPerStep ==
    \A r, q \in catalog :
        r.operation = q.operation /\ r.artifact_profile = q.artifact_profile
            => r.digest = q.digest

\* The runner registers the rewrapped TDF again by itself: all registrations of an
\* artifact are the same, and name the key reference it is sealed under.
RecordsAgree ==
    \A r, q \in catalog : r.digest = q.digest => r = q

\* Asked too early and answered too late: a refusal of the inline key in the mode
\* wrapped_key_reference does not end the run at its first protection
\* (requires_managed_envelope_key; the other managed modes do end it).
DiscoveredModeIsMet ==
    outcome = "failed" /\ Scenario[position] = "protect_envelope" /\ ~retried
        => error # "wrapped_key_reference"

Made(s) ==
    LET a == Result(s)
        Event == IF s \in {"rewrap_envelope", "rewrap_tdf"} THEN "rewrap" ELSE "protect"
    IN  /\ a \in held
        /\ \E r \in catalog : r.digest = Sha256(a) /\ r.operation = Event
        /\ \E e \in ledger : e.digest = Sha256(a) /\ e.event = Event

\* There is a summary only when every step was taken: its five artifacts are in the
\* catalog and evidenced, and the two that were accessed gave the plaintext back.
SummaryMeansDone ==
    outcome = "ok" =>
        /\ \A s \in {"sign", "protect_envelope", "rewrap_envelope", "protect_tdf",
                     "rewrap_tdf"} : Made(s)
        /\ \A s \in {"access_envelope", "access_tdf"} : work[s].plaintext \in Contents

=============================================================================
