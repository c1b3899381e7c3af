--------------------------- MODULE LocalWorkflow ---------------------------
(***************************************************************************)
(* The local workflows of the SDK (src/src/local.rs): concurrent calls on  *)
(* one shared Client that protect, access, rewrap, edit, sign and verify   *)
(* content in-process while a remote platform authorises each step from    *)
(* metadata, records the artifact and takes the evidence.                  *)
(*                                                                         *)
(* A call is a straight line of steps that any failure ends: Route gives,  *)
(* for each public function, the steps it takes in order, and there is one *)
(* action per kind of step.  Each request may be answered within or        *)
(* outside the contract, or fail in transport before or after the platform *)
(* acted on it; the client never repeats one (src/src/client.rs).          *)
(***************************************************************************)
EXTENDS Sequences, LocalArtifact, PlatformContract

CONSTANTS
    Calls,                  \* invocations of the library, on any threads
    Operations,             \* the public functions the callers use
    Contents,               \* plaintexts
    Descriptions,           \* descriptions a LocalProtectionRequest may carry
    Edits,                  \* LocalAttributeEdit values: records of remove, set
    InlineKeys,             \* caller-supplied symmetric keys and Ed25519 key pairs
    ManagedRefs,            \* key references held by the key provider
    ProviderModes,          \* transport modes the provider's capabilities list
    MaxRotations,           \* bound: how often a managed reference gets a new key
    InitialArtifacts,       \* artifacts the callers hold from earlier sessions
    DamageAtRest,           \* may a stored artifact lose or change a field?
    BootstrapResponses, PolicyResponses, PlanResponses, KeyPlanResponses,
    RegistrationResponses, EvidenceResponses   \* what the platform may answer

AllOperations ==
    {"prepare", "protect_envelope", "access_envelope", "rewrap_envelope",
     "protect_tdf", "access_tdf", "rewrap_tdf", "set_tdf_attributes",
     "edit_tdf_attributes", "sign", "verify"}

ASSUME WorkflowAssumption ==
    /\ Operations \subseteq AllOperations
    /\ ProviderModes \subseteq ManagedTransportMode
    /\ MaxRotations \in Nat
    /\ DamageAtRest \in BOOLEAN
    /\ InlineKeys \cap ManagedRefs = {}

\* What callers hold from earlier sessions, this library sealed.
ASSUME ContentAssumption ==
    /\ \A d \in Descriptions : IsDescription(d)
    /\ \A a \in InitialArtifacts : WellSealed(a)

ASSUME ResponseAssumption ==
    /\ BootstrapResponses \subseteq BootstrapResponse
    /\ PolicyResponses \subseteq PolicyResponse
    /\ PlanResponses \subseteq PlanResponse
    /\ KeyPlanResponses \subseteq KeyPlanResponse
    /\ RegistrationResponses \subseteq RegistrationResponse
    /\ EvidenceResponses \subseteq EvidenceResponse

VARIABLES
    status,     \* of each call: idle, running, returned (Ok) or failed (Err)
    job,        \* the arguments of each call
    at,         \* the position of each running call in its route
    work,       \* the local variables of each call
    held,       \* artifacts returned to callers
    keystore,   \* the provider's current key version of each managed reference
    catalog,    \* the platform's artifact registrations
    ledger,     \* the platform's evidence
    grants,     \* history: what the platform allowed, for which call
    objected    \* history: calls that were given an answer outside the contract

callVars == <<status, job, at, work, held>>
platformVars == <<catalog, ledger, grants, objected>>
vars == <<status, job, at, work, held, keystore, catalog, ledger, grants, objected>>

-----------------------------------------------------------------------------
(***************************************************************************)
(* Operations, keys and requests.                                          *)
(***************************************************************************)

Profile(op) ==
    CASE op \in {"protect_envelope", "access_envelope", "rewrap_envelope"} -> "envelope"
      [] op \in {"protect_tdf", "access_tdf", "rewrap_tdf", "set_tdf_attributes",
                 "edit_tdf_attributes"} -> "tdf"
      [] op \in {"sign", "verify"} -> "detached_signature"
      [] OTHER -> "none"

Makers    == {"prepare", "protect_envelope", "protect_tdf", "sign"}
Readers   == {"access_envelope", "access_tdf", "verify"}
Editors   == {"set_tdf_attributes", "edit_tdf_attributes"}
Rewriters == {"rewrap_envelope", "rewrap_tdf"} \cup Editors

\* request.preferred_artifact_profile: fixed by the protecting functions, up to
\* the caller of prepare_local_protection and generate_cid_binding.
PreferredProfiles(op) ==
    IF op = "prepare" THEN {{}} \cup {{p} : p \in ArtifactProfile} ELSE {{Profile(op)}}

PolicyOperation(op) ==
    IF op \in Makers THEN "protect" ELSE IF op \in Readers THEN "access" ELSE "rewrap"

KeyOperation(op) ==
    IF op \in Makers THEN "wrap" ELSE IF op \in Readers THEN "unwrap" ELSE "rewrap"

\* LocalSymmetricKeySource.
KeySource ==
    [managed : {FALSE}, name : InlineKeys] \cup [managed : {TRUE}, name : ManagedRefs]

Key == [name : InlineKeys \cup ManagedRefs, version : 0..MaxRotations]

InlineKey(name) == [name |-> name, version |-> 0]

DefaultKeyReference(profile) ==
    CASE profile = "envelope" -> "local-symmetric-key"
      [] profile = "tdf" -> "local-tdf-key"
      [] OTHER -> "local-detached-signature-key"

\* LocalSymmetricKeySource::key_reference; signatures always name the default.
KeyReference(profile, source) ==
    IF source.managed THEN source.name ELSE DefaultKeyReference(profile)

NoArtifact == [artifact_profile |-> "none"]
NoKey      == [name |-> "none", version |-> 0]

NoJob == [op |-> "none"]

\* Of a legacy TDF, until its manifest is open.
NoDescription == [resource |-> "none", attributes |-> <<>>]

NoWork ==
    [desc |-> NoDescription, tenant |-> "none", digest |-> Sha256("none"), targets |-> "none",
     mode |-> "absent", current |-> NoKey, new |-> NoKey, plaintext |-> "none",
     product |-> NoArtifact]

-----------------------------------------------------------------------------
(***************************************************************************)
(* Routes: the steps of each public function, in the order of its code.    *)
(***************************************************************************)

\* prepare_local_protection.
PrepareRoute == <<"bootstrap", "policy", "plan">>

\* A protection that attests before it registers.
EvidenceFirstRoute ==
    <<"bootstrap", "policy", "plan", "key_plan", "new_key", "seal", "evidence", "register">>

\* protect_bytes_with_envelope and _tdf prepare the protection first.
EnvelopeProtectRoute ==
    <<"bootstrap", "policy", "plan", "key_plan", "new_key", "seal", "register", "evidence">>

TdfProtectRoute ==
    <<"bootstrap", "policy", "plan", "key_plan", "new_key", "seal", "register", "evidence">>

EnvelopeAccessRoute == <<"policy", "key_plan", "current_key", "open", "evidence">>

\* A rewrap that decrypts before the platform has planned the key operation.
EagerRewrapRoute ==
    <<"bootstrap", "policy", "plan", "current_key", "new_key", "open", "key_plan",
      "seal", "register", "evidence">>

EnvelopeRewrapRoute ==
    <<"bootstrap", "policy", "plan", "key_plan", "current_key", "new_key", "open",
      "seal", "register", "evidence">>

\* With a policy context the platform is asked before anything is decrypted;
\* a legacy artifact has to be decrypted, with an inline key, to know what to ask.
TdfAccessRoute(source) ==
    IF source.policy_context # {}
    THEN <<"policy", "key_plan", "current_key", "manifest", "open", "evidence">>
    ELSE <<"manifest", "policy", "key_plan", "current_key", "open", "evidence">>

\* An inline key opens the manifest at once; a managed key is only reached through
\* the platform and so costs a first round about the policy context.  Then
\* rewrite_tdf_artifact runs its own round about the manifest.
TdfRewriteRoute(current) ==
    IF current.managed
    THEN <<"policy", "key_plan", "current_key", "manifest",
           "bootstrap", "policy", "plan", "key_plan", "current_key", "new_key", "open",
           "seal", "register", "evidence">>
    ELSE <<"manifest",
           "bootstrap", "policy", "plan", "key_plan", "current_key", "new_key", "open",
           "seal", "register", "evidence">>

SignRoute == <<"bootstrap", "policy", "plan", "key_plan", "seal", "register", "evidence">>

VerifyRoute == <<"policy", "key_plan", "verify", "evidence">>

Route(j) ==
    CASE j.op = "prepare"          -> PrepareRoute
      [] j.op = "protect_envelope" -> EnvelopeProtectRoute
      [] j.op = "access_envelope"  -> EnvelopeAccessRoute
      [] j.op = "rewrap_envelope"  -> EnvelopeRewrapRoute
      [] j.op = "protect_tdf"      -> TdfProtectRoute
      [] j.op = "access_tdf"       -> TdfAccessRoute(j.source)
      [] j.op \in {"rewrap_tdf", "set_tdf_attributes", "edit_tdf_attributes"} ->
            TdfRewriteRoute(j.current)
      [] j.op = "sign"             -> SignRoute
      [] j.op = "verify"           -> VerifyRoute

\* Timeouts on the planning requests only.
PlanningSteps == {"bootstrap", "policy", "plan", "key_plan"}

RemoteSteps == {"bootstrap", "policy", "plan", "key_plan", "register", "evidence"}

Running(c, step) ==
    /\ status[c] = "running"
    /\ Route(job[c])[at[c]] = step

-----------------------------------------------------------------------------
(***************************************************************************)
(* How a step ends: the call goes on (and returns after its last step) or  *)
(* fails, dropping its arguments and locals.                               *)
(***************************************************************************)

LastStep(c) == at[c] = Len(Route(job[c]))

Proceed(c, locals) ==
    /\ work' = [work EXCEPT ![c] = locals]
    /\ at' = [at EXCEPT ![c] = @ + 1]
    /\ status' = [status EXCEPT ![c] = IF LastStep(c) THEN "returned" ELSE "running"]
    /\ held' = IF LastStep(c) /\ locals.product # NoArtifact
               THEN held \cup {locals.product}
               ELSE held
    /\ UNCHANGED job

\* A failure that leaves the locals, with keys and plaintext, behind.
FailKeepingLocals(c) ==
    /\ status' = [status EXCEPT ![c] = "failed"]
    /\ job' = [job EXCEPT ![c] = NoJob]
    /\ at' = [at EXCEPT ![c] = 0]
    /\ UNCHANGED <<work, held>>

Fail(c) ==
    /\ status' = [status EXCEPT ![c] = "failed"]
    /\ job' = [job EXCEPT ![c] = NoJob]
    /\ at' = [at EXCEPT ![c] = 0]
    /\ work' = [work EXCEPT ![c] = NoWork]
    /\ UNCHANGED held

-----------------------------------------------------------------------------
(***************************************************************************)
(* Beginning a call.                                                       *)
(***************************************************************************)

Begin(c, j, locals) ==
    /\ status[c] = "idle"
    /\ status' = [status EXCEPT ![c] = "running"]
    /\ job' = [job EXCEPT ![c] = j]
    /\ at' = [at EXCEPT ![c] = 1]
    /\ work' = [work EXCEPT ![c] = locals]
    /\ UNCHANGED <<held, keystore, platformVars>>

\* prepare_local_protection, generate_cid_binding, protect_* and sign_*: the
\* content is digested first.
BeginMaking(c) ==
    \E op \in Operations \cap Makers, content \in Contents,
       desc \in Descriptions, key \in KeySource :
        /\ op \in {"sign", "prepare"} => ~key.managed
        /\ Begin(c, [op |-> op, new |-> key],
                 [NoWork EXCEPT !.desc = desc, !.digest = Sha256(content),
                                !.plaintext = content])

\* The bytes a caller hands in: an artifact as it was returned or, when storage
\* may damage it, a copy with one field changed.  (A changed version, profile or
\* algorithm makes it no artifact of its kind; raw_cid and content_size_bytes go
\* with content_digest, and signer is signer_key_id and signer_public_key_b64, which
\* are both compared with the verifying key.)
DamagedEnvelopes(a) ==
    {[a EXCEPT !.desc = d] : d \in Descriptions}
        \cup {[a EXCEPT !.aad_hash = Sha256(Noise)],
              [a EXCEPT !.ciphertext = Corrupted(@)]}

DamagedTdfs(a) ==
    {[a EXCEPT !.policy_context = p] : p \in {{}} \cup {{d} : d \in Descriptions}}
        \cup {[a EXCEPT !.meta_version = v] : v \in 0..MaxMetaVersion}
        \cup {[a EXCEPT !.manifest_digest = Sha256(Noise)],
              [a EXCEPT !.aad_hash = Sha256(Noise)],
              [a EXCEPT !.manifest = Corrupted(@)], [a EXCEPT !.payload = Corrupted(@)]}

DamagedSignatures(a) ==
    {[a EXCEPT !.desc = d] : d \in Descriptions}
        \cup {[a EXCEPT !.signer = k] : k \in InlineKeys}
        \cup {[a EXCEPT !.signature = [by |-> a.signer, over |-> Noise]]}

DamagedCopies(a) ==
    UNION {{[a EXCEPT !.tenant_id = t] : t \in Tenants},
           {[a EXCEPT !.binding_targets = l] : l \in TargetLists},
           {[a EXCEPT !.content_digest = Sha256(content)] : content \in Contents \cup {"none"}},
           {[a EXCEPT !.binding_hash = Sha256(Noise)]},
           CASE a.artifact_profile = "envelope"           -> DamagedEnvelopes(a)
             [] a.artifact_profile = "tdf"                -> DamagedTdfs(a)
             [] a.artifact_profile = "detached_signature" -> DamagedSignatures(a)}

Stored == IF DamageAtRest
          THEN held \cup UNION {DamagedCopies(a) : a \in held}
          ELSE held

\* The description a call starts from: of a TDF, the policy context.
InitialDescription(a) ==
    IF a.artifact_profile # "tdf" THEN a.desc
    ELSE IF a.policy_context = {} THEN NoDescription
    ELSE CHOOSE d \in a.policy_context : TRUE

\* The checks made before the first request: version and profile, that a clear
\* policy context hashes to the binding, that a legacy TDF comes with an inline
\* key, that the content to verify is the content that was signed.
SourceAccepted(op, current, content, a) ==
    /\ Profile(op) = a.artifact_profile
    /\ a.artifact_profile = "tdf" =>
          IF a.policy_context = {} THEN ~current.managed
                                   ELSE BindingMatches(a, InitialDescription(a))
    /\ op = "verify" => Sha256(content) = a.content_digest

OpeningLocals(a) ==
    [NoWork EXCEPT !.desc = InitialDescription(a), !.tenant = a.tenant_id,
                   !.digest = a.content_digest]

BeginReading(c) ==
    \E op \in Operations \cap Readers, a \in Stored, key \in KeySource :
        \E content \in IF op = "verify" THEN Contents ELSE {"none"} :
            /\ op = "verify" => ~key.managed
            /\ SourceAccepted(op, key, content, a)
            /\ Begin(c, [op |-> op, source |-> a, current |-> key],
                     [OpeningLocals(a) EXCEPT !.plaintext = content])

\* rewrap_* take a current and a new key source; the attribute editors use one
\* key source as both.
BeginRewriting(c) ==
    \E op \in Operations \cap Rewriters, a \in Stored, current \in KeySource :
        \E new \in IF op \in Editors THEN {current} ELSE KeySource,
           edit \in IF op \in Editors THEN Edits ELSE {"none"} :
            /\ SourceAccepted(op, current, "none", a)
            /\ Begin(c, [op |-> op, source |-> a, current |-> current,
                         new |-> new, edit |-> edit],
                     OpeningLocals(a))

\* The same checks on bytes that do not pass them: Err before any request.
RejectSource(c) ==
    /\ status[c] = "idle"
    /\ \E op \in Operations \ Makers, a \in Stored, key \in KeySource :
        \E content \in IF op = "verify" THEN Contents ELSE {"none"} :
            ~SourceAccepted(op, key, content, a)
    /\ Fail(c)
    /\ UNCHANGED <<keystore, platformVars>>

-----------------------------------------------------------------------------
(***************************************************************************)
(* Asking the platform.  A grant is what the platform allowed, as the      *)
(* request described it; an objection is an answer that does not keep the  *)
(* work local.                                                             *)
(***************************************************************************)

\* A request described from the clear policy context instead of the manifest.
AskAboutSource(c, kind, operation, reference) ==
    [call |-> c, ask |-> kind, operation |-> operation,
     about |-> IF job[c].op \in Makers THEN work[c].desc ELSE InitialDescription(job[c].source),
     digest |-> work[c].digest, key_reference |-> reference]

Ask(c, kind, operation, reference) ==
    [call |-> c, ask |-> kind, operation |-> operation, about |-> work[c].desc,
     digest |-> work[c].digest, key_reference |-> reference]

\* The platform answers with r, allowing `ask' or not; `accepted' is the SDK's
\* own check of the answer.
Answered(c, r, ask, accepted, locals) ==
    /\ grants' = IF r.allow THEN grants \cup {ask} ELSE grants
    /\ IF accepted THEN Proceed(c, locals) ELSE Fail(c)
    /\ UNCHANGED <<keystore, catalog, ledger>>

Bootstrap(c) ==
    /\ Running(c, "bootstrap")
    /\ \E r \in BootstrapResponses, preferred \in PreferredProfiles(job[c].op) :
        /\ IF IF job[c].op \in Makers THEN BootstrapSupportsProtection(r, preferred)
                                     ELSE BootstrapSupportsRewrap(r, Profile(job[c].op))
           THEN Proceed(c, work[c])
           ELSE Fail(c)
        /\ objected' = IF BootstrapLeavesLocal(r) THEN objected \cup {c} ELSE objected
    /\ UNCHANGED <<keystore, catalog, ledger, grants>>

PolicyResolve(c) ==
    /\ Running(c, "policy")
    /\ \E r \in PolicyResponses :
        /\ Answered(c, r, Ask(c, "policy", PolicyOperation(job[c].op), "none"),
                    PolicySupportsLocal(r),
                    [work[c] EXCEPT !.targets = r.bind_policy_to])
        /\ objected' = IF PolicyLeavesLocal(r) THEN objected \cup {c} ELSE objected

\* A plan that always carries the caller's tenant over.
TenantOfCaller(c, r) == r.tenant_id

\* The tenant of a new artifact is the caller's tenant in the plan; a rewritten
\* artifact keeps the tenant it has.
BoundTenant(c, r) == IF job[c].op \in Makers THEN r.tenant_id ELSE work[c].tenant

ProtectionPlan(c) ==
    /\ Running(c, "plan")
    /\ \E r \in PlanResponses :
        /\ Answered(c, r, Ask(c, "plan", PolicyOperation(job[c].op), "none"),
                    PlanSupportsLocal(r),
                    [work[c] EXCEPT !.tenant = BoundTenant(c, r)])
        /\ objected' = IF PlanLeavesLocal(r) THEN objected \cup {c} ELSE objected

\* The key reference a key access plan is asked for: a rewrap names its current
\* key only.
PlannedKeyReference(j) ==
    KeyReference(Profile(j.op), IF j.op \in Makers THEN j.new ELSE j.current)

KeyAccessPlan(c) ==
    /\ Running(c, "key_plan")
    /\ \E r \in KeyPlanResponses :
        /\ Answered(c, r, Ask(c, "key_plan", KeyOperation(job[c].op),
                              PlannedKeyReference(job[c])),
                    KeyPlanSupportsLocal(r, KeyOperation(job[c].op), Profile(job[c].op)),
                    [work[c] EXCEPT !.mode = r.key_transport.mode])
        /\ objected' = IF KeyPlanLeavesLocal(r) THEN objected \cup {c} ELSE objected

\* Transport errors, HTTP error statuses and undecodable bodies: the call ends
\* and is not repeated.  The request had no effect here; for the requests that
\* have one, Register and Evidence also cover an effect whose answer is lost.
ConnectionFails(c) ==
    /\ status[c] = "running"
    /\ Route(job[c])[at[c]] \in RemoteSteps
    /\ Fail(c)
    /\ UNCHANGED <<keystore, platformVars>>

-----------------------------------------------------------------------------
(***************************************************************************)
(* Keys.  resolve_symmetric_key_for_runtime: with local (or no) transport  *)
(* guidance only an inline key will do, with managed guidance only a       *)
(* reference whose provider supports the mode.                             *)
(***************************************************************************)

KeyResolvable(source, mode) ==
    IF mode \in {"absent", "local_provided"}
    THEN ~source.managed
    ELSE source.managed /\ mode \in ProviderModes

ResolvedKey(source) ==
    [name    |-> source.name,
     version |-> IF source.managed THEN keystore[source.name] ELSE 0]

ResolveCurrentKey(c) ==
    /\ Running(c, "current_key")
    /\ IF KeyResolvable(job[c].current, work[c].mode)
       THEN Proceed(c, [work[c] EXCEPT !.current = ResolvedKey(job[c].current)])
       ELSE Fail(c)
    /\ UNCHANGED <<keystore, platformVars>>

ResolveNewKey(c) ==
    /\ Running(c, "new_key")
    /\ IF KeyResolvable(job[c].new, work[c].mode)
       THEN Proceed(c, [work[c] EXCEPT !.new = ResolvedKey(job[c].new)])
       ELSE Fail(c)
    /\ UNCHANGED <<keystore, platformVars>>

\* The provider does not have the reference, or cannot be reached.
ProviderFails(c) ==
    /\ \/ Running(c, "current_key") /\ job[c].current.managed
       \/ Running(c, "new_key") /\ job[c].new.managed
    /\ Fail(c)
    /\ UNCHANGED <<keystore, platformVars>>

\* External: the provider's operator replaces the key of a reference.
RotateKey(ref) ==
    /\ keystore[ref] < MaxRotations
    /\ keystore' = [keystore EXCEPT ![ref] = @ + 1]
    /\ UNCHANGED <<callVars, platformVars>>

-----------------------------------------------------------------------------
(***************************************************************************)
(* Local cryptography.                                                     *)
(***************************************************************************)

\* An inline key opens a manifest directly, a managed one after it is resolved.
ManifestKey(c) ==
    IF job[c].current.managed THEN work[c].current ELSE InlineKey(job[c].current.name)

\* What the call goes on with: the decrypted manifest, edited by the editors.
EditedManifest(j, manifest) ==
    CASE j.op = "set_tdf_attributes" -> [manifest EXCEPT !.attributes = j.edit.set]
      [] j.op = "edit_tdf_attributes" ->
            [manifest EXCEPT !.attributes = ApplyAttributeEdit(@, j.edit)]
      [] OTHER -> manifest

OpenManifest(c) ==
    /\ Running(c, "manifest")
    /\ LET a == job[c].source IN
        IF TdfManifestTrusted(ManifestKey(c), a)
        THEN Proceed(c, [work[c] EXCEPT !.desc = EditedManifest(job[c], a.manifest.msg)])
        ELSE Fail(c)
    /\ UNCHANGED <<keystore, platformVars>>

Opens(key, a) ==
    IF a.artifact_profile = "tdf" THEN TdfPayloadOpens(key, a) ELSE EnvelopeOpens(key, a)

Ciphertext(a) == IF a.artifact_profile = "tdf" THEN a.payload ELSE a.ciphertext

\* Decryption of the content, and the digest check on the decrypted bytes.
OpenContent(c) ==
    /\ Running(c, "open")
    /\ LET a == job[c].source IN
        IF Opens(work[c].current, a) /\ Sha256(Ciphertext(a).msg) = a.content_digest
        THEN Proceed(c, [work[c] EXCEPT !.plaintext = Ciphertext(a).msg])
        ELSE Fail(c)
    /\ UNCHANGED <<keystore, platformVars>>

\* An increment forgotten by set_tdf_attributes.
MetaVersionOfEdits(j) ==
    CASE j.op = "protect_tdf"         -> 1
      [] j.op = "edit_tdf_attributes" -> SaturatingIncrement(j.source.meta_version)
      [] OTHER                        -> j.source.meta_version

MetaVersion(j) ==
    CASE j.op = "protect_tdf" -> 1
      [] j.op \in Editors     -> SaturatingIncrement(j.source.meta_version)
      [] OTHER                -> j.source.meta_version

\* The nonce is fresh: a call seals once, so the call names it.
Product(c) ==
    LET w == work[c] IN
    CASE Profile(job[c].op) = "envelope" ->
            SealEnvelope(w.new, c, w.plaintext, w.tenant, w.digest, w.desc, w.targets)
      [] Profile(job[c].op) = "tdf" ->
            SealTdf(w.new, c, w.plaintext, w.tenant, w.digest, w.desc, w.targets,
                    MetaVersion(job[c]))
      [] OTHER -> SignDetached(job[c].new.name, w.tenant, w.digest, w.desc, w.targets)

Seal(c) ==
    /\ Running(c, "seal")
    /\ Proceed(c, [work[c] EXCEPT !.product = Product(c)])
    /\ UNCHANGED <<keystore, platformVars>>

Verify(c) ==
    /\ Running(c, "verify")
    /\ IF SignatureVerifies(job[c].current.name, job[c].source)
       THEN Proceed(c, work[c])
       ELSE Fail(c)
    /\ UNCHANGED <<keystore, platformVars>>

-----------------------------------------------------------------------------
(***************************************************************************)
(* Recording.                                                              *)
(***************************************************************************)

\* A registration that names the planned key instead of the sealing key.
RegistrationOfPlannedKey(c) ==
    [operation        |-> PolicyOperation(job[c].op),
     artifact_profile |-> Profile(job[c].op),
     digest           |-> Sha256(work[c].product),
     key_reference    |-> PlannedKeyReference(job[c]),
     about            |-> work[c].desc]

Registration(c) ==
    LET profile == work[c].product.artifact_profile IN
    [operation        |-> PolicyOperation(job[c].op),
     artifact_profile |-> profile,
     digest           |-> Sha256(work[c].product),
     key_reference    |-> KeyReference(profile, job[c].new),
     about            |-> work[c].desc]

Register(c) ==
    /\ Running(c, "register")
    /\ \E r \in RegistrationResponses, delivered \in BOOLEAN :
        /\ catalog' = IF r.accepted THEN catalog \cup {Registration(c)} ELSE catalog
        /\ IF delivered /\ RegistrationSupportsLocal(r) THEN Proceed(c, work[c]) ELSE Fail(c)
        /\ objected' = IF delivered /\ r.send_plaintext_to_platform
                       THEN objected \cup {c} ELSE objected
    /\ UNCHANGED <<keystore, ledger, grants>>

EvidenceRecord(c) ==
    [event  |-> PolicyOperation(job[c].op),
     digest |-> Sha256(IF job[c].op \in Readers THEN job[c].source ELSE work[c].product),
     about  |-> work[c].desc]

Evidence(c) ==
    /\ Running(c, "evidence")
    /\ \E r \in EvidenceResponses, delivered \in BOOLEAN :
        /\ ledger' = IF r.accepted THEN ledger \cup {EvidenceRecord(c)} ELSE ledger
        /\ IF delivered /\ EvidenceSupportsLocal(r) THEN Proceed(c, work[c]) ELSE Fail(c)
        /\ objected' = IF delivered /\ r.plaintext_transport = "permitted"
                       THEN objected \cup {c} ELSE objected
    /\ UNCHANGED <<keystore, catalog, grants>>

-----------------------------------------------------------------------------

Init ==
    /\ status = [c \in Calls |-> "idle"]
    /\ job = [c \in Calls |-> NoJob]
    /\ at = [c \in Calls |-> 0]
    /\ work = [c \in Calls |-> NoWork]
    /\ held = InitialArtifacts
    /\ keystore = [ref \in ManagedRefs |-> 0]
    /\ catalog = {}
    /\ ledger = {}
    /\ grants = {}
    /\ objected = {}

BeginCall(c) == BeginMaking(c) \/ BeginReading(c) \/ BeginRewriting(c) \/ RejectSource(c)

AskPlatform(c) ==
    Bootstrap(c) \/ PolicyResolve(c) \/ ProtectionPlan(c) \/ KeyAccessPlan(c)
        \/ Register(c) \/ Evidence(c)

ComputeLocally(c) ==
    ResolveCurrentKey(c) \/ ResolveNewKey(c) \/ ProviderFails(c)
        \/ OpenManifest(c) \/ OpenContent(c) \/ Seal(c) \/ Verify(c)

Next ==
    \/ \E c \in Calls : BeginCall(c) \/ AskPlatform(c) \/ ComputeLocally(c) \/ ConnectionFails(c)
    \/ \E ref \in ManagedRefs : RotateKey(ref)

Spec == Init /\ [][Next]_vars

=============================================================================
