------------------------- MODULE PlatformContract --------------------------
(***************************************************************************)
(* What the SDK asks of the platform's answers: the ensure_* functions of  *)
(* src/src/local.rs, over the fields of the responses of src/src/models.rs *)
(* that they read.  A response that fails its check ends the call with     *)
(* SdkError::InvalidInput.                                                 *)
(***************************************************************************)
EXTENDS Naturals

CONSTANTS
    Tenants,        \* tenant ids the platform may report for the caller
    TargetLists     \* values of policy handling.bind_policy_to

ArtifactProfile     == {"envelope", "tdf", "detached_signature"}
ProtectionOperation == {"protect", "access", "rewrap"}
KeyAccessOperation  == {"wrap", "unwrap", "rewrap"}
PlaintextTransport  == {"forbidden_by_default", "permitted"}

ManagedTransportMode ==
    {"wrapped_key_reference", "authorized_key_release", "kem_encapsulated_cek"}
KeyTransportMode == {"local_provided"} \cup ManagedTransportMode

\* key_transport is optional; "absent" stands for None.
KeyTransport ==
    [mode : KeyTransportMode \cup {"absent"}, raw_key_delivery_forbidden : BOOLEAN]

BootstrapResponse ==
    [plaintext_to_platform        : BOOLEAN,
     enforcement_model            : {"embedded_local_library", "other"},
     supported_operations         : SUBSET ProtectionOperation,
     supported_artifact_profiles  : SUBSET ArtifactProfile]

PolicyResponse ==
    [allow : BOOLEAN, protect_locally : BOOLEAN,
     plaintext_transport : PlaintextTransport, bind_policy_to : TargetLists]

PlanResponse ==
    [allow : BOOLEAN, protect_locally : BOOLEAN,
     send_plaintext_to_platform : BOOLEAN, plaintext_transport : PlaintextTransport,
     key_transport : KeyTransport, tenant_id : Tenants]

KeyPlanResponse ==
    [allow : BOOLEAN, operation : KeyAccessOperation,
     local_cryptographic_operation : BOOLEAN, send_plaintext_to_platform : BOOLEAN,
     artifact_profile : ArtifactProfile, key_transport : KeyTransport]

RegistrationResponse == [accepted : BOOLEAN, send_plaintext_to_platform : BOOLEAN]

EvidenceResponse == [accepted : BOOLEAN, plaintext_transport : PlaintextTransport]

(***************************************************************************)
(* The checks.                                                             *)
(***************************************************************************)

\* ensure_bootstrap_supports_local_protection; `requested' is {} when the
\* caller names no profile.  An empty list of profiles advertises all of them.
BootstrapSupportsProtection(r, requested) ==
    /\ ~r.plaintext_to_platform
    /\ r.enforcement_model = "embedded_local_library"
    /\ "protect" \in r.supported_operations
    /\ \/ r.supported_artifact_profiles = {}
       \/ requested \subseteq r.supported_artifact_profiles

\* ensure_bootstrap_supports_local_rewrap.
BootstrapSupportsRewrap(r, profile) ==
    /\ ~r.plaintext_to_platform
    /\ r.enforcement_model = "embedded_local_library"
    /\ "rewrap" \in r.supported_operations
    /\ \/ r.supported_artifact_profiles = {}
       \/ profile \in r.supported_artifact_profiles

\* A check that forgets the decision and reads only the handling.
PolicyHandlingIsLocal(r) ==
    /\ r.protect_locally
    /\ r.plaintext_transport = "forbidden_by_default"

\* The three policy checks differ only in the words of their errors.
PolicySupportsLocal(r) ==
    /\ r.allow
    /\ r.protect_locally
    /\ r.plaintext_transport = "forbidden_by_default"

TransportFailsClosed(t) == t.mode # "absent" => t.raw_key_delivery_forbidden

\* A check that trusts the decision and forgets the execution plan.
PlanDecisionOnly(r) ==
    /\ r.allow
    /\ r.plaintext_transport = "forbidden_by_default"

PlanSupportsLocal(r) ==
    /\ r.allow
    /\ r.protect_locally
    /\ ~r.send_plaintext_to_platform
    /\ r.plaintext_transport = "forbidden_by_default"
    /\ TransportFailsClosed(r.key_transport)

KeyPlanSupportsLocal(r, operation, profile) ==
    /\ r.allow
    /\ r.operation = operation
    /\ r.local_cryptographic_operation
    /\ ~r.send_plaintext_to_platform
    /\ r.artifact_profile = profile
    /\ TransportFailsClosed(r.key_transport)

RegistrationSupportsLocal(r) ==
    /\ r.accepted
    /\ ~r.send_plaintext_to_platform

EvidenceSupportsLocal(r) ==
    /\ r.accepted
    /\ r.plaintext_transport = "forbidden_by_default"

(***************************************************************************)
(* Answers that take the work out of the local library: plaintext or raw   *)
(* keys would travel, or enforcement would happen elsewhere.               *)
(***************************************************************************)

TransportLeavesLocal(t) == t.mode # "absent" /\ ~t.raw_key_delivery_forbidden

BootstrapLeavesLocal(r) ==
    r.plaintext_to_platform \/ r.enforcement_model # "embedded_local_library"

PolicyLeavesLocal(r) == ~r.protect_locally \/ r.plaintext_transport = "permitted"

PlanLeavesLocal(r) ==
    \/ ~r.protect_locally
    \/ r.send_plaintext_to_platform
    \/ r.plaintext_transport = "permitted"
    \/ TransportLeavesLocal(r.key_transport)

KeyPlanLeavesLocal(r) ==
    \/ ~r.local_cryptographic_operation
    \/ r.send_plaintext_to_platform
    \/ TransportLeavesLocal(r.key_transport)

=============================================================================
