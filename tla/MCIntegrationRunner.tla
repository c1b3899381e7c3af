------------------------ MODULE MCIntegrationRunner ------------------------
(* Values for model checking IntegrationRunner: a platform that takes back  *)
(* its transport mode, refuses records and loses answers.                   *)
EXTENDS IntegrationRunner

CONSTANTS t1, m1

Description1 == [resource |-> "doc", attributes |-> <<>>]
DescriptionsOfTheRun == {Description1}

Transport(m) == [mode |-> m, raw_key_delivery_forbidden |-> TRUE]

Bootstraps ==
    {[plaintext_to_platform |-> FALSE, enforcement_model |-> "embedded_local_library",
      supported_operations |-> ProtectionOperation, supported_artifact_profiles |-> {}]}

Policies ==
    {[allow |-> TRUE, protect_locally |-> TRUE,
      plaintext_transport |-> "forbidden_by_default", bind_policy_to |-> l] : l \in TargetLists}

Plans ==
    {[allow |-> TRUE, protect_locally |-> TRUE, send_plaintext_to_platform |-> FALSE,
      plaintext_transport |-> "forbidden_by_default",
      key_transport |-> Transport("absent"), tenant_id |-> t] : t \in Tenants}

KeyPlans ==
    {[allow |-> TRUE, operation |-> o, local_cryptographic_operation |-> TRUE,
      send_plaintext_to_platform |-> FALSE, artifact_profile |-> p,
      key_transport |-> Transport(m)] :
        o \in KeyAccessOperation, p \in ArtifactProfile,
        m \in {"absent", "wrapped_key_reference", "authorized_key_release"}}

Registrations == {[accepted |-> b, send_plaintext_to_platform |-> FALSE] : b \in BOOLEAN}
Evidences == {[accepted |-> b, plaintext_transport |-> "forbidden_by_default"] : b \in BOOLEAN}

=============================================================================
