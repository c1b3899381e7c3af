-------------------------- MODULE MCLocalWorkflow --------------------------
(***************************************************************************)
(* Values for model checking LocalWorkflow: a few descriptions, and answers *)
(* of the platform that conform to the contract or break it in one field.   *)
(***************************************************************************)
EXTENDS LocalProperties, TLC

CONSTANTS c1, c2, c3, m1, m2, t1, t2, k1, k2, r1, r2

MCDescriptions ==
    {[resource |-> "doc", attributes |-> [class |-> "open"]],
     [resource |-> "doc", attributes |-> [class |-> "closed"]]}

OneDescription == {[resource |-> "doc", attributes |-> [class |-> "open"]]}

\* One edit sets an attribute it also removes, one only removes.
MCEdits ==
    {[remove |-> {"class"}, set |-> [class |-> "closed"]],
     [remove |-> {"class"}, set |-> [owner |-> "me"]]}

-----------------------------------------------------------------------------
\* r and every answer that differs from it in one field.
Variants(r, Type) ==
    {x \in Type : Cardinality({f \in DOMAIN r : x[f] # r[f]}) <= 1}

LocalTransport(m) == [mode |-> m, raw_key_delivery_forbidden |-> TRUE]
RawTransport(m)   == [mode |-> m, raw_key_delivery_forbidden |-> FALSE]

GoodBootstrap ==
    [plaintext_to_platform |-> FALSE, enforcement_model |-> "embedded_local_library",
     supported_operations |-> ProtectionOperation,
     supported_artifact_profiles |-> ArtifactProfile]

GoodPolicy(targets) ==
    [allow |-> TRUE, protect_locally |-> TRUE,
     plaintext_transport |-> "forbidden_by_default", bind_policy_to |-> targets]

GoodPlan(tenant) ==
    [allow |-> TRUE, protect_locally |-> TRUE, send_plaintext_to_platform |-> FALSE,
     plaintext_transport |-> "forbidden_by_default",
     key_transport |-> LocalTransport("local_provided"), tenant_id |-> tenant]

GoodKeyPlan(operation, profile, mode) ==
    [allow |-> TRUE, operation |-> operation, local_cryptographic_operation |-> TRUE,
     send_plaintext_to_platform |-> FALSE, artifact_profile |-> profile,
     key_transport |-> LocalTransport(mode)]

GoodRegistration == [accepted |-> TRUE, send_plaintext_to_platform |-> FALSE]
GoodEvidence == [accepted |-> TRUE, plaintext_transport |-> "forbidden_by_default"]

\* Bootstrap answers: good, one flag or the model wrong, one operation or one
\* profile missing, no profile list at all.
MCBootstrapResponses ==
    {GoodBootstrap,
     [GoodBootstrap EXCEPT !.plaintext_to_platform = TRUE],
     [GoodBootstrap EXCEPT !.enforcement_model = "other"],
     [GoodBootstrap EXCEPT !.supported_artifact_profiles = {}],
     [GoodBootstrap EXCEPT !.supported_artifact_profiles = {"envelope"}],
     [GoodBootstrap EXCEPT !.supported_operations = {"protect"}]}

MCPolicyResponses == UNION {Variants(GoodPolicy(l), PolicyResponse) : l \in TargetLists}

MCPlanResponses ==
    UNION {{GoodPlan(t),
            [GoodPlan(t) EXCEPT !.allow = FALSE],
            [GoodPlan(t) EXCEPT !.protect_locally = FALSE],
            [GoodPlan(t) EXCEPT !.send_plaintext_to_platform = TRUE],
            [GoodPlan(t) EXCEPT !.plaintext_transport = "permitted"],
            [GoodPlan(t) EXCEPT !.key_transport = RawTransport("local_provided")]} :
           t \in Tenants}

MCKeyPlanResponses ==
    UNION {LET r == GoodKeyPlan(q[1], q[2], q[3]) IN
           {r, [r EXCEPT !.allow = FALSE],
               [r EXCEPT !.local_cryptographic_operation = FALSE],
               [r EXCEPT !.send_plaintext_to_platform = TRUE],
               [r EXCEPT !.key_transport.raw_key_delivery_forbidden = FALSE]} :
           q \in KeyAccessOperation \X ArtifactProfile
                 \X {"local_provided", "wrapped_key_reference", "kem_encapsulated_cek"}}

GoodBootstraps == {GoodBootstrap}
GoodPolicies == {GoodPolicy(l) : l \in TargetLists}
GoodPlans == {GoodPlan(t) : t \in Tenants}
InlineKeyPlans == {GoodKeyPlan("rewrap", "tdf", "local_provided")}
GoodRegistrations == {GoodRegistration}
GoodEvidences == {GoodEvidence}
GoodKeyPlans ==
    {GoodKeyPlan(o, p, m) : o \in KeyAccessOperation, p \in ArtifactProfile,
                            m \in {"absent", "wrapped_key_reference"}}

-----------------------------------------------------------------------------
\* Artifacts from earlier sessions, sealed under the inline key k1.
Old(desc, targets) ==
    SealEnvelope(InlineKey(k1), "old", m1, t1, Sha256(m1), desc, targets)

OldTdf(desc, targets, version) ==
    SealTdf(InlineKey(k1), "old", m1, t1, Sha256(m1), desc, targets, version)

\* A TDF from before artifacts carried a policy context.
Legacy(a) == [a EXCEPT !.policy_context = {}]

OneTarget == CHOOSE l \in TargetLists : TRUE
OpenDescription == [resource |-> "doc", attributes |-> [class |-> "open"]]

NoArtifacts == {}
OldEnvelopes == {Old(OpenDescription, OneTarget)}
OldTdfs == {OldTdf(OpenDescription, OneTarget, 1), Legacy(OldTdf(OpenDescription, OneTarget, 1))}
OldSignature == SignDetached(k1, t1, Sha256(m1), OpenDescription, OneTarget)
OldArtifacts == OldEnvelopes \cup OldTdfs \cup {OldSignature}
OldLatestTdf == {OldTdf(OpenDescription, OneTarget, MaxMetaVersion - 1)}

Symmetry == Permutations(Calls)

=============================================================================
