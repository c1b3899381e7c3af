\* Two concurrent calls on new envelopes and old TDFs, inline and managed keys,
\* rotation, lost and rejected records.
SPECIFICATION Spec
CONSTANTS
    c1 = c1  c2 = c2  c3 = c3
    m1 = m1  m2 = m2  t1 = t1  t2 = t2
    k1 = k1  k2 = k2  r1 = r1  r2 = r2
    MaxMetaVersion = 3
    Calls = {c1, c2}
    Tenants = {t1, t2}
    TargetLists = {"tenant"}
    Operations = {"protect_envelope", "access_envelope", "rewrap_envelope", "edit_tdf_attributes"}
    Contents = {m1}
    Descriptions <- OneDescription
    Edits <- MCEdits
    InlineKeys = {k1}
    ManagedRefs = {r1, r2}
    ProviderModes = {"wrapped_key_reference"}
    MaxRotations = 1
    InitialArtifacts <- OldTdfs
    DamageAtRest = FALSE
    BootstrapResponses <- GoodBootstraps
    PolicyResponses <- GoodPolicies
    PlanResponses <- GoodPlans
    KeyPlanResponses <- GoodKeyPlans
    RegistrationResponses <- RegistrationResponse
    EvidenceResponses <- EvidenceResponse
INVARIANTS
    SealedAsAuthorised
    CustodyRecorded
    EvidenceFollowsRegistration
    ReturnedArtifactsOpen
CHECK_DEADLOCK FALSE
