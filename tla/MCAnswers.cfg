\* One call of any operation, every kind of answer, damaged artifacts.
SPECIFICATION FairSpec
CONSTANTS
    c1 = c1  c2 = c2  c3 = c3
    m1 = m1  m2 = m2  t1 = t1  t2 = t2
    k1 = k1  k2 = k2  r1 = r1  r2 = r2
    MaxMetaVersion = 3
    Calls = {c1}
    Tenants = {t1, t2}
    TargetLists = {"tenant", "tenant+resource"}
    Operations = {"prepare", "protect_envelope", "access_envelope", "rewrap_envelope", "protect_tdf", "access_tdf", "rewrap_tdf", "set_tdf_attributes", "edit_tdf_attributes", "sign", "verify"}
    Contents = {m1}
    Descriptions <- MCDescriptions
    Edits <- MCEdits
    InlineKeys = {k1, k2}
    ManagedRefs = {r1}
    ProviderModes = {"wrapped_key_reference"}
    MaxRotations = 1
    InitialArtifacts <- OldArtifacts
    DamageAtRest = TRUE
    BootstrapResponses <- MCBootstrapResponses
    PolicyResponses <- MCPolicyResponses
    PlanResponses <- MCPlanResponses
    KeyPlanResponses <- MCKeyPlanResponses
    RegistrationResponses <- RegistrationResponse
    EvidenceResponses <- EvidenceResponse
INVARIANTS
    TypeOK
    ReleaseIsAuthorised
    DamageIsDetected
    FailsClosed
PROPERTIES
    CallsEnd
    ImplementsCustody
CHECK_DEADLOCK FALSE
