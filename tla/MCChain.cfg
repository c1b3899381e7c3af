\* Chains of three rewraps and edits of one TDF, up to the saturated meta_version.
SPECIFICATION Spec
CONSTANTS
    c1 = c1  c2 = c2  c3 = c3
    m1 = m1  m2 = m2  t1 = t1  t2 = t2
    k1 = k1  k2 = k2  r1 = r1  r2 = r2
    MaxMetaVersion = 4
    Calls = {c1, c2, c3}
    Tenants = {t2}
    TargetLists = {"tenant"}
    Operations = {"rewrap_tdf", "set_tdf_attributes", "edit_tdf_attributes"}
    Contents = {m1}
    Descriptions <- OneDescription
    Edits <- MCEdits
    InlineKeys = {k1}
    ManagedRefs = {}
    ProviderModes = {"wrapped_key_reference"}
    MaxRotations = 0
    InitialArtifacts <- OldLatestTdf
    DamageAtRest = FALSE
    BootstrapResponses <- GoodBootstraps
    PolicyResponses <- GoodPolicies
    PlanResponses <- GoodPlans
    KeyPlanResponses <- InlineKeyPlans
    RegistrationResponses <- GoodRegistrations
    EvidenceResponses <- GoodEvidences
SYMMETRY Symmetry
INVARIANTS
    LineageKept
    MetaVersionNamesManifest
CHECK_DEADLOCK FALSE
