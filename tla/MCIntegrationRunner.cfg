\* The whole scenario, with three transport modes at every key access plan.
SPECIFICATION RunSpec
CONSTANTS
    t1 = t1
    m1 = m1
    MaxMetaVersion = 4
    Calls = {"prepare", "cid_binding", "sign", "verify", "protect_envelope", "protect_envelope_again", "access_envelope", "rewrap_envelope", "protect_tdf", "access_tdf", "rewrap_tdf"}
    Tenants = {t1}
    TargetLists = {"tenant"}
    Operations = {"prepare", "sign", "verify", "protect_envelope", "access_envelope", "rewrap_envelope", "protect_tdf", "access_tdf", "rewrap_tdf"}
    Contents = {m1}
    ManifestDescription <- Description1
    Descriptions <- DescriptionsOfTheRun
    Edits = {}
    InlineKeys = {"inline_key", "rewrap_key", "signing_key"}
    ManagedRefs = {"managed_key_reference", "managed_rewrap_key_reference"}
    ProviderModes = {"wrapped_key_reference"}
    MaxRotations = 1
    InitialArtifacts = {}
    DamageAtRest = FALSE
    BootstrapResponses <- Bootstraps
    PolicyResponses <- Policies
    PlanResponses <- Plans
    KeyPlanResponses <- KeyPlans
    RegistrationResponses <- Registrations
    EvidenceResponses <- Evidences
    VerifyingKey = "signing_key"
INVARIANTS
    RunTypeOK
    KeysFollowSealing
    OneArtifactPerStep
    RecordsAgree
    DiscoveredModeIsMet
    SummaryMeansDone
