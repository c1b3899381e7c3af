---------------------- MODULE IntegrationRunnerProofs ----------------------
(***************************************************************************)
(* The integration run, for every platform, provider and artifact content: *)
(* its calls are calls of LocalWorkflow, so what is proved of those holds  *)
(* of the run; what the run adds is its position, the arguments of its     *)
(* calls and the records it makes by itself.                               *)
(***************************************************************************)
EXTENDS IntegrationRunner, LocalIntegrityProofs

-----------------------------------------------------------------------------
(***************************************************************************)
(* The inductive invariant.                                                *)
(***************************************************************************)

\* What is sealed is of the profile of the operation and named after its call, and of
\* new content what the caller gave; what a call returns is held.
SealedByCall(c) ==
    LET a == work[c].product IN
    /\ a.artifact_profile = Profile(job[c].op)
    /\ a.artifact_profile # "detached_signature" =>
          /\ Ciphertext(a).nonce = c
          /\ job[c].op \in Makers => Ciphertext(a).msg = work[c].plaintext

MadeOK(c) ==
    status[c] \in {"running", "returned"} =>
        /\ job[c].op \in Makers => work[c].plaintext \in Contents
        /\ Sealed(c) => SealedByCall(c)
        /\ Returned(c) /\ Sealed(c) => work[c].product \in held

MadeInv == \A c \in Calls : MadeOK(c)

\* Of the calls themselves.
CallsInv == TypeOK /\ KeptInv /\ TrustInv /\ MadeInv

\* The run goes on only from calls that returned.
BehindIsDone == \A s \in LibraryCalls : IndexOfStep(s) < position => Returned(CallOf(s))

\* The arguments of a call are those of its step, with what is known by now.
AsAsked ==
    \A s \in LibraryCalls :
        status[CallOf(s)] \in {"running", "returned"} => job[CallOf(s)] = Arguments(s)

SealingSteps == {"sign", "protect_envelope", "rewrap_envelope", "protect_tdf", "rewrap_tdf"}

Event(s) == IF s \in {"rewrap_envelope", "rewrap_tdf"} THEN "rewrap" ELSE "protect"

\* The one registration there can be of an artifact.
RecordOf(a) ==
    [operation        |-> IF a.artifact_profile = "detached_signature"
                          THEN "protect" ELSE Event(Ciphertext(a).nonce),
     artifact_profile |-> a.artifact_profile,
     digest           |-> Sha256(a),
     key_reference    |-> IF SealingKey(a).name \in ManagedRefs
                          THEN SealingKey(a).name
                          ELSE DefaultKeyReference(a.artifact_profile),
     about            |-> Description(a)]

RecordsMatch == \A r \in catalog : r = RecordOf(r.digest[2])

RecordsOf(s) ==
    {r \in catalog : r.operation = Event(s) /\ r.artifact_profile = Profile(s)}

OneRecord(s) ==
    /\ \A r, q \in RecordsOf(s) : r.digest = q.digest
    /\ status[CallOf(s)] = "idle" => RecordsOf(s) = {}
    /\ status[CallOf(s)] \in {"running", "returned"} =>
          \A r \in RecordsOf(s) : Sealed(CallOf(s)) /\ r.digest = Sha256(Result(s))

OneRecordEach ==
    /\ catalog = UNION {RecordsOf(s) : s \in SealingSteps}
    /\ \A s \in SealingSteps : OneRecord(s)

\* An error is that of the call the run stands at; a refusal of the inline key comes
\* before anything is sealed, and never while managed keys are in use.
ErrorExplained ==
    /\ outcome = "idle" => error = "none"
    /\ error # "none" /\ ~retried =>
          /\ position \in DOMAIN Scenario /\ Scenario[position] \in LibraryCalls
          /\ status[Scenario[position]] = "failed"
          /\ error = "wrapped_key_reference" /\ Scenario[position] = "protect_envelope" =>
                ~use_managed /\ RecordsOf("protect_envelope") = {}

\* Where the run stands, and what it has on record.
Placed == RunTypeOK /\ BehindIsDone /\ AsAsked

RecordsInv == RecordsMatch /\ OneRecordEach /\ ErrorExplained /\ DiscoveredModeIsMet

RunInv == CallsInv /\ Placed /\ RecordsInv

-----------------------------------------------------------------------------
(***************************************************************************)
(* The scenario.                                                           *)
(***************************************************************************)

LEMMA ScenarioSteps ==
    /\ Len(Scenario) = 19 /\ DOMAIN Scenario = 1..19
    /\ Scenario[1] = "capabilities" /\ Scenario[2] = "bootstrap" /\ Scenario[3] = "whoami"
    /\ Scenario[4] = "prepare" /\ Scenario[5] = "cid_binding"
    /\ Scenario[6] = "protection_plan" /\ Scenario[7] = "policy_resolve"
    /\ Scenario[8] = "tdf_key_plan" /\ Scenario[9] = "envelope_key_plan"
    /\ Scenario[10] = "sign" /\ Scenario[11] = "verify"
    /\ Scenario[12] = "protect_envelope" /\ Scenario[13] = "access_envelope"
    /\ Scenario[14] = "rewrap_envelope" /\ Scenario[15] = "protect_tdf"
    /\ Scenario[16] = "access_tdf" /\ Scenario[17] = "rewrap_tdf"
    /\ Scenario[18] = "register" /\ Scenario[19] = "evidence"
BY DEF Scenario

\* No step is taken twice.
LEMMA StepsDiffer ==
    ASSUME NEW i \in 1..19, NEW j \in 1..19, Scenario[i] = Scenario[j]
    PROVE  i = j
BY ScenarioSteps

LEMMA IndexIsPosition ==
    ASSUME NEW i \in 1..19
    PROVE  IndexOfStep(Scenario[i]) = i
BY ScenarioSteps, StepsDiffer DEF IndexOfStep

LEMMA CallsOfTheLibrary ==
    LibraryCalls = {"prepare", "cid_binding", "sign", "verify", "protect_envelope",
                    "access_envelope", "rewrap_envelope", "protect_tdf", "access_tdf",
                    "rewrap_tdf"}
BY ScenarioSteps DEF LibraryCalls, DirectRequests

LEMMA Indices ==
    /\ IndexOfStep("envelope_key_plan") = 9
    /\ IndexOfStep("prepare") = 4 /\ IndexOfStep("cid_binding") = 5
    /\ IndexOfStep("sign") = 10 /\ IndexOfStep("verify") = 11
    /\ IndexOfStep("protect_envelope") = 12 /\ IndexOfStep("access_envelope") = 13
    /\ IndexOfStep("rewrap_envelope") = 14 /\ IndexOfStep("protect_tdf") = 15
    /\ IndexOfStep("access_tdf") = 16 /\ IndexOfStep("rewrap_tdf") = 17
    /\ IndexOfStep("register") = 18 /\ IndexOfStep("evidence") = 19
BY ScenarioSteps, IndexIsPosition

\* Where the run stands.
LEMMA Standing ==
    ASSUME RunTypeOK, NEW s, At(s)
    PROVE  /\ position \in 1..19 /\ Scenario[position] = s /\ IndexOfStep(s) = position
           /\ outcome = "running"
<1>1. outcome = "running" /\ Scenario[position] = s
  BY DEF At
<1>2. position \in 1..20 /\ ~(position > 19)
  BY <1>1, ScenarioSteps DEF RunTypeOK
<1> QED BY <1>1, <1>2, IndexIsPosition

LEMMA CallNames ==
    ASSUME NEW s \in LibraryCalls
    PROVE  /\ CallOf(s) \in Calls /\ s \in Calls
           /\ "protect_envelope" \in Calls /\ "protect_envelope_again" \in Calls
           /\ "protect_envelope_again" \notin LibraryCalls
           /\ IndexOfStep(s) \in 1..19
<1>1. "protect_envelope" \in LibraryCalls
  BY CallsOfTheLibrary
<1>2. IndexOfStep(s) \in 1..19
  BY CallsOfTheLibrary, Indices
<1>3. "protect_envelope_again" \notin LibraryCalls
  BY CallsOfTheLibrary
<1> QED BY <1>1, <1>2, <1>3, RunnerAssumption DEF CallOf

\* Different steps make different calls.
LEMMA CallsDiffer ==
    ASSUME NEW s \in LibraryCalls, NEW t \in LibraryCalls, CallOf(s) = CallOf(t)
    PROVE  s = t
BY CallNames DEF CallOf

-----------------------------------------------------------------------------
(***************************************************************************)
(* The calls keep what they promise: those of LocalWorkflow, and that what *)
(* is sealed bears its call's name.                                        *)
(***************************************************************************)

LEMMA ProductNamed ==
    ASSUME NEW c, Profile(job[c].op) \in {"envelope", "tdf", "detached_signature"}
    PROVE  LET a == Product(c) IN
           /\ a.artifact_profile = Profile(job[c].op)
           /\ a.artifact_profile # "detached_signature" =>
                 Ciphertext(a).nonce = c /\ Ciphertext(a).msg = work[c].plaintext
<1>1. CASE Profile(job[c].op) = "envelope"
  BY <1>1 DEF Product, SealEnvelope, Ciphertext, Aes256Gcm
<1>2. CASE Profile(job[c].op) = "tdf"
  BY <1>2 DEF Product, SealTdf, Ciphertext, Aes256Gcm
<1>3. CASE Profile(job[c].op) = "detached_signature"
  BY <1>3 DEF Product, SignDetached
<1> QED BY <1>1, <1>2, <1>3

LEMMA MadeGoesOn ==
    ASSUME TypeOK, NEW c \in Calls, NEW step, NEW locals, Records(c, step, locals),
           Trusts(c, step, locals), MadeOK(c)
    PROVE  MadeOK(c)'
<1>1. /\ Goes(c, step, locals) /\ Proceed(c, locals)
      /\ job' = job /\ work'[c] = locals /\ at'[c] = at[c] + 1
      /\ at[c] \in 1..Len(Route(job[c])) /\ Route(job[c])[at[c]] = step
      /\ RecordRoute(job[c], Route(job[c])) /\ status[c] = "running"
      /\ job[c].op \in Makers => step # "open"
  BY MovedTrusting, MovedRecording DEF Goes
<1>2. job[c].op \in Makers => work'[c].plaintext = work[c].plaintext
  BY <1>1 DEF Trusts
<1>3. ASSUME Sealed(c)' PROVE SealedByCall(c)'
  <2>1. CASE step = "seal"
    <3>1. Profile(job[c].op) \in {"envelope", "tdf", "detached_signature"}
      BY <1>1, <2>1 DEF RecordRoute, KeyBeforeSeal
    <3>2. work'[c].product = Product(c)
      BY <1>1, <2>1 DEF Goes
    <3> QED BY <1>1, <1>2, <3>1, <3>2, ProductNamed DEF SealedByCall
  <2>2. CASE step # "seal"
    <3>1. work'[c].product = work[c].product
      BY <1>1, <2>2 DEF Goes
    <3>2. SealedByCall(c)
      BY <1>1, <1>3, <3>1 DEF MadeOK, Sealed
    <3> QED BY <1>1, <1>2, <3>1, <3>2 DEF SealedByCall
  <2> QED BY <2>1, <2>2
<1>4. ASSUME Returned(c)', Sealed(c)' PROVE work'[c].product \in held'
  <2>1. LastStep(c)
    BY <1>1, <1>4 DEF Returned, Proceed, TypeOK, CallsTyped
  <2>2. locals.product # NoArtifact
    BY <1>1, <1>4 DEF Sealed
  <2> QED BY <1>1, <2>1, <2>2 DEF Proceed
<1> QED BY <1>1, <1>2, <1>3, <1>4 DEF MadeOK

\* A call that a step does not touch.
LEMMA OtherMade ==
    ASSUME NEW d, MadeOK(d), held \subseteq held',
           UNCHANGED <<status[d], job[d], at[d], work[d]>>
    PROVE  MadeOK(d)'
BY DEF MadeOK, Sealed, SealedByCall, Returned

LEMMA OthersMade ==
    ASSUME TypeOK, MadeInv, NEW c \in Calls, MadeOK(c)',
           Fail(c) \/ (\E j, locals : Begin(c, j, locals)) \/ (\E locals : Proceed(c, locals))
    PROVE  MadeInv'
<1>1. held \subseteq held'
  BY DEF Fail, Begin, Proceed
<1>2. ASSUME NEW d \in Calls \ {c} PROVE MadeOK(d)'
  BY <1>1, OthersUntouched, OtherMade DEF MadeInv
<1> QED BY <1>2 DEF MadeInv

LEMMA FailMade ==
    ASSUME TypeOK, MadeInv, NEW c \in Calls, Fail(c)
    PROVE  MadeInv'
<1>1. status'[c] = "failed"
  BY DEF Fail, TypeOK, CallsTyped
<1>2. MadeOK(c)'
  BY <1>1 DEF MadeOK
<1> QED BY <1>2, OthersMade

LEMMA BeginMade ==
    ASSUME TypeOK, MadeInv, NEW c \in Calls, NEW j, NEW locals, Begin(c, j, locals),
           locals.product = NoArtifact, j.op \in Makers => locals.plaintext \in Contents
    PROVE  MadeInv'
<1>1. job'[c] = j /\ work'[c] = locals
  BY DEF Begin, TypeOK, CallsTyped
<1>2. MadeOK(c)'
  BY <1>1 DEF MadeOK, Sealed
<1> QED BY <1>2, OthersMade

LEMMA BeginCallMade ==
    ASSUME TypeOK, MadeInv, NEW c \in Calls, BeginCall(c)
    PROVE  MadeInv'
<1>1. CASE BeginMaking(c)
  <2>1. PICK op \in Operations \cap Makers, content \in Contents, desc \in Descriptions,
             key \in KeySource :
          Begin(c, [op |-> op, new |-> key],
                [NoWork EXCEPT !.desc = desc, !.digest = Sha256(content), !.plaintext = content])
    BY <1>1 DEF BeginMaking
  <2> DEFINE j == [op |-> op, new |-> key]
             digest == Sha256(content)
             locals == [NoWork EXCEPT !.desc = desc, !.digest = digest, !.plaintext = content]
  <2>2. locals.product = NoArtifact /\ locals.plaintext = content
    <3> HIDE DEF digest
    <3> QED BY DEF NoWork
  <2>3. Begin(c, j, locals)
    BY <2>1
  <2> HIDE DEF j, locals
  <2> QED BY <2>2, <2>3, BeginMade
<1>2. CASE BeginReading(c)
  <2>1. PICK op \in Operations \cap Readers, a \in Stored, key \in KeySource :
          \E content : Begin(c, [op |-> op, source |-> a, current |-> key],
                             [OpeningLocals(a) EXCEPT !.plaintext = content])
    BY <1>2 DEF BeginReading
  <2>2. PICK content : Begin(c, [op |-> op, source |-> a, current |-> key],
                             [OpeningLocals(a) EXCEPT !.plaintext = content])
    BY <2>1
  <2> DEFINE j == [op |-> op, source |-> a, current |-> key]
             locals == [OpeningLocals(a) EXCEPT !.plaintext = content]
  <2>3. j.op \notin Makers /\ locals.product = NoArtifact /\ Begin(c, j, locals)
    BY <2>2, OperationKinds, OpeningFields
  <2> HIDE DEF j, locals
  <2> QED BY <2>3, BeginMade
<1>3. CASE BeginRewriting(c)
  <2>1. PICK op \in Operations \cap Rewriters, a \in Stored, current \in KeySource :
          \E new, edit : Begin(c, [op |-> op, source |-> a, current |-> current,
                                   new |-> new, edit |-> edit], OpeningLocals(a))
    BY <1>3 DEF BeginRewriting
  <2>2. PICK new, edit : Begin(c, [op |-> op, source |-> a, current |-> current,
                                   new |-> new, edit |-> edit], OpeningLocals(a))
    BY <2>1
  <2> DEFINE j == [op |-> op, source |-> a, current |-> current, new |-> new, edit |-> edit]
             locals == OpeningLocals(a)
  <2>3. j.op \notin Makers /\ locals.product = NoArtifact /\ Begin(c, j, locals)
    BY <2>2, OperationKinds, OpeningFields
  <2> HIDE DEF j, locals
  <2> QED BY <2>3, BeginMade
<1>4. CASE RejectSource(c)
  BY <1>4, FailMade DEF RejectSource
<1> QED BY <1>1, <1>2, <1>3, <1>4 DEF BeginCall

LEMMA CallMade ==
    ASSUME TypeOK, MadeInv, NEW c \in Calls, AskPlatform(c) \/ ComputeLocally(c)
    PROVE  MadeInv'
<1>1. CASE Fail(c)
  BY <1>1, FailMade
<1>2. CASE ~Fail(c)
  <2>1. PICK step, locals : Goes(c, step, locals)
    BY <1>2, AskPlatformGoesOn, ComputeLocallyGoesOn DEF GoesOn
  <2>2. Trusts(c, step, locals) /\ Records(c, step, locals) /\ Proceed(c, locals)
    BY <2>1, AskPlatformTrusts, ComputeLocallyTrusts, AskPlatformRecords,
       ComputeLocallyRecords DEF Goes
  <2>3. MadeOK(c)'
    BY <2>2, MadeGoesOn DEF MadeInv
  <2> QED BY <2>2, <2>3, OthersMade
<1> QED BY <1>1, <1>2

LEMMA CallsStep == CallsInv /\ [Next]_vars => CallsInv'
<1> SUFFICES ASSUME CallsInv, [Next]_vars PROVE CallsInv'
  OBVIOUS
<1>1. TypeOK' /\ KeptInv' /\ TrustInv'
  BY TypeStep, KeptStep, TrustStep DEF CallsInv
<1>2. ASSUME UNCHANGED callVars PROVE MadeInv'
  <2>1. ASSUME NEW c \in Calls PROVE MadeOK(c)'
    BY <1>2, OtherMade DEF callVars, CallsInv, MadeInv
  <2> QED BY <2>1 DEF MadeInv
<1>3. ASSUME NEW c \in Calls, ConnectionFails(c) PROVE MadeInv'
  BY <1>3, FailMade DEF ConnectionFails, CallsInv
<1>4. ASSUME NEW c \in Calls, BeginCall(c) \/ AskPlatform(c) \/ ComputeLocally(c)
      PROVE  MadeInv'
  BY <1>4, BeginCallMade, CallMade DEF CallsInv
<1>5. ASSUME NEW ref \in ManagedRefs, RotateKey(ref) PROVE MadeInv'
  BY <1>2, <1>5 DEF RotateKey
<1>6. CASE UNCHANGED vars
  BY <1>1, <1>2, <1>6 DEF vars, callVars, CallsInv
<1> QED BY <1>1, <1>3, <1>4, <1>5, <1>6 DEF Next, CallsInv

\* The runner's own requests add to the platform's records and do nothing to the calls.
Direct ==
    /\ UNCHANGED <<callVars, keystore, grants, objected>>
    /\ catalog \subseteq catalog' /\ ledger \subseteq ledger'

LEMMA DirectKeepsCalls == CallsInv /\ Direct => CallsInv'
<1> SUFFICES ASSUME CallsInv, Direct PROVE CallsInv'
  OBVIOUS
<1>1. /\ UNCHANGED <<status, job, at, work, held, keystore, grants, objected>>
      /\ catalog \subseteq catalog' /\ ledger \subseteq ledger'
  BY DEF Direct, callVars
<1>2. CallsTyped'
  BY <1>1, OtherCallOK DEF CallsInv, TypeOK, CallsTyped
<1>3. PlatformTyped'
  BY <1>1 DEF CallsInv, TypeOK, PlatformTyped
<1>4. KeptInv'
  <2>1. CustodyRecorded'
    BY <1>1, RecordedForGood DEF CallsInv, KeptInv
  <2>2. ASSUME NEW c \in Calls PROVE KeptOK(c)'
    BY <1>1, OtherKept DEF CallsInv, KeptInv
  <2> QED BY <2>1, <2>2 DEF KeptInv
<1>5. TrustInv'
  <2>1. ASSUME NEW c \in Calls PROVE TrustOK(c)'
    BY <1>1, OtherTrusted DEF CallsInv, TrustInv
  <2> QED BY <1>1, <2>1 DEF CallsInv, TrustInv
<1>6. MadeInv'
  <2>1. ASSUME NEW c \in Calls PROVE MadeOK(c)'
    BY <1>1, OtherMade DEF CallsInv, MadeInv
  <2> QED BY <2>1 DEF MadeInv
<1> QED BY <1>2, <1>3, <1>4, <1>5, <1>6 DEF CallsInv, TypeOK

LEMMA CallsInit == Init => CallsInv
<1>1. Init => KeptInv
  BY DEF Init, KeptInv, CustodyRecorded, KeptOK
<1>2. Init => MadeInv
  BY DEF Init, MadeInv, MadeOK
<1> QED BY <1>1, <1>2, TypeInit, TrustInit DEF CallsInv

-----------------------------------------------------------------------------
(***************************************************************************)
(* The steps of the run.                                                   *)
(***************************************************************************)

\* The runner looks at an answer, at a result or at an error, or a key rotates.
Onlooking ==
    /\ UNCHANGED <<callVars, platformVars>>
    /\ \/ Start \/ AskForMode \/ Over
       \/ \E s \in DirectRequests \ {"envelope_key_plan", "register", "evidence"} : AskOnly(s)
       \/ \E s \in LibraryCalls : Continue(s) \/ GiveUp(s)
       \/ UNCHANGED runnerVars

LEMMA RunSteps ==
    ASSUME [RunNext]_<<vars, runnerVars>>
    PROVE  \/ Onlooking \/ RegisterDirectly \/ AttestDirectly
           \/ \E s \in LibraryCalls : Call(s) \/ Work(s) \/ Retry(s)
<1>1. CASE UNCHANGED <<vars, runnerVars>>
  BY <1>1 DEF Onlooking, vars, callVars, platformVars
<1>2. CASE Start \/ AskForMode \/ Over
  BY <1>2 DEF Onlooking, Start, AskForMode, Over, vars, callVars, platformVars
<1>3. ASSUME NEW s \in DirectRequests \ {"envelope_key_plan", "register", "evidence"}, AskOnly(s)
      PROVE  Onlooking
  BY <1>3 DEF Onlooking, AskOnly, vars, callVars, platformVars
<1>4. ASSUME NEW s \in LibraryCalls, Continue(s) \/ GiveUp(s)
      PROVE  Onlooking
  BY <1>4 DEF Onlooking, Continue, GiveUp, vars, callVars, platformVars
<1>5. ASSUME NEW ref \in ManagedRefs, RotateKey(ref), UNCHANGED runnerVars
      PROVE  Onlooking
  BY <1>5 DEF Onlooking, RotateKey
<1> QED BY <1>1, <1>2, <1>3, <1>4, <1>5 DEF RunNext

\* Every step of the run is one of the calls, or only adds to the records.
LEMMA RunStepsAreSteps ==
    ASSUME [RunNext]_<<vars, runnerVars>>
    PROVE  [Next]_vars \/ Direct
<1>1. CASE UNCHANGED <<vars, runnerVars>>
  BY <1>1
<1>2. CASE Start \/ AskForMode \/ Over
  BY <1>2 DEF Start, AskForMode, Over
<1>3. ASSUME NEW s, AskOnly(s) \/ Continue(s) \/ GiveUp(s) PROVE [Next]_vars
  BY <1>3 DEF AskOnly, Continue, GiveUp
<1>4. CASE RegisterDirectly \/ AttestDirectly
  BY <1>4 DEF RegisterDirectly, AttestDirectly, Direct
<1>5. ASSUME NEW s \in LibraryCalls, Call(s) \/ Work(s) \/ Retry(s) PROVE Next
  <2>1. CallOf(s) \in Calls /\ "protect_envelope_again" \in Calls
    BY CallNames
  <2>2. CASE Call(s)
    BY <2>1, <2>2 DEF Call, Next, BeginCall
  <2>3. CASE Work(s)
    <3>1. AskPlatform(CallOf(s)) \/ ComputeLocally(CallOf(s)) \/ ConnectionFails(CallOf(s))
      BY <2>3 DEF Work
    <3> QED BY <2>1, <3>1 DEF Next
  <2>4. CASE Retry(s)
    BY <2>1, <2>4 DEF Retry, Next, BeginCall
  <2> QED BY <1>5, <2>2, <2>3, <2>4
<1>6. ASSUME NEW ref \in ManagedRefs, RotateKey(ref) PROVE Next
  BY <1>6 DEF Next
<1> QED BY <1>1, <1>2, <1>3, <1>4, <1>5, <1>6 DEF RunNext

LEMMA CallsAlong == CallsInv /\ [RunNext]_<<vars, runnerVars>> => CallsInv'
BY RunStepsAreSteps, CallsStep, DirectKeepsCalls

-----------------------------------------------------------------------------
(***************************************************************************)
(* Positions and arguments.                                                *)
(***************************************************************************)

LEMMA StepAtIndex ==
    ASSUME NEW s \in LibraryCalls, NEW i \in 1..19, IndexOfStep(s) = i
    PROVE  s = Scenario[i]
BY CallsOfTheLibrary, Indices, ScenarioSteps

\* What the arguments of a step depend on: the mode that was found, for the steps that
\* use the envelope key, and the results of the steps before it.
LEMMA ArgumentsKept ==
    ASSUME NEW s \in LibraryCalls, UNCHANGED retried,
           use_managed' = use_managed \/ IndexOfStep(s) < IndexOfStep("protect_envelope"),
           \A t \in LibraryCalls : IndexOfStep(t) < IndexOfStep(s) =>
               work'[CallOf(t)] = work[CallOf(t)]
    PROVE  Arguments(s)' = Arguments(s)
<1>1. \A t : CallOf(t)' = CallOf(t)
  BY DEF CallOf
<1>2. \A t \in LibraryCalls : IndexOfStep(t) < IndexOfStep(s) => Result(t)' = Result(t)
  BY <1>1 DEF Result
<1>3. CASE s = "prepare" \/ s = "cid_binding"
  BY <1>3 DEF Arguments, Make
<1>4. CASE s = "sign"
  BY <1>4 DEF Arguments, Make
<1>5. CASE s = "verify"
  <2>1. Result("sign")' = Result("sign")
    BY <1>2, <1>5, CallsOfTheLibrary, Indices
  <2> QED BY <1>5, <2>1 DEF Arguments, Read
<1>6. CASE s \in {"protect_envelope", "access_envelope", "rewrap_envelope"}
  <2>1. EnvelopeKey' = EnvelopeKey /\ EnvelopeRewrapKey' = EnvelopeRewrapKey
    BY <1>6, Indices DEF EnvelopeKey, EnvelopeRewrapKey
  <2>2. s # "protect_envelope" => Result("protect_envelope")' = Result("protect_envelope")
    BY <1>2, <1>6, CallsOfTheLibrary, Indices
  <2> QED BY <1>6, <2>1, <2>2 DEF Arguments, Make, Read, Rewrap
<1>7. CASE s = "protect_tdf"
  BY <1>7 DEF Arguments, Make
<1>8. CASE s \in {"access_tdf", "rewrap_tdf"}
  <2>1. Result("protect_tdf")' = Result("protect_tdf")
    BY <1>2, <1>8, CallsOfTheLibrary, Indices
  <2> QED BY <1>8, <2>1 DEF Arguments, Read, Rewrap
<1> QED BY <1>3, <1>4, <1>5, <1>6, <1>7, <1>8, CallsOfTheLibrary

\* Calls that have begun are not ahead of the run.
LEMMA BegunIsNotAhead ==
    ASSUME RunTypeOK, NEW s \in LibraryCalls, status[CallOf(s)] # "idle"
    PROVE  IndexOfStep(s) <= position
BY CallNames DEF RunTypeOK

\* The run goes on.
LEMMA AdvanceKeepsPlace ==
    ASSUME Placed, UNCHANGED callVars, position \in 1..19, outcome = "running", Advance,
           UNCHANGED <<retried, error>>, use_managed' \in BOOLEAN,
           use_managed' = use_managed \/ position < IndexOfStep("protect_envelope"),
           Scenario[position] \in LibraryCalls => Returned(CallOf(Scenario[position]))
    PROVE  Placed'
<1>1. /\ UNCHANGED <<status, job, work>> /\ position' = position + 1
      /\ \A t : CallOf(t)' = CallOf(t)
  BY DEF callVars, Advance, CallOf
<1>2. RunTypeOK'
  <2>1. /\ position' \in 1..20 /\ (outcome' = "ok" <=> position' > 19)
        /\ outcome' \in {"idle", "running", "ok", "failed"}
    BY <1>1, ScenarioSteps DEF Advance
  <2>2. ASSUME NEW t \in LibraryCalls, IndexOfStep(t) > position' PROVE status[CallOf(t)] = "idle"
    <3>1. IndexOfStep(t) \in 1..19 /\ IndexOfStep(t) > position + 1
      BY <1>1, <2>2, CallNames
    <3>2. IndexOfStep(t) > position
      BY <3>1
    <3> QED BY <2>2, <3>2, Zenon DEF Placed, RunTypeOK
  <2> QED BY <1>1, <2>1, <2>2, ScenarioSteps DEF Placed, RunTypeOK
<1>3. BehindIsDone'
  <2> SUFFICES ASSUME NEW t \in LibraryCalls, IndexOfStep(t) < position'
               PROVE  Returned(CallOf(t))
    BY <1>1 DEF BehindIsDone, Returned
  <2>1. CASE IndexOfStep(t) = position
    BY <2>1, StepAtIndex
  <2>2. CASE IndexOfStep(t) < position
    BY <2>2 DEF Placed, BehindIsDone
  <2> QED BY <1>1, <2>1, <2>2, CallNames
<1>4. AsAsked'
  <2> SUFFICES ASSUME NEW t \in LibraryCalls, status[CallOf(t)] \in {"running", "returned"}
               PROVE  job[CallOf(t)] = Arguments(t)'
    BY <1>1 DEF AsAsked
  <2>1. IndexOfStep(t) <= position
    BY BegunIsNotAhead DEF Placed
  <2>2. Arguments(t)' = Arguments(t)
    BY <1>1, <2>1, CallNames, Indices, ArgumentsKept
  <2> QED BY <2>2 DEF Placed, AsAsked
<1> QED BY <1>2, <1>3, <1>4 DEF Placed

\* The run starts or stops where it stands.
LEMMA HaltKeepsPlace ==
    ASSUME Placed, UNCHANGED callVars, outcome # "ok", outcome' \in {"running", "failed"},
           UNCHANGED <<position, use_managed, retried, error>>
    PROVE  Placed'
<1>1. /\ UNCHANGED <<status, job, work>>
      /\ \A t : CallOf(t)' = CallOf(t)
  BY DEF callVars, CallOf
<1>2. RunTypeOK'
  BY <1>1 DEF Placed, RunTypeOK
<1>3. BehindIsDone'
  BY <1>1 DEF Placed, BehindIsDone, Returned
<1>4. AsAsked'
  BY <1>1, ArgumentsKept DEF Placed, AsAsked
<1> QED BY <1>2, <1>3, <1>4 DEF Placed

\* One call begins or moves.
LEMMA MoveKeepsPlace ==
    ASSUME Placed, NEW s \in LibraryCalls, At(s),
           status[CallOf(s)] \in {"idle", "running"},
           \A d \in Calls \ {CallOf(s)} : UNCHANGED <<status[d], job[d], work[d]>>,
           status'[CallOf(s)] \in {"running", "returned"} => job'[CallOf(s)] = Arguments(s),
           UNCHANGED <<outcome, position, use_managed, retried>>,
           error' \in {"none", "other", "absent"} \cup KeyTransportMode
    PROVE  Placed'
<1> DEFINE c == CallOf(s)
<1>1. \A t : CallOf(t)' = CallOf(t)
  BY DEF CallOf
<1>2. \A t \in LibraryCalls \ {s} :
          /\ status'[CallOf(t)] = status[CallOf(t)]
          /\ job'[CallOf(t)] = job[CallOf(t)] /\ work'[CallOf(t)] = work[CallOf(t)]
  BY CallNames, CallsDiffer
<1>3. IndexOfStep(s) = position
  BY Standing DEF Placed
<1>4. RunTypeOK'
  <2>1. retried => status'["protect_envelope"] = "failed"
    <3>1. retried => status["protect_envelope"] = "failed" /\ c # "protect_envelope"
      BY DEF Placed, RunTypeOK
    <3> QED BY <3>1, CallNames
  <2>2. ~retried => status'["protect_envelope_again"] = "idle"
    <3>1. ~retried => c # "protect_envelope_again"
      BY CallNames DEF CallOf
    <3> QED BY <3>1, CallNames DEF Placed, RunTypeOK
  <2>3. ASSUME NEW t \in LibraryCalls, IndexOfStep(t) > position
        PROVE  status'[CallOf(t)] = "idle"
    BY <1>2, <1>3, <2>3, CallNames DEF Placed, RunTypeOK
  <2> QED BY <1>1, <2>1, <2>2, <2>3 DEF Placed, RunTypeOK
<1>5. BehindIsDone'
  <2> SUFFICES ASSUME NEW t \in LibraryCalls, IndexOfStep(t) < position
               PROVE  status'[CallOf(t)] = "returned"
    BY <1>1 DEF BehindIsDone, Returned
  <2> QED BY <1>2, <1>3, CallNames DEF Placed, BehindIsDone, Returned
<1>6. AsAsked'
  <2> SUFFICES ASSUME NEW t \in LibraryCalls, status'[CallOf(t)] \in {"running", "returned"}
               PROVE  job'[CallOf(t)] = Arguments(t)'
    BY <1>1 DEF AsAsked
  <2>1. IndexOfStep(t) <= position
    BY <1>2, <1>3, CallNames, BegunIsNotAhead DEF Placed
  <2>2. Arguments(t)' = Arguments(t)
    BY <1>2, <1>3, <2>1, CallNames, ArgumentsKept
  <2>3. CASE t = s
    BY <2>2, <2>3
  <2>4. CASE t # s
    BY <1>2, <2>2, <2>4 DEF Placed, AsAsked
  <2> QED BY <2>3, <2>4
<1> QED BY <1>4, <1>5, <1>6 DEF Placed

\* The protection is called again, with the managed key.
LEMMA RetryKeepsPlace ==
    ASSUME TypeOK, Placed, NEW s \in LibraryCalls, Retry(s)
    PROVE  Placed'
<1> DEFINE c == "protect_envelope_again"
<1>1. /\ s = "protect_envelope" /\ ~retried /\ status["protect_envelope"] = "failed"
      /\ retried' = TRUE /\ use_managed' = TRUE /\ UNCHANGED <<outcome, position, error>>
      /\ job'[c] = SecondArguments /\ At("protect_envelope")
  BY DEF Retry, Retryable, UseManagedFromNowOn, CallOf
<1>2. PICK j, locals : Begin(c, j, locals)
  BY DEF Retry, BeginMaking
<1>3. /\ "protect_envelope" \in Calls /\ c \in Calls /\ position = 12
      /\ \A t \in LibraryCalls : t # c /\ t \in Calls /\ IndexOfStep(t) \in 1..19
  BY <1>1, CallNames, Standing, Indices DEF Placed
<1>4. \A d \in Calls \ {c} : UNCHANGED <<status[d], job[d], at[d], work[d]>>
  BY <1>2, <1>3, OthersUntouched
<1>5. /\ \A t \in LibraryCalls : CallOf(t) = t
      /\ \A t \in LibraryCalls \ {"protect_envelope"} : CallOf(t)' = t
      /\ CallOf("protect_envelope")' = c
  BY <1>1 DEF CallOf
<1>6. RunTypeOK'
  <2>1. ASSUME NEW t \in LibraryCalls, IndexOfStep(t) > position
        PROVE  status'[CallOf(t)'] = "idle"
    BY <1>3, <1>4, <1>5, <2>1, Indices DEF Placed, RunTypeOK
  <2> QED BY <1>1, <1>3, <1>4, <2>1 DEF Placed, RunTypeOK
<1>7. BehindIsDone'
  <2> SUFFICES ASSUME NEW t \in LibraryCalls, IndexOfStep(t) < position
               PROVE  status'[CallOf(t)'] = "returned"
    BY <1>1 DEF BehindIsDone, Returned
  <2> QED BY <1>3, <1>4, <1>5, Indices DEF Placed, BehindIsDone, Returned
<1>8. AsAsked'
  <2> SUFFICES ASSUME NEW t \in LibraryCalls, status'[CallOf(t)'] \in {"running", "returned"}
               PROVE  job'[CallOf(t)'] = Arguments(t)'
    BY DEF AsAsked
  <2>1. CASE t = "protect_envelope"
    <3>1. Arguments("protect_envelope")' = SecondArguments
      BY <1>1 DEF Arguments, EnvelopeKey, SecondArguments, Make
    <3> QED BY <1>1, <1>5, <2>1, <3>1
  <2>2. CASE t # "protect_envelope"
    <3>1. IndexOfStep(t) < 12
      <4>1. IndexOfStep(t) <= position
        BY <1>3, <1>4, <1>5, <2>2, BegunIsNotAhead DEF Placed
      <4> QED BY <1>3, <2>2, <4>1, StepAtIndex, ScenarioSteps
    <3>2. t \in {"prepare", "cid_binding", "sign", "verify"}
      BY <3>1, CallsOfTheLibrary, Indices
    <3>3. job[t] = Arguments(t)
      BY <1>3, <1>4, <1>5, <2>2 DEF Placed, AsAsked
    <3>4. work'["sign"] = work["sign"]
      BY <1>3, <1>4, CallsOfTheLibrary
    <3>5. Arguments(t)' = Arguments(t)
      <4>1. Result("sign")' = Result("sign")
        BY <1>5, <3>4, CallsOfTheLibrary DEF Result
      <4> QED BY <3>2, <4>1 DEF Arguments, Make, Read
    <3> QED BY <1>3, <1>4, <1>5, <2>2, <3>3, <3>5
  <2> QED BY <2>1, <2>2
<1> QED BY <1>6, <1>7, <1>8 DEF Placed

\* What a call of the run does.
LEMMA WorkMoves ==
    ASSUME TypeOK, NEW s \in LibraryCalls, Work(s)
    PROVE  LET c == CallOf(s) IN
           /\ c \in Calls /\ status[c] = "running" /\ At(s)
           /\ \A d \in Calls \ {c} : UNCHANGED <<status[d], job[d], at[d], work[d]>>
           /\ \/ Fail(c) /\ status'[c] = "failed"
              \/ /\ \E step, locals : Goes(c, step, locals)
                 /\ AskPlatform(c) \/ ComputeLocally(c)
                 /\ status'[c] \in {"running", "returned"} /\ job' = job /\ error' = error
           /\ UNCHANGED <<outcome, position, use_managed, retried>>
           /\ error' = IF status'[c] = "failed" THEN ErrorOf(c) ELSE error
<1> DEFINE c == CallOf(s)
<1>1. c \in Calls
  BY CallNames
<1>2. /\ AskPlatform(c) \/ ComputeLocally(c) \/ ConnectionFails(c)
      /\ At(s) /\ UNCHANGED <<outcome, position, use_managed, retried>>
      /\ error' = IF status'[c] = "failed" THEN ErrorOf(c) ELSE error
  BY DEF Work
<1>3. \/ Fail(c)
      \/ (AskPlatform(c) \/ ComputeLocally(c)) /\ \E step, locals : Goes(c, step, locals)
  <2>1. CASE ConnectionFails(c)
    BY <2>1 DEF ConnectionFails
  <2>2. CASE AskPlatform(c) \/ ComputeLocally(c)
    BY <1>1, <2>2, AskPlatformGoesOn, ComputeLocallyGoesOn DEF GoesOn
  <2> QED BY <1>2, <2>1, <2>2
<1>4. status[c] = "running"
  BY <1>2 DEF AskPlatform, Bootstrap, PolicyResolve, ProtectionPlan, KeyAccessPlan, Register,
     Evidence, ComputeLocally, ResolveCurrentKey, ResolveNewKey, ProviderFails, OpenManifest,
     OpenContent, Seal, Verify, ConnectionFails, Running
<1>5. Fail(c) => status'[c] = "failed"
  BY <1>1 DEF Fail, TypeOK, CallsTyped
<1>6. ASSUME NEW step, NEW locals, Goes(c, step, locals)
      PROVE  status'[c] \in {"running", "returned"} /\ job' = job
  BY <1>1, <1>6 DEF Goes, Proceed, TypeOK, CallsTyped
<1>7. ASSUME NEW d \in Calls \ {c} PROVE UNCHANGED <<status[d], job[d], at[d], work[d]>>
  BY <1>1, <1>3, OthersUntouched DEF Goes
<1> QED BY <1>1, <1>2, <1>3, <1>4, <1>5, <1>6, <1>7

LEMMA CallBegins ==
    ASSUME TypeOK, NEW s \in LibraryCalls, Call(s)
    PROVE  LET c == CallOf(s) IN
           /\ c \in Calls /\ status[c] = "idle" /\ status'[c] = "running" /\ At(s)
           /\ \A d \in Calls \ {c} : UNCHANGED <<status[d], job[d], at[d], work[d]>>
           /\ job'[c] = Arguments(s) /\ ~Sealed(c)'
           /\ UNCHANGED runnerVars /\ UNCHANGED <<catalog, held>>
<1> DEFINE c == CallOf(s)
<1>1. c \in Calls
  BY CallNames
<1>2. /\ BeginMaking(c) \/ BeginReading(c) \/ BeginRewriting(c)
      /\ At(s) /\ job'[c] = Arguments(s) /\ UNCHANGED runnerVars
  BY DEF Call
<1>3. BeginCall(c)
  BY <1>2 DEF BeginCall
<1>4. ~Fail(c)
  <2>1. \E j, locals : Begin(c, j, locals)
    BY <1>2 DEF BeginMaking, BeginReading, BeginRewriting
  <2>2. status'[c] = "running"
    BY <1>1, <2>1 DEF Begin, TypeOK, CallsTyped
  <2> QED BY <1>1, <2>2 DEF Fail, TypeOK, CallsTyped
<1>5. PICK j, locals : Begin(c, j, locals) /\ locals.product = NoArtifact
  BY <1>1, <1>3, <1>4, BeginsUnsealed
<1>6. /\ status[c] = "idle" /\ status'[c] = "running" /\ work'[c] = locals
      /\ UNCHANGED <<catalog, held>>
  BY <1>1, <1>5 DEF Begin, TypeOK, CallsTyped, platformVars
<1>7. ASSUME NEW d \in Calls \ {c} PROVE UNCHANGED <<status[d], job[d], at[d], work[d]>>
  BY <1>1, <1>5, OthersUntouched
<1>8. ~Sealed(c)'
  <2>1. CallOf(s)' = CallOf(s)
    BY <1>2 DEF runnerVars, CallOf
  <2> QED BY <1>5, <1>6, <2>1 DEF Sealed
<1> QED BY <1>1, <1>2, <1>6, <1>7, <1>8

LEMMA ErrorTyped ==
    ASSUME TypeOK, NEW c \in Calls
    PROVE  ErrorOf(c) \in {"none", "other", "absent"} \cup KeyTransportMode
BY DEF ErrorOf, TypeOK, CallsTyped, CallOK, WorkOK

LEMMA OnlookingKeepsPlace ==
    ASSUME Placed, Onlooking
    PROVE  Placed'
<1>0. UNCHANGED callVars /\ RunTypeOK
  BY DEF Onlooking, Placed
<1>1. CASE Start
  BY <1>0, <1>1, HaltKeepsPlace DEF Start
<1>2. ASSUME NEW s, At(s), Advance \/ Stop, UNCHANGED <<retried, error>>,
             s \in LibraryCalls => Returned(CallOf(s)) \/ Stop,
             use_managed' = use_managed \/ (s = "envelope_key_plan" /\ Advance),
             use_managed' \in BOOLEAN
      PROVE  Placed'
  <2>1. position \in 1..19 /\ Scenario[position] = s /\ IndexOfStep(s) = position
    BY <1>0, <1>2, Standing
  <2>2. outcome = "running"
    BY <1>2 DEF At
  <2>3. CASE Advance /\ ~Stop
    BY <1>0, <1>2, <2>1, <2>2, <2>3, Indices, AdvanceKeepsPlace
  <2>4. CASE Stop
    <3>1. ~Advance
      BY <2>1, <2>4 DEF Stop, Advance
    <3> QED BY <1>0, <1>2, <2>2, <2>4, <3>1, HaltKeepsPlace DEF Stop
  <2> QED BY <1>2, <2>3, <2>4
<1>3. CASE AskForMode
  <2>1. "envelope_key_plan" \notin LibraryCalls
    BY CallsOfTheLibrary
  <2>2. use_managed' \in BOOLEAN
    BY <1>0, <1>3 DEF AskForMode, UsesManaged, RunTypeOK
  <2> QED BY <1>2, <1>3, <2>1, <2>2 DEF AskForMode
<1>4. ASSUME NEW s \in DirectRequests, AskOnly(s) PROVE Placed'
  <2>1. s \notin LibraryCalls
    BY DEF LibraryCalls
  <2> QED BY <1>0, <1>2, <1>4, <2>1 DEF AskOnly, RunTypeOK
<1>5. ASSUME NEW s \in LibraryCalls, Continue(s) \/ GiveUp(s) PROVE Placed'
  BY <1>0, <1>2, <1>5 DEF Continue, GiveUp, Succeeded, Returned, RunTypeOK
<1>6. CASE Over \/ UNCHANGED runnerVars
  <2>1. UNCHANGED runnerVars
    BY <1>6 DEF Over
  <2>2. \A t : CallOf(t)' = CallOf(t)
    BY <2>1 DEF runnerVars, CallOf
  <2>3. AsAsked'
    BY <1>0, <2>1, <2>2, ArgumentsKept DEF runnerVars, callVars, Placed, AsAsked
  <2>4. RunTypeOK' /\ BehindIsDone'
    BY <1>0, <2>1, <2>2 DEF runnerVars, callVars, Placed, RunTypeOK, BehindIsDone, Returned
  <2> QED BY <2>3, <2>4 DEF Placed
<1> QED BY <1>1, <1>3, <1>4, <1>5, <1>6 DEF Onlooking

LEMMA PlacedStep == TypeOK /\ Placed /\ [RunNext]_<<vars, runnerVars>> => Placed'
<1> SUFFICES ASSUME TypeOK, Placed, [RunNext]_<<vars, runnerVars>> PROVE Placed'
  OBVIOUS
<1>1. CASE RegisterDirectly \/ AttestDirectly
  <2>1. PICK s \in {"register", "evidence"} : At(s)
    BY <1>1 DEF RegisterDirectly, AttestDirectly
  <2>2. /\ Advance \/ Stop
        /\ UNCHANGED callVars /\ UNCHANGED <<use_managed, retried, error>>
    BY <1>1 DEF RegisterDirectly, AttestDirectly
  <2>3. position \in 1..19 /\ Scenario[position] \notin LibraryCalls /\ outcome = "running"
    BY <2>1, Standing, CallsOfTheLibrary DEF Placed
  <2>4. use_managed \in BOOLEAN
    BY DEF Placed, RunTypeOK
  <2> QED BY <2>2, <2>3, <2>4, AdvanceKeepsPlace, HaltKeepsPlace DEF Stop
<1>2. ASSUME NEW s \in LibraryCalls, Call(s) PROVE Placed'
  <2>1. error \in {"none", "other", "absent"} \cup KeyTransportMode
    BY DEF Placed, RunTypeOK
  <2>2. /\ status[CallOf(s)] = "idle" /\ At(s) /\ job'[CallOf(s)] = Arguments(s)
        /\ \A d \in Calls \ {CallOf(s)} : UNCHANGED <<status[d], job[d], work[d]>>
        /\ UNCHANGED <<outcome, position, use_managed, retried, error>>
    BY <1>2, CallBegins DEF runnerVars
  <2> QED BY <2>1, <2>2, MoveKeepsPlace
<1>3. ASSUME NEW s \in LibraryCalls, Work(s) PROVE Placed'
  <2>1. error' \in {"none", "other", "absent"} \cup KeyTransportMode
    BY <1>3, WorkMoves, ErrorTyped DEF Placed, RunTypeOK
  <2>2. /\ status[CallOf(s)] = "running" /\ At(s)
        /\ \A d \in Calls \ {CallOf(s)} : UNCHANGED <<status[d], job[d], work[d]>>
        /\ UNCHANGED <<outcome, position, use_managed, retried>>
        /\ status'[CallOf(s)] \in {"running", "returned"} => job' = job
    BY <1>3, WorkMoves
  <2>3. job[CallOf(s)] = Arguments(s)
    BY <2>2 DEF Placed, AsAsked
  <2> QED BY <2>1, <2>2, <2>3, MoveKeepsPlace
<1>4. ASSUME NEW s \in LibraryCalls, Retry(s) PROVE Placed'
  BY <1>4, RetryKeepsPlace
<1> QED BY <1>1, <1>2, <1>3, <1>4, RunSteps, OnlookingKeepsPlace

LEMMA PlacedInit == RunInit => Placed
<1> SUFFICES ASSUME RunInit PROVE Placed
  OBVIOUS
<1>1. \A c \in Calls : status[c] = "idle"
  BY DEF RunInit, Init
<1>2. RunTypeOK
  <2>1. \A s \in LibraryCalls : CallOf(s) \in Calls
    BY CallNames
  <2>2. "protect_envelope_again" \in Calls
    BY RunnerAssumption
  <2>3. /\ position \in 1..(Len(Scenario) + 1) /\ ~(position > Len(Scenario))
        /\ outcome = "idle" /\ use_managed = FALSE /\ retried = FALSE /\ error = "none"
    BY ScenarioSteps DEF RunInit
  <2> QED BY <1>1, <2>1, <2>2, <2>3 DEF RunTypeOK
<1>3. AsAsked /\ BehindIsDone
  BY <1>1, CallNames DEF AsAsked, BehindIsDone, RunInit
<1> QED BY <1>2, <1>3 DEF Placed

-----------------------------------------------------------------------------
(***************************************************************************)
(* Records.                                                                *)
(***************************************************************************)

\* Only a call that registers changes the catalog.
LEMMA CatalogMoves ==
    ASSUME NEW c, AskPlatform(c) \/ ComputeLocally(c) \/ ConnectionFails(c)
    PROVE  \/ catalog' = catalog
           \/ Running(c, "register") /\ catalog' = catalog \cup {Registration(c)}
<1>1. CASE Register(c)
  BY <1>1 DEF Register
<1>2. CASE Evidence(c)
  BY <1>2 DEF Evidence
<1>3. CASE Bootstrap(c) \/ PolicyResolve(c) \/ ProtectionPlan(c) \/ KeyAccessPlan(c)
  BY <1>3 DEF Bootstrap, PolicyResolve, ProtectionPlan, KeyAccessPlan, Answered
<1>4. CASE ComputeLocally(c) \/ ConnectionFails(c)
  BY <1>4 DEF ComputeLocally, ResolveCurrentKey, ResolveNewKey, ProviderFails, OpenManifest,
     OpenContent, Seal, Verify, ConnectionFails, platformVars
<1> QED BY <1>1, <1>2, <1>3, <1>4 DEF AskPlatform

\* What was sealed is an artifact.
LEMMA PassedSealIsSealed ==
    ASSUME TrustInv, NEW c \in Calls, status[c] \in {"running", "returned"}, Passed(c, "seal")
    PROVE  Sealed(c) /\ WellSealed(work[c].product)
<1>1. WellSealed(work[c].product)
  BY DEF TrustInv, TrustOK, SealOK
<1>2. NoArtifact.artifact_profile \notin {"envelope", "tdf", "detached_signature"}
  BY DEF NoArtifact
<1> QED BY <1>1, <1>2, SealedCases DEF Sealed

LEMMA RegistersSealed ==
    ASSUME TypeOK, TrustInv, NEW c \in Calls, Running(c, "register")
    PROVE  Sealed(c)
<1>1. /\ status[c] = "running" /\ at[c] \in 1..Len(Route(job[c])) /\ Len(Route(job[c])) \in Nat
      /\ at[c] > 1 /\ Route(job[c])[at[c] - 1] = "seal"
  BY RunningCall DEF RouteOK
<1>2. Passed(c, "seal")
  BY <1>1 DEF Passed
<1> QED BY <1>1, <1>2, PassedSealIsSealed

LEMMA SealingRoutes ==
    ASSUME NEW j, j.op \in SealingSteps
    PROVE  Has(Route(j), Len(Route(j)), "seal")
<1>1. CASE j.op = "protect_envelope"
  <2>1. Has(EnvelopeProtectRoute, Len(EnvelopeProtectRoute), "seal")
    BY DEF Has, EnvelopeProtectRoute
  <2> QED BY <1>1, <2>1, RouteOfOperation, Zenon
<1>2. CASE j.op = "protect_tdf"
  <2>1. Has(TdfProtectRoute, Len(TdfProtectRoute), "seal")
    BY DEF Has, TdfProtectRoute
  <2> QED BY <1>2, <2>1, RouteOfOperation, Zenon
<1>3. CASE j.op = "sign"
  <2>1. Has(SignRoute, Len(SignRoute), "seal")
    BY DEF Has, SignRoute
  <2> QED BY <1>3, <2>1, RouteOfOperation, Zenon
<1>4. CASE j.op \in {"rewrap_envelope", "rewrap_tdf"}
  BY <1>4, TrustRoutes DEF TrustRoute, Rewriters, AllOperations
<1> QED BY <1>1, <1>2, <1>3, <1>4 DEF SealingSteps

LEMMA PreparingSealsNothing ==
    ASSUME NEW j, j.op = "prepare", NEW i \in 1..Len(Route(j))
    PROVE  Route(j)[i] # "seal"
<1>1. Route(j) = PrepareRoute
  BY RouteOfOperation
<1> QED BY <1>1 DEF PrepareRoute

\* The operations of the run's calls.
LEMMA ArgumentOperations ==
    ASSUME NEW s \in LibraryCalls
    PROVE  Arguments(s).op = IF s \in {"prepare", "cid_binding"} THEN "prepare" ELSE s
<1>1. CASE s \in {"prepare", "cid_binding"}
  BY <1>1 DEF Arguments, Make
<1>2. CASE s \in {"sign", "protect_envelope", "protect_tdf"}
  BY <1>2 DEF Arguments, Make
<1>3. CASE s \in {"verify", "access_envelope", "access_tdf"}
  BY <1>3 DEF Arguments, Read
<1>4. CASE s \in {"rewrap_envelope", "rewrap_tdf"}
  BY <1>4 DEF Arguments, Rewrap
<1> QED BY <1>1, <1>2, <1>3, <1>4, CallsOfTheLibrary

LEMMA StepsInLibrary ==
    SealingSteps \subseteq LibraryCalls /\ SealingSteps \subseteq Makers \cup Rewriters
BY CallsOfTheLibrary DEF SealingSteps, Makers, Rewriters

LEMMA RecordsOfSteps ==
    ASSUME NEW s \in SealingSteps
    PROVE  /\ Event(s) = PolicyOperation(s)
           /\ Event(CallOf(s)) = Event(s)
           /\ Profile(s) = "detached_signature" => Event(s) = "protect"
           /\ \A t \in SealingSteps :
                 Event(t) = Event(s) /\ Profile(t) = Profile(s) => t = s
<1>1. Event(s) = PolicyOperation(s)
  BY DEF Event, PolicyOperation, SealingSteps, Makers, Readers
<1>2. Event(CallOf(s)) = Event(s)
  BY DEF Event, CallOf
<1>3. /\ Profile("sign") = "detached_signature"
      /\ Profile("protect_envelope") = "envelope" /\ Profile("rewrap_envelope") = "envelope"
      /\ Profile("protect_tdf") = "tdf" /\ Profile("rewrap_tdf") = "tdf"
  BY Profiles
<1> QED BY <1>1, <1>2, <1>3 DEF SealingSteps, Event

\* The call of a sealing step that has returned has sealed.
LEMMA ReturnedHasSealed ==
    ASSUME CallsInv, Placed, NEW s \in SealingSteps, Returned(CallOf(s))
    PROVE  /\ Sealed(CallOf(s)) /\ Result(s) \in held
           /\ Registration(CallOf(s)) \in catalog
<1> DEFINE c == CallOf(s)
<1>1. s \in LibraryCalls /\ c \in Calls /\ status[c] = "returned"
  BY StepsInLibrary, CallNames DEF Returned
<1>2. job[c].op = s
  BY <1>1, ArgumentOperations DEF Placed, AsAsked, SealingSteps
<1>3. Passed(c, "seal") /\ at[c] = Len(Route(job[c])) + 1 /\ Len(Route(job[c])) \in Nat
  <2>1. at[c] = Len(Route(job[c])) + 1 /\ JobOK(job[c])
    BY <1>1 DEF CallsInv, TypeOK, CallsTyped, CallOK
  <2>2. Len(Route(job[c])) \in Nat
    BY <2>1, JobRoute, WorkflowAssumption DEF JobOK, RouteOK
  <2> QED BY <1>1, <1>2, <2>1, <2>2, ReturnedPassed, SealingRoutes DEF CallsInv
<1>4. Sealed(c)
  BY <1>1, <1>3, PassedSealIsSealed DEF CallsInv
<1> QED BY <1>1, <1>3, <1>4 DEF CallsInv, MadeInv, MadeOK, KeptInv, KeptOK, Result, Returned

\* What a call of the run has sealed is its step's, and is registered as that.
LEMMA SealedIsOfStep ==
    ASSUME CallsInv, Placed, NEW s \in LibraryCalls,
           status[CallOf(s)] \in {"running", "returned"}, Sealed(CallOf(s))
    PROVE  /\ s \in SealingSteps /\ job[CallOf(s)].op = s
           /\ job[CallOf(s)].new \in KeySource
           /\ Result(s).artifact_profile = Profile(s)
           /\ SealingKey(Result(s)).name = job[CallOf(s)].new.name
           /\ Registration(CallOf(s)) = RecordOf(Result(s))
           /\ Registration(CallOf(s)).operation = Event(s)
           /\ Registration(CallOf(s)).artifact_profile = Profile(s)
           /\ Registration(CallOf(s)).digest = Sha256(Result(s))
<1> DEFINE c == CallOf(s)
           a == work[c].product
<1>1. /\ c \in Calls /\ JobOK(job[c]) /\ at[c] \in Nat
      /\ job[c].op = IF s \in {"prepare", "cid_binding"} THEN "prepare" ELSE s
      /\ SealedAsNamed(c) /\ StandsAfterSeal(c) /\ SealedByCall(c)
  BY CallNames, ArgumentOperations DEF Placed, AsAsked, CallsInv, TypeOK, CallsTyped, CallOK,
     KeptInv, KeptOK, MadeInv, MadeOK
<1>2. s \in SealingSteps /\ job[c].op = s
  <2>1. job[c].op \notin Readers
    BY <1>1 DEF StandsAfterSeal
  <2>2. job[c].op # "prepare"
    <3>1. Len(Route(job[c])) \in Nat
      BY <1>1, JobRoute, WorkflowAssumption DEF JobOK, RouteOK
    <3>2. Len(Route(job[c])) - 2 \in 1..Len(Route(job[c]))
      BY <1>1, <3>1 DEF StandsAfterSeal
    <3> QED BY <1>1, <3>2, PreparingSealsNothing DEF StandsAfterSeal
  <2> QED BY <1>1, <2>1, <2>2, CallsOfTheLibrary DEF SealingSteps, Readers
<1>3. job[c].new \in KeySource
  BY <1>1, <1>2, StepsInLibrary DEF JobOK
<1>4. a.artifact_profile = Profile(s)
  BY <1>1, <1>2 DEF SealedByCall
<1>5. a.artifact_profile # "detached_signature" => Ciphertext(a).nonce = c
  BY <1>1 DEF SealedByCall
<1>6. RecordOf(a).operation = Event(s)
  BY <1>2, <1>4, <1>5, RecordsOfSteps DEF RecordOf
<1>7. KeyReference(a.artifact_profile, job[c].new) = RecordOf(a).key_reference
  BY <1>1, <1>3, ReferenceOfKey DEF SealedAsNamed, RecordOf
<1>8. Registration(c) = RecordOf(a)
  BY <1>1, <1>2, <1>6, <1>7, RecordsOfSteps DEF Registration, RecordOf, SealedAsNamed
<1>9. RecordOf(a).artifact_profile = a.artifact_profile /\ RecordOf(a).digest = Sha256(a)
  BY DEF RecordOf
<1> QED BY <1>1, <1>2, <1>3, <1>4, <1>6, <1>8, <1>9 DEF Result, SealedAsNamed

\* Records of a step that the run does not touch.
LEMMA OtherRecords ==
    ASSUME NEW t, OneRecord(t), RecordsOf(t)' = RecordsOf(t), UNCHANGED retried,
           status'[CallOf(t)] = status[CallOf(t)], work'[CallOf(t)] = work[CallOf(t)]
    PROVE  OneRecord(t)'
<1>1. CallOf(t)' = CallOf(t)
  BY DEF CallOf
<1>2. Result(t)' = Result(t) /\ (Sealed(CallOf(t)))' = Sealed(CallOf(t))
  BY <1>1 DEF Result, Sealed
<1> QED BY <1>1, <1>2 DEF OneRecord

\* A catalog that does not change.
LEMMA SameRecords ==
    ASSUME UNCHANGED catalog
    PROVE  /\ \A s : RecordsOf(s)' = RecordsOf(s)
           /\ RecordsMatch => RecordsMatch'
BY DEF RecordsOf, RecordsMatch, RecordOf, Event, SealingKey, Ciphertext, Description,
   DefaultKeyReference, InlineKey, Sha256

LEMMA QuietRecords ==
    ASSUME OneRecordEach, UNCHANGED <<catalog, status, work, retried>>
    PROVE  OneRecordEach'
<1>1. \A s : RecordsOf(s)' = RecordsOf(s)
  BY SameRecords
<1>2. \A s \in SealingSteps : OneRecord(s)'
  BY <1>1, OtherRecords DEF OneRecordEach
<1> QED BY <1>1, <1>2 DEF OneRecordEach

\* A registration, whether its answer arrives or not.
LEMMA RegisteringRecords ==
    ASSUME CallsInv, Placed, RecordsMatch, OneRecordEach, NEW s \in LibraryCalls,
           UNCHANGED retried, Running(CallOf(s), "register"),
           \A d \in Calls \ {CallOf(s)} : UNCHANGED <<status[d], job[d], at[d], work[d]>>,
           \/ status'[CallOf(s)] = "failed"
           \/ /\ status'[CallOf(s)] \in {"running", "returned"}
              /\ work'[CallOf(s)].product = work[CallOf(s)].product,
           catalog' = catalog \cup {Registration(CallOf(s))}
    PROVE  RecordsMatch' /\ OneRecordEach'
<1> DEFINE c == CallOf(s)
           new == Registration(c)
<1>1. /\ c \in Calls /\ status[c] = "running" /\ Sealed(c)
  BY CallNames, RegistersSealed DEF CallsInv, Running
<1>2. /\ s \in SealingSteps
      /\ new = RecordOf(Result(s)) /\ new.operation = Event(s)
      /\ new.artifact_profile = Profile(s) /\ new.digest = Sha256(Result(s))
  BY <1>1, SealedIsOfStep
<1>3. RecordsMatch'
  <2>1. new.digest[2] = Result(s)
    BY <1>2 DEF Sha256
  <2>2. \A r \in catalog' : r = RecordOf(r.digest[2])
    BY <1>2, <2>1 DEF RecordsMatch
  <2> QED BY <2>2 DEF RecordsMatch, RecordOf, Event, SealingKey, Ciphertext, Description,
     DefaultKeyReference, InlineKey, Sha256
<1>4. RecordsOf(s)' = RecordsOf(s) \cup {new}
  BY <1>2 DEF RecordsOf, Event
<1>5. ASSUME NEW t \in SealingSteps \ {s} PROVE RecordsOf(t)' = RecordsOf(t) /\ OneRecord(t)'
  <2>1. ~(new.operation = Event(t) /\ new.artifact_profile = Profile(t))
    BY <1>2, <1>5, RecordsOfSteps
  <2>2. RecordsOf(t)' = RecordsOf(t)
    BY <2>1 DEF RecordsOf, Event
  <2>3. status'[CallOf(t)] = status[CallOf(t)] /\ work'[CallOf(t)] = work[CallOf(t)]
    BY <1>2, StepsInLibrary, CallNames, CallsDiffer
  <2> QED BY <2>2, <2>3, OtherRecords DEF OneRecordEach
<1>6. OneRecord(s)'
  <2>1. CallOf(s)' = c
    BY DEF CallOf
  <2>2. \A r \in RecordsOf(s)' : r.digest = Sha256(Result(s))
    BY <1>1, <1>2, <1>4 DEF OneRecordEach, OneRecord
  <2>3. CASE status'[c] = "failed"
    BY <2>1, <2>2, <2>3 DEF OneRecord
  <2>4. CASE status'[c] \in {"running", "returned"} /\ work'[c].product = work[c].product
    <3>1. Result(s)' = Result(s) /\ Sealed(c)'
      BY <1>1, <2>1, <2>4 DEF Result, Sealed
    <3> QED BY <2>1, <2>2, <2>4, <3>1 DEF OneRecord
  <2> QED BY <2>3, <2>4
<1>7. catalog' = UNION {RecordsOf(t)' : t \in SealingSteps}
  BY <1>2, <1>4, <1>5 DEF OneRecordEach
<1> QED BY <1>3, <1>5, <1>6, <1>7 DEF OneRecordEach

\* A call that works on without registering, or begins.
LEMMA WorkingRecords ==
    ASSUME OneRecordEach, NEW s \in LibraryCalls, UNCHANGED <<catalog, retried>>,
           \A d \in Calls \ {CallOf(s)} : UNCHANGED <<status[d], job[d], at[d], work[d]>>,
           \/ status'[CallOf(s)] = "failed" /\ status[CallOf(s)] # "idle"
           \/ status[CallOf(s)] = "idle" /\ status'[CallOf(s)] # "idle"
           \/ /\ status[CallOf(s)] \in {"running", "returned"} /\ status'[CallOf(s)] # "idle"
              /\ Sealed(CallOf(s)) =>
                    work'[CallOf(s)].product = work[CallOf(s)].product
    PROVE  OneRecordEach'
<1>1. \A t : RecordsOf(t)' = RecordsOf(t)
  BY SameRecords
<1>2. ASSUME NEW t \in SealingSteps \ {s} PROVE OneRecord(t)'
  <2>1. status'[CallOf(t)] = status[CallOf(t)] /\ work'[CallOf(t)] = work[CallOf(t)]
    BY StepsInLibrary, CallNames, CallsDiffer
  <2> QED BY <1>1, <2>1, OtherRecords DEF OneRecordEach
<1>3. ASSUME s \in SealingSteps PROVE OneRecord(s)'
  <2>1. CallOf(s)' = CallOf(s) /\ OneRecord(s)
    BY <1>3 DEF CallOf, OneRecordEach
  <2>2. CASE RecordsOf(s) = {}
    BY <1>1, <2>1, <2>2 DEF OneRecord
  <2>3. CASE status'[CallOf(s)] = "failed"
    BY <1>1, <2>1, <2>3 DEF OneRecord
  <2>4. CASE RecordsOf(s) # {} /\ status'[CallOf(s)] # "failed"
    <3>1. /\ status[CallOf(s)] \in {"running", "returned"} /\ status'[CallOf(s)] # "idle"
          /\ Sealed(CallOf(s)) => work'[CallOf(s)].product = work[CallOf(s)].product
      BY <2>1, <2>4 DEF OneRecord
    <3>2. \A r \in RecordsOf(s) : Sealed(CallOf(s)) /\ r.digest = Sha256(Result(s))
      BY <2>1, <3>1 DEF OneRecord
    <3>3. Sealed(CallOf(s)) => Sealed(CallOf(s))' /\ Result(s)' = Result(s)
      BY <2>1, <3>1 DEF Sealed, Result
    <3> QED BY <1>1, <2>1, <3>1, <3>2, <3>3 DEF OneRecord
  <2> QED BY <2>2, <2>3, <2>4
<1> QED BY <1>1, <1>2, <1>3 DEF OneRecordEach

\* The library's registration of the rewrapped TDF says what the manifest says: the
\* protection was asked for with it, and the rewrap handed it down.
LEMMA ManifestHandedDown ==
    ASSUME CallsInv, Placed, Returned("protect_tdf"), Returned("rewrap_tdf")
    PROVE  Registration("rewrap_tdf").about = ManifestDescription
<1>1. \A s \in {"protect_tdf", "rewrap_tdf"} :
        /\ s \in SealingSteps /\ s \in LibraryCalls /\ CallOf(s) = s
        /\ status[s] = "returned"
  BY StepsInLibrary DEF SealingSteps, CallOf, Returned
<1>2. \A s \in {"protect_tdf", "rewrap_tdf"} : job[s].op = s /\ Sealed(s)
  BY <1>1, ReturnedHasSealed, SealedIsOfStep DEF Returned
<1>3. \A s \in {"protect_tdf", "rewrap_tdf"} : work[s].desc = Description(Result(s))
  <2> SUFFICES ASSUME NEW s \in {"protect_tdf", "rewrap_tdf"}
               PROVE  work[s].desc = Description(Result(s))
    OBVIOUS
  <2>1. Registration(s) = RecordOf(Result(s))
    BY <1>1, <1>2, SealedIsOfStep
  <2>2. Registration(s).about = work[s].desc
    BY DEF Registration
  <2>3. RecordOf(Result(s)).about = Description(Result(s))
    BY DEF RecordOf
  <2> QED BY <2>1, <2>2, <2>3
<1>4. work["protect_tdf"].desc = ManifestDescription
  <2>1. MadeAsAsked("protect_tdf")
    BY <1>1, <1>2, CallNames DEF CallsInv, TrustInv, TrustOK, Makers
  <2> QED BY <2>1, RunnerAssumption DEF MadeAsAsked
<1>5. HandsDown(job["rewrap_tdf"], job["rewrap_tdf"].source, Result("rewrap_tdf"))
  <2>1. "rewrap_tdf" \in Calls /\ job["rewrap_tdf"].op \in Rewriters
    BY <1>1, <1>2, CallNames DEF Rewriters
  <2>2. HandsDown(job["rewrap_tdf"], job["rewrap_tdf"].source, work["rewrap_tdf"].product)
    BY <2>1, ReturnsHandedDown DEF CallsInv
  <2> QED BY <1>1, <2>2 DEF Result
<1>6. job["rewrap_tdf"].source = Result("protect_tdf")
  <2>1. job["rewrap_tdf"] = Arguments("rewrap_tdf")
    BY <1>1 DEF Placed, AsAsked
  <2> QED BY <2>1 DEF Arguments, Rewrap
<1>7. Result("protect_tdf").artifact_profile = "tdf"
  BY <1>1, <1>2, SealedIsOfStep, Profiles
<1>8. Description(Result("rewrap_tdf")) = Description(Result("protect_tdf"))
  BY <1>2, <1>5, <1>6, <1>7 DEF HandsDown, Editors
<1>9. Registration("rewrap_tdf").about = work["rewrap_tdf"].desc
  BY DEF Registration
<1> QED BY <1>3, <1>4, <1>8, <1>9

\* The runner's own registration of the rewrapped TDF says what the library's said: the
\* catalog has it already.
LEMMA DirectIsKnown ==
    ASSUME CallsInv, Placed, At("register")
    PROVE  DirectRegistration \in catalog
<1> DEFINE c == "rewrap_tdf"
<1>1. /\ c \in SealingSteps /\ c \in LibraryCalls /\ CallOf(c) = c
      /\ IndexOfStep(c) = 17 /\ position = 18
  BY Standing, Indices, CallsOfTheLibrary DEF SealingSteps, CallOf, Placed
<1>2. Returned(c) /\ Returned("protect_tdf")
  BY <1>1, Indices, CallsOfTheLibrary DEF Placed, BehindIsDone, CallOf
<1>3. Sealed(c) /\ Registration(c) \in catalog
  BY <1>1, <1>2, ReturnedHasSealed
<1>4. /\ Registration(c).operation = Event(c) /\ Registration(c).artifact_profile = Profile(c)
      /\ Registration(c).digest = Sha256(Result(c))
      /\ Result(c).artifact_profile = Profile(c)
  BY <1>1, <1>2, <1>3, SealedIsOfStep DEF Returned
<1>5. job[c].new = Managed("managed_rewrap_key_reference")
  <2>1. job[c] = Arguments(c)
    BY <1>1, <1>2 DEF Placed, AsAsked, Returned
  <2> QED BY <2>1 DEF Arguments, Rewrap
<1>6. Registration(c).key_reference = "managed_rewrap_key_reference"
  BY <1>5 DEF Registration, KeyReference, Managed
<1>7. Registration(c).about = ManifestDescription
  BY <1>2, ManifestHandedDown
<1>8. Event(c) = "rewrap" /\ Profile(c) = "tdf"
  BY Profiles DEF Event
<1>9. Registration(c) = DirectRegistration
  <2>1. Registration(c) = [operation |-> Registration(c).operation,
                           artifact_profile |-> Registration(c).artifact_profile,
                           digest |-> Registration(c).digest,
                           key_reference |-> Registration(c).key_reference,
                           about |-> Registration(c).about]
    BY DEF Registration
  <2> QED BY <1>4, <1>6, <1>7, <1>8, <2>1 DEF DirectRegistration, Registered
<1> QED BY <1>3, <1>9

\* Where a call that stands at a step with an error has failed, the run can only retry
\* or give up.
LEMMA ErrorStands ==
    ASSUME Placed, ErrorExplained, NEW s, At(s), ~retried, error # "none"
    PROVE  s \in LibraryCalls /\ status[s] = "failed" /\ CallOf(s) = s
BY Standing DEF ErrorExplained, CallOf, Placed

LEMMA OnlookingKeepsRecords ==
    ASSUME Placed, RecordsInv, Onlooking
    PROVE  RecordsInv'
<1>1. UNCHANGED <<catalog, status, work>>
  BY DEF Onlooking, callVars, platformVars
<1>2. UNCHANGED <<retried, error>>
  BY DEF Onlooking, Start, AskForMode, Over, AskOnly, Continue, GiveUp, runnerVars
<1>3. RecordsMatch' /\ OneRecordEach'
  BY <1>1, <1>2, SameRecords, QuietRecords DEF RecordsInv
<1>4. RecordsOf("protect_envelope")' = RecordsOf("protect_envelope")
  BY <1>1, SameRecords
<1>5. ASSUME UNCHANGED <<position, use_managed>>, outcome' # "idle" \/ outcome = "idle"
      PROVE  ErrorExplained'
  BY <1>1, <1>2, <1>4, <1>5 DEF RecordsInv, ErrorExplained
<1>6. ASSUME retried \/ error = "none", outcome' # "idle" \/ outcome = "idle"
      PROVE  ErrorExplained'
  BY <1>2, <1>6 DEF RecordsInv, ErrorExplained
<1>7. ASSUME Advance, position \in 1..19
      PROVE  outcome' # "idle" /\ outcome' # "failed" /\ DiscoveredModeIsMet'
  BY <1>7 DEF Advance, DiscoveredModeIsMet
<1>8. CASE Start
  <2>1. error = "none" /\ outcome' # "idle" /\ UNCHANGED <<position, use_managed>>
    BY <1>8 DEF Start, RecordsInv, ErrorExplained
  <2> QED BY <1>2, <1>3, <1>5, <2>1 DEF RecordsInv, DiscoveredModeIsMet
<1>9. ASSUME NEW s, At(s), s \notin LibraryCalls, Advance \/ Stop
      PROVE  RecordsInv'
  <2>1. /\ position \in 1..19 /\ Scenario[position] = s /\ s # "protect_envelope"
        /\ retried \/ error = "none"
    BY <1>9, Standing, ErrorStands, CallsOfTheLibrary DEF RecordsInv, Placed
  <2>2. outcome' # "idle"
    BY <1>7, <1>9, <2>1 DEF Stop
  <2>3. DiscoveredModeIsMet'
    BY <1>7, <1>9, <2>1 DEF Stop, DiscoveredModeIsMet
  <2> QED BY <1>3, <1>6, <2>1, <2>2, <2>3 DEF RecordsInv
<1>10. CASE AskForMode
  BY <1>9, <1>10, CallsOfTheLibrary DEF AskForMode
<1>11. ASSUME NEW s \in DirectRequests, AskOnly(s)
       PROVE  RecordsInv'
  BY <1>9, <1>11 DEF AskOnly, LibraryCalls
<1>12. ASSUME NEW s \in LibraryCalls, Continue(s)
       PROVE  RecordsInv'
  <2>1. /\ At(s) /\ status[CallOf(s)] = "returned" /\ Advance /\ position \in 1..19
    BY <1>12, Standing DEF Continue, Succeeded, Placed
  <2>2. retried \/ error = "none"
    BY <2>1, ErrorStands DEF RecordsInv
  <2> QED BY <1>3, <1>6, <1>7, <2>1, <2>2 DEF RecordsInv
<1>13. ASSUME NEW s \in LibraryCalls, GiveUp(s)
       PROVE  RecordsInv'
  <2>1. /\ At(s) /\ ~Retryable(s) /\ outcome' = "failed" /\ UNCHANGED <<position, use_managed>>
        /\ Scenario[position] = s
    BY <1>13, Standing DEF GiveUp, Stop, Placed
  <2>2. DiscoveredModeIsMet'
    <3> SUFFICES ASSUME s = "protect_envelope", ~retried
                 PROVE  error # "wrapped_key_reference"
      BY <1>2, <2>1 DEF DiscoveredModeIsMet
    <3>1. error = "wrapped_key_reference" => ~use_managed
      BY <2>1 DEF RecordsInv, ErrorExplained
    <3> QED BY <2>1, <3>1 DEF Retryable, RequiresManaged
  <2> QED BY <1>3, <1>5, <2>1, <2>2 DEF RecordsInv
<1>14. CASE Over \/ UNCHANGED runnerVars
  <2>1. UNCHANGED <<outcome, position, use_managed>>
    BY <1>14 DEF Over, runnerVars
  <2> QED BY <1>2, <1>3, <1>5, <2>1 DEF RecordsInv, DiscoveredModeIsMet
<1> QED BY <1>8, <1>10, <1>11, <1>12, <1>13, <1>14 DEF Onlooking

LEMMA DirectKeepsRecords ==
    ASSUME CallsInv, Placed, RecordsInv, RegisterDirectly \/ AttestDirectly
    PROVE  RecordsInv'
<1>1. /\ UNCHANGED <<status, work, retried, error, use_managed>>
      /\ Advance \/ Stop
  BY DEF RegisterDirectly, AttestDirectly, callVars
<1>2. UNCHANGED catalog
  BY DirectIsKnown DEF RegisterDirectly, AttestDirectly
<1>3. PICK s \in {"register", "evidence"} : At(s)
  BY DEF RegisterDirectly, AttestDirectly
<1>4. /\ position \in 1..19 /\ Scenario[position] = s /\ s # "protect_envelope"
      /\ retried \/ error = "none"
  BY <1>3, Standing, ErrorStands, CallsOfTheLibrary DEF RecordsInv, Placed
<1>5. RecordsMatch' /\ OneRecordEach'
  BY <1>1, <1>2, SameRecords, QuietRecords DEF RecordsInv
<1>6. outcome' # "idle" /\ (outcome' = "failed" => position' = position)
  BY <1>1, <1>4 DEF Advance, Stop
<1>7. ErrorExplained'
  BY <1>1, <1>4, <1>6 DEF ErrorExplained
<1>8. DiscoveredModeIsMet'
  BY <1>4, <1>6 DEF DiscoveredModeIsMet
<1> QED BY <1>5, <1>7, <1>8 DEF RecordsInv

LEMMA CallKeepsRecords ==
    ASSUME TypeOK, Placed, RecordsInv, NEW s \in LibraryCalls, Call(s)
    PROVE  RecordsInv'
<1>1. /\ status[CallOf(s)] = "idle" /\ status'[CallOf(s)] = "running" /\ At(s)
      /\ \A d \in Calls \ {CallOf(s)} : UNCHANGED <<status[d], job[d], at[d], work[d]>>
      /\ UNCHANGED <<catalog, outcome, position, use_managed, retried, error>>
  BY CallBegins DEF runnerVars
<1>2. OneRecordEach' /\ RecordsMatch'
  BY <1>1, WorkingRecords, SameRecords DEF RecordsInv
<1>3. retried \/ error = "none"
  BY <1>1, ErrorStands DEF RecordsInv
<1>4. outcome' = "running"
  BY <1>1 DEF At
<1> QED BY <1>1, <1>2, <1>3, <1>4 DEF RecordsInv, ErrorExplained, DiscoveredModeIsMet

LEMMA RetryKeepsRecords ==
    ASSUME TypeOK, Placed, RecordsInv, NEW s \in LibraryCalls, Retry(s)
    PROVE  RecordsInv'
<1> DEFINE c == "protect_envelope_again"
<1>1. /\ s = "protect_envelope" /\ ~retried /\ status[s] = "failed" /\ At(s)
      /\ error = "wrapped_key_reference" /\ retried' = TRUE /\ UNCHANGED <<outcome, error>>
  BY DEF Retry, Retryable, RequiresManaged, CallOf
<1>2. PICK j, locals : Begin(c, j, locals)
  BY DEF Retry, BeginMaking
<1>3. c \in Calls /\ UNCHANGED catalog
  BY <1>2, CallNames DEF Begin, platformVars
<1>4. \A d \in Calls \ {c} : UNCHANGED <<status[d], job[d], at[d], work[d]>>
  BY <1>2, <1>3, OthersUntouched
<1>5. status'[c] = "running"
  BY <1>2, <1>3 DEF Begin, TypeOK, CallsTyped
<1>6. \A t : RecordsOf(t)' = RecordsOf(t)
  BY <1>3, SameRecords
<1>7. RecordsOf(s) = {}
  BY <1>1, Standing DEF RecordsInv, ErrorExplained, Placed
<1>8. OneRecord(s)'
  BY <1>6, <1>7, <1>1, <1>5 DEF OneRecord, CallOf
<1>9. ASSUME NEW t \in SealingSteps \ {s} PROVE OneRecord(t)'
  <2>1. CallOf(t)' = t /\ CallOf(t) = t /\ t \in Calls \ {c}
    BY <1>1, StepsInLibrary, CallNames DEF CallOf
  <2>2. Result(t)' = Result(t) /\ Sealed(t)' = Sealed(t) /\ status'[t] = status[t]
    BY <1>4, <2>1 DEF Result, Sealed
  <2>3. OneRecord(t)
    BY DEF RecordsInv, OneRecordEach
  <2> QED BY <1>6, <2>1, <2>2, <2>3 DEF OneRecord
<1>10. OneRecordEach'
  BY <1>3, <1>6, <1>8, <1>9 DEF RecordsInv, OneRecordEach
<1>11. ErrorExplained' /\ DiscoveredModeIsMet'
  BY <1>1 DEF ErrorExplained, DiscoveredModeIsMet, At
<1> QED BY <1>3, <1>10, <1>11, SameRecords DEF RecordsInv

\* A running call that has sealed only has to register and to attest.
LEMMA SealedStep ==
    ASSUME CallsInv, NEW c \in Calls, status[c] = "running", Sealed(c), NEW step, Running(c, step)
    PROVE  step \in {"register", "evidence"}
<1>1. /\ at[c] \in 1..Len(Route(job[c])) /\ Len(Route(job[c])) \in Nat
      /\ Route(job[c])[at[c]] = step
  BY RunningCall DEF CallsInv
<1>2. StandsAfterSeal(c)
  BY DEF CallsInv, KeptInv, KeptOK
<1>3. at[c] = Len(Route(job[c])) - 1 \/ at[c] = Len(Route(job[c]))
  BY <1>1, <1>2 DEF StandsAfterSeal
<1> QED BY <1>1, <1>2, <1>3 DEF StandsAfterSeal

\* A call that goes on keeps what it has sealed.
LEMMA GoesKeepsProduct ==
    ASSUME CallsInv, NEW c \in Calls, NEW step, NEW locals, Goes(c, step, locals), Sealed(c)
    PROVE  work'[c].product = work[c].product
<1>1. Running(c, step) /\ status[c] = "running"
  BY DEF Goes, Running
<1>2. step # "seal"
  BY <1>1, SealedStep
<1>3. work'[c] = locals
  BY DEF Goes, Proceed, CallsInv, TypeOK, CallsTyped
<1> QED BY <1>2, <1>3 DEF Goes

\* A refused inline key: the run is not using managed keys yet, and the platform has not
\* heard of the artifact.
LEMMA RefusedKeyIsEarly ==
    ASSUME CallsInv, Placed, OneRecordEach, At("protect_envelope"), ~retried,
           status["protect_envelope"] = "running",
           ErrorOf("protect_envelope") = "wrapped_key_reference"
    PROVE  ~use_managed /\ RecordsOf("protect_envelope") = {}
<1> DEFINE c == "protect_envelope"
<1>1. Running(c, "new_key") /\ ~job[c].new.managed
  BY DEF ErrorOf
<1>2. c \in LibraryCalls /\ c \in Calls /\ CallOf(c) = c /\ c \in SealingSteps
  BY CallsOfTheLibrary, CallNames DEF CallOf, SealingSteps
<1>3. ~use_managed
  <2>1. job[c] = Make(c, EnvelopeKey)
    <3>1. job[c] = Arguments(c)
      BY <1>2 DEF Placed, AsAsked
    <3> QED BY <3>1 DEF Arguments
  <2>2. job[c].new = EnvelopeKey
    BY <2>1 DEF Make
  <2> QED BY <1>1, <2>2 DEF EnvelopeKey, Managed
<1>4. ~Sealed(c)
  BY <1>1, <1>2, SealedStep
<1>5. OneRecord(c)
  BY <1>2 DEF OneRecordEach
<1> QED BY <1>2, <1>3, <1>4, <1>5 DEF OneRecord

LEMMA WorkKeepsRecords ==
    ASSUME CallsInv, Placed, RecordsInv, NEW s \in LibraryCalls, Work(s)
    PROVE  RecordsInv'
<1> DEFINE c == CallOf(s)
<1>1. /\ c \in Calls /\ status[c] = "running" /\ At(s)
      /\ \A d \in Calls \ {c} : UNCHANGED <<status[d], job[d], at[d], work[d]>>
      /\ UNCHANGED <<outcome, position, use_managed, retried>>
      /\ error' = IF status'[c] = "failed" THEN ErrorOf(c) ELSE error
      /\ \/ status'[c] = "failed"
         \/ /\ \E step, locals : Goes(c, step, locals)
            /\ status'[c] \in {"running", "returned"} /\ error' = error
  BY WorkMoves DEF CallsInv
<1>2. Sealed(c) /\ status'[c] # "failed" => work'[c].product = work[c].product
  BY <1>1, GoesKeepsProduct
<1>3. CASE catalog' = catalog
  <2>1. OneRecordEach' /\ RecordsMatch'
    BY <1>1, <1>2, <1>3, WorkingRecords, SameRecords DEF RecordsInv
  <2>2. retried \/ error = "none"
    BY <1>1, ErrorStands DEF RecordsInv
  <2>3. ASSUME error' # "none", ~retried
        PROVE  /\ position \in DOMAIN Scenario /\ Scenario[position] = s /\ CallOf(s) = s
               /\ status'[s] = "failed" /\ error' = ErrorOf(s) /\ status[s] = "running"
    BY <1>1, <2>2, <2>3, Standing, ScenarioSteps DEF CallOf, Placed
  <2>4. ASSUME error' = "wrapped_key_reference", ~retried, s = "protect_envelope"
        PROVE  ~use_managed /\ RecordsOf("protect_envelope")' = {}
    BY <1>1, <1>3, <2>3, <2>4, RefusedKeyIsEarly, SameRecords DEF RecordsInv
  <2>5. outcome' = "running"
    BY <1>1 DEF At
  <2>6. ErrorExplained'
    BY <1>1, <2>3, <2>4, <2>5 DEF ErrorExplained
  <2> QED BY <2>1, <2>5, <2>6 DEF RecordsInv, DiscoveredModeIsMet
<1>4. CASE Running(c, "register") /\ catalog' = catalog \cup {Registration(c)}
  <2>1. Sealed(c)
    BY <1>1, <1>4, RegistersSealed DEF CallsInv
  <2>2. OneRecordEach' /\ RecordsMatch'
    BY <1>1, <1>2, <1>4, <2>1, RegisteringRecords DEF RecordsInv
  <2>3. retried \/ error = "none"
    BY <1>1, ErrorStands DEF RecordsInv
  <2>4. ErrorOf(c) = "other"
    BY <1>4 DEF ErrorOf, Running
  <2>5. ASSUME error' # "none", ~retried
        PROVE  /\ position \in DOMAIN Scenario /\ Scenario[position] = s /\ CallOf(s) = s
               /\ status'[s] = "failed" /\ error' = "other"
    BY <1>1, <2>3, <2>4, <2>5, Standing, ScenarioSteps DEF CallOf, Placed
  <2>6. outcome' = "running"
    BY <1>1 DEF At
  <2>7. ErrorExplained'
    BY <1>1, <2>5, <2>6 DEF ErrorExplained
  <2> QED BY <2>2, <2>6, <2>7 DEF RecordsInv, DiscoveredModeIsMet
<1> QED BY <1>3, <1>4, CatalogMoves DEF Work

LEMMA RecordsStep ==
    CallsInv /\ Placed /\ RecordsInv /\ [RunNext]_<<vars, runnerVars>> => RecordsInv'
<1> SUFFICES ASSUME CallsInv, Placed, RecordsInv, [RunNext]_<<vars, runnerVars>>
             PROVE  RecordsInv'
  OBVIOUS
<1>1. TypeOK
  BY DEF CallsInv
<1> QED BY <1>1, RunSteps, OnlookingKeepsRecords, DirectKeepsRecords, CallKeepsRecords,
           RetryKeepsRecords, WorkKeepsRecords

LEMMA RecordsInit == RunInit => RecordsInv
<1> SUFFICES ASSUME RunInit PROVE RecordsInv
  OBVIOUS
<1>1. /\ catalog = {} /\ outcome = "idle" /\ error = "none"
      /\ \A c \in Calls : status[c] = "idle"
  BY DEF RunInit, Init
<1>2. \A s : RecordsOf(s) = {}
  BY <1>1 DEF RecordsOf
<1>3. \A s \in SealingSteps : status[CallOf(s)] = "idle"
  BY <1>1, StepsInLibrary, CallNames
<1>4. OneRecordEach
  BY <1>1, <1>2, <1>3 DEF OneRecordEach, OneRecord
<1> QED BY <1>1, <1>4 DEF RecordsInv, RecordsMatch, ErrorExplained, DiscoveredModeIsMet

LEMMA RunInvariant == RunSpec => []RunInv
<1>1. RunInit => RunInv
  BY CallsInit, PlacedInit, RecordsInit DEF RunInit, RunInv
<1>2. RunInv /\ [RunNext]_<<vars, runnerVars>> => RunInv'
  BY CallsAlong, PlacedStep, RecordsStep DEF CallsInv, RunInv
<1> QED BY <1>1, <1>2, PTL DEF RunSpec

-----------------------------------------------------------------------------
(***************************************************************************)
(* Theorems.                                                               *)
(***************************************************************************)

\* The run ends with its scenario; the calls after its position have not begun, and the
\* protection is called again only after its first call failed.
THEOREM RunTyped == RunSpec => []RunTypeOK
<1>1. RunInv => RunTypeOK
  BY DEF RunInv, Placed
<1> QED BY <1>1, RunInvariant, PTL

\* A call that runs is that of a step of the scenario.
LEMMA RunningIsOfStep ==
    ASSUME RunInv, NEW c \in Calls, status[c] = "running"
    PROVE  \E s \in LibraryCalls : c = CallOf(s)
<1>1. RunTypeOK
  BY DEF RunInv, Placed
<1>2. c \in LibraryCalls \/ c = "protect_envelope_again"
  BY RunnerAssumption
<1>3. CASE c = "protect_envelope_again"
  BY <1>1, <1>3, CallsOfTheLibrary DEF RunTypeOK, CallOf
<1>4. CASE c \in LibraryCalls
  <2>1. ~(c = "protect_envelope" /\ retried)
    BY <1>1 DEF RunTypeOK
  <2> QED BY <1>4, <2>1 DEF CallOf
<1> QED BY <1>2, <1>3, <1>4

\* What a step uses is the result of an earlier one, which has returned and sealed.
LEMMA SourceIsSealed ==
    ASSUME RunInv, NEW s \in {"access_envelope", "rewrap_envelope", "access_tdf", "rewrap_tdf"},
           status[s] \in {"running", "returned"}
    PROVE  LET t == IF Profile(s) = "envelope" THEN "protect_envelope" ELSE "protect_tdf" IN
           /\ job[s].source = Result(t) /\ Result(t).artifact_profile = Profile(s)
           /\ SealingKey(Result(t)).name = job[s].current.name
           /\ t \in LibraryCalls /\ Returned(CallOf(t)) /\ Sealed(CallOf(t))
           /\ job[CallOf(t)].op = t
<1> DEFINE t == IF Profile(s) = "envelope" THEN "protect_envelope" ELSE "protect_tdf"
<1>1. /\ s \in LibraryCalls /\ CallOf(s) = s
      /\ t \in LibraryCalls /\ t \in SealingSteps /\ Profile(t) = Profile(s)
      /\ IndexOfStep(t) < IndexOfStep(s)
  BY CallsOfTheLibrary, Indices, Profiles, ProfilesOfReaders DEF CallOf, SealingSteps
<1>2. Returned(CallOf(t))
  <2>1. IndexOfStep(s) <= position
    BY <1>1, BegunIsNotAhead DEF RunInv, Placed
  <2>2. IndexOfStep(t) < position
    <3>1. position \in 1..20
      BY ScenarioSteps DEF RunInv, Placed, RunTypeOK
    <3> QED BY <1>1, <2>1, <3>1, CallNames
  <2> QED BY <1>1, <2>2 DEF RunInv, Placed, BehindIsDone
<1>3. job[s] = Arguments(s) /\ job[CallOf(t)] = Arguments(t)
  BY <1>1, <1>2 DEF RunInv, Placed, AsAsked, Returned
<1>4. job[s].source = Result(t) /\ job[s].current = job[CallOf(t)].new
  <2>1. CASE s = "access_envelope"
    BY <1>3, <2>1, ProfilesOfReaders DEF Arguments, Make, Read
  <2>2. CASE s = "rewrap_envelope"
    BY <1>3, <2>2, Profiles DEF Arguments, Make, Rewrap
  <2>3. CASE s = "access_tdf"
    BY <1>3, <2>3, ProfilesOfReaders DEF Arguments, Make, Read
  <2>4. CASE s = "rewrap_tdf"
    BY <1>3, <2>4, Profiles DEF Arguments, Make, Rewrap
  <2> QED BY <2>1, <2>2, <2>3, <2>4
<1>5. Sealed(CallOf(t))
  BY <1>1, <1>2, ReturnedHasSealed DEF RunInv
<1> QED BY <1>1, <1>2, <1>4, <1>5, SealedIsOfStep DEF RunInv, Returned

\* Whatever the platform answers when, and whether or not the protection was repeated, the
\* run opens and rewraps what it protected with the key that sealed it.
THEOREM KeysFollow == RunSpec => []KeysFollowSealing
<1>1. ASSUME RunInv, NEW c \in Calls, status[c] = "running",
             job[c].op \notin Makers \cup {"verify"}
      PROVE  job[c].current.name = SealedUnder(job[c].source)
  <2>1. PICK s \in LibraryCalls : c = CallOf(s)
    BY <1>1, RunningIsOfStep
  <2>2. job[c].op = IF s \in {"prepare", "cid_binding"} THEN "prepare" ELSE s
    BY <1>1, <2>1, ArgumentOperations DEF RunInv, Placed, AsAsked
  <2>3. s \in {"access_envelope", "rewrap_envelope", "access_tdf", "rewrap_tdf"} /\ c = s
    BY <1>1, <2>1, <2>2, CallsOfTheLibrary DEF Makers, CallOf
  <2>4. /\ job[c].current.name = SealingKey(job[c].source).name
        /\ job[c].source.artifact_profile = Profile(s)
    BY <1>1, <2>3, SourceIsSealed
  <2>5. Profile(s) \in {"envelope", "tdf"}
    BY <2>3, Profiles, ProfilesOfReaders
  <2>6. SealedUnder(job[c].source) = SealingKey(job[c].source).name
    BY <2>4, <2>5 DEF SealedUnder, SealingKey, Ciphertext
  <2> QED BY <2>4, <2>6
<1>2. RunInv => KeysFollowSealing
  BY <1>1 DEF KeysFollowSealing
<1> QED BY <1>2, RunInvariant, PTL

\* However often a step was called, and whichever answers were lost, the platform has
\* registered at most one artifact of it.
THEOREM OneArtifactRegistered == RunSpec => []OneArtifactPerStep
<1>1. ASSUME RunInv, NEW r \in catalog, NEW q \in catalog, r.operation = q.operation,
             r.artifact_profile = q.artifact_profile
      PROVE  r.digest = q.digest
  <2>1. OneRecordEach
    BY <1>1 DEF RunInv, RecordsInv
  <2>2. PICK s \in SealingSteps : r \in RecordsOf(s)
    BY <2>1 DEF OneRecordEach
  <2>3. q \in RecordsOf(s)
    BY <1>1, <2>2 DEF RecordsOf
  <2> QED BY <2>1, <2>2, <2>3 DEF OneRecordEach, OneRecord
<1>2. RunInv => OneArtifactPerStep
  BY <1>1 DEF OneArtifactPerStep
<1> QED BY <1>2, RunInvariant, PTL

\* The library's registration of an artifact and the runner's own say the same of it.
THEOREM RegistrationsAgree == RunSpec => []RecordsAgree
<1>1. RunInv => RecordsAgree
  BY DEF RunInv, RecordsInv, RecordsMatch, RecordsAgree
<1> QED BY <1>1, RunInvariant, PTL

\* The run does not end at its first envelope protection because that was refused the
\* inline key in the mode wrapped_key_reference.
THEOREM ModeIsMet == RunSpec => []DiscoveredModeIsMet
<1>1. RunInv => DiscoveredModeIsMet
  BY DEF RunInv, RecordsInv
<1> QED BY <1>1, RunInvariant, PTL

LEMMA AccessRoutes ==
    ASSUME NEW j, j.op \in {"access_envelope", "access_tdf"}
    PROVE  Has(Route(j), Len(Route(j)), "open")
<1>1. CASE j.op = "access_envelope"
  <2>1. Has(EnvelopeAccessRoute, Len(EnvelopeAccessRoute), "open")
    BY DEF Has, EnvelopeAccessRoute
  <2> QED BY <1>1, <2>1, RouteOfOperation, Zenon
<1>2. CASE j.op = "access_tdf"
  <2>1. Has(TdfAccessRoute(j.source), Len(TdfAccessRoute(j.source)), "open")
    BY DEF Has, TdfAccessRoute
  <2> QED BY <1>2, <2>1, RouteOfOperation, Zenon
<1> QED BY <1>1, <1>2

\* What was accessed is the content that was protected.
LEMMA AccessGivesContent ==
    ASSUME RunInv, NEW s \in {"access_envelope", "access_tdf"}, Returned(s)
    PROVE  work[s].plaintext \in Contents
<1> DEFINE t == IF Profile(s) = "envelope" THEN "protect_envelope" ELSE "protect_tdf"
<1>1. /\ s \in LibraryCalls /\ CallOf(s) = s /\ s \in Calls /\ status[s] = "returned"
      /\ s \notin Makers /\ t \in Makers /\ Profile(s) # "detached_signature"
  BY CallsOfTheLibrary, CallNames, ProfilesOfReaders DEF CallOf, Returned, Makers
<1>2. job[s].op = s
  BY <1>1, ArgumentOperations DEF RunInv, Placed, AsAsked
<1>3. Passed(s, "open")
  <2>1. at[s] = Len(Route(job[s])) + 1 /\ JobOK(job[s])
    BY <1>1 DEF RunInv, CallsInv, TypeOK, CallsTyped, CallOK
  <2>2. Len(Route(job[s])) \in Nat
    BY <2>1, JobRoute, WorkflowAssumption DEF JobOK, RouteOK
  <2> QED BY <1>1, <1>2, <2>1, <2>2, ReturnedPassed, AccessRoutes DEF RunInv, CallsInv
<1>4. work[s].plaintext = Ciphertext(job[s].source).msg
  BY <1>1, <1>2, <1>3 DEF RunInv, CallsInv, TrustInv, TrustOK, SourceTrusted
<1>5. /\ job[s].source = Result(t) /\ Result(t).artifact_profile = Profile(s)
      /\ t \in LibraryCalls /\ Returned(CallOf(t)) /\ Sealed(CallOf(t)) /\ job[CallOf(t)].op = t
  BY <1>1, SourceIsSealed
<1>6. MadeOK(CallOf(t)) /\ status[CallOf(t)] = "returned"
  BY <1>5, CallNames DEF RunInv, CallsInv, MadeInv, Returned
<1>7. Ciphertext(Result(t)).msg = work[CallOf(t)].plaintext
  BY <1>1, <1>5, <1>6 DEF MadeOK, SealedByCall, Result
<1> QED BY <1>1, <1>4, <1>5, <1>6, <1>7 DEF MadeOK

\* An artifact of the run is held, registered and evidenced as what its step made it.
LEMMA ReturnedIsMade ==
    ASSUME RunInv, NEW s \in SealingSteps, Returned(CallOf(s))
    PROVE  Made(s)
<1> DEFINE a == Result(s)
           own == Registration(CallOf(s))
<1>1. /\ CallsInv /\ Placed /\ s \in LibraryCalls
      /\ status[CallOf(s)] \in {"running", "returned"}
  BY StepsInLibrary DEF RunInv, Returned
<1>2. Sealed(CallOf(s)) /\ a \in held /\ own \in catalog
  BY <1>1, ReturnedHasSealed
<1>3. own = RecordOf(a) /\ own.operation = Event(s) /\ own.digest = Sha256(a)
  BY <1>1, <1>2, SealedIsOfStep
<1>4. PICK r \in catalog, e \in ledger :
          r.digest = Sha256(a) /\ e.digest = Sha256(a) /\ r.operation = e.event
  BY <1>1, <1>2, RunnerAssumption DEF CallsInv, KeptInv, CustodyRecorded
<1>5. r = own
  <2>1. r = RecordOf(r.digest[2])
    BY DEF RunInv, RecordsInv, RecordsMatch
  <2>2. r.digest[2] = a
    BY <1>4 DEF Sha256
  <2> QED BY <1>3, <2>1, <2>2
<1> QED BY <1>2, <1>3, <1>4, <1>5 DEF Made, Event

\* A summary means that every step was taken: the five artifacts are held, registered and
\* evidenced, and the two accesses gave back what was protected.
THEOREM SummaryIsTrue == RunSpec => []SummaryMeansDone
<1>1. ASSUME RunInv, outcome = "ok"
      PROVE  /\ \A s \in SealingSteps : Made(s)
             /\ \A s \in {"access_envelope", "access_tdf"} : work[s].plaintext \in Contents
  <2>1. position \in 1..20 /\ position > 19 /\ BehindIsDone
    BY <1>1, ScenarioSteps DEF RunInv, Placed, RunTypeOK
  <2>2. ASSUME NEW s \in LibraryCalls PROVE Returned(CallOf(s))
    BY <2>1, CallNames DEF BehindIsDone
  <2>3. ASSUME NEW s \in {"access_envelope", "access_tdf"} PROVE Returned(s)
    <3>1. s \in LibraryCalls /\ CallOf(s) = s
      BY CallsOfTheLibrary DEF CallOf
    <3> QED BY <2>2, <3>1
  <2> QED BY <1>1, <2>2, <2>3, StepsInLibrary, ReturnedIsMade, AccessGivesContent
<1>2. RunInv => SummaryMeansDone
  BY <1>1 DEF SummaryMeansDone, SealingSteps
<1> QED BY <1>2, RunInvariant, PTL

=============================================================================
