------------------------ MODULE LocalWorkflowProofs ------------------------
(***************************************************************************)
(* What holds of the local workflows for every set of calls, contents,     *)
(* keys, artifacts and every platform whose answers have the right types:  *)
(* their types, that a call which meets an answer outside the contract     *)
(* fails, that evidence never runs ahead of registration, that what is     *)
(* released and what is sealed was authorised, and that every behaviour is *)
(* one of the custody specification.                                       *)
(***************************************************************************)
EXTENDS LocalCustody, TLAPS

Steps == RemoteSteps \cup {"current_key", "new_key", "manifest", "open", "seal", "verify"}

-----------------------------------------------------------------------------
(***************************************************************************)
(* Routes.                                                                 *)
(***************************************************************************)

\* Which routes the operations of a kind can take.
LEMMA RouteOfOperation ==
    ASSUME NEW j
    PROVE  /\ j.op = "prepare"          => Route(j) = PrepareRoute
           /\ j.op = "protect_envelope" => Route(j) = EnvelopeProtectRoute
           /\ j.op = "access_envelope"  => Route(j) = EnvelopeAccessRoute
           /\ j.op = "rewrap_envelope"  => Route(j) = EnvelopeRewrapRoute
           /\ j.op = "protect_tdf"      => Route(j) = TdfProtectRoute
           /\ j.op = "access_tdf"       => Route(j) = TdfAccessRoute(j.source)
           /\ j.op \in {"rewrap_tdf", "set_tdf_attributes", "edit_tdf_attributes"} =>
                  Route(j) = TdfRewriteRoute(j.current)
           /\ j.op = "sign"             => Route(j) = SignRoute
           /\ j.op = "verify"           => Route(j) = VerifyRoute
  BY Zenon DEF Route

\* What the proofs need to know of a route: it is a sequence of steps; keys are
\* resolved only by calls that were given one; an artifact is registered right
\* after it is sealed, and attested right after it is registered.
RouteOK(j, r) ==
    /\ r \in Seq(Steps)
    /\ Len(r) >= 1
    /\ \A i \in 1..Len(r) :
        /\ r[i] = "current_key" => j.op \notin Makers
        /\ r[i] = "new_key" => j.op \notin Readers
        /\ r[i] \in {"bootstrap", "register"} => j.op \notin Readers
        /\ r[i] = "register" => i > 1 /\ r[i - 1] = "seal"
        /\ r[i] = "evidence" /\ j.op \notin Readers => i > 1 /\ r[i - 1] = "register"

\* Every route is a non-empty sequence of known steps, and only calls with the
\* matching keys meet the steps that use them.
LEMMA RouteFacts ==
    ASSUME NEW j, j.op \in AllOperations
    PROVE  RouteOK(j, Route(j))
  <1> USE DEF RouteOK, Steps, RemoteSteps, Makers, Readers
  <1>1. CASE j.op = "prepare"
    <2>1. RouteOK(j, PrepareRoute)
      BY <1>1 DEF PrepareRoute
    <2>2. QED
      BY <1>1, <2>1, RouteOfOperation, Zenon
  <1>2. CASE j.op = "protect_envelope"
    <2>1. RouteOK(j, EnvelopeProtectRoute)
      BY <1>2 DEF EnvelopeProtectRoute
    <2>2. QED
      BY <1>2, <2>1, RouteOfOperation, Zenon
  <1>3. CASE j.op = "access_envelope"
    <2>1. RouteOK(j, EnvelopeAccessRoute)
      BY <1>3 DEF EnvelopeAccessRoute
    <2>2. QED
      BY <1>3, <2>1, RouteOfOperation, Zenon
  <1>4. CASE j.op = "rewrap_envelope"
    <2>1. RouteOK(j, EnvelopeRewrapRoute)
      BY <1>4 DEF EnvelopeRewrapRoute
    <2>2. QED
      BY <1>4, <2>1, RouteOfOperation, Zenon
  <1>5. CASE j.op = "protect_tdf"
    <2>1. RouteOK(j, TdfProtectRoute)
      BY <1>5 DEF TdfProtectRoute
    <2>2. QED
      BY <1>5, <2>1, RouteOfOperation, Zenon
  <1>6. CASE j.op = "access_tdf"
    <2>1. RouteOK(j, <<"policy", "key_plan", "current_key", "manifest", "open", "evidence">>)
      BY <1>6
    <2>2. RouteOK(j, <<"manifest", "policy", "key_plan", "current_key", "open", "evidence">>)
      BY <1>6
    <2>3. RouteOK(j, TdfAccessRoute(j.source))
      BY <2>1, <2>2, Zenon DEF TdfAccessRoute
    <2>4. QED
      BY <1>6, <2>3, RouteOfOperation, Zenon
  <1>7. CASE j.op \in {"rewrap_tdf", "set_tdf_attributes", "edit_tdf_attributes"}
    <2>1. RouteOK(j, <<"policy", "key_plan", "current_key", "manifest", "bootstrap",
                       "policy", "plan", "key_plan", "current_key", "new_key", "open",
                       "seal", "register", "evidence">>)
      BY <1>7
    <2>2. RouteOK(j, <<"manifest", "bootstrap", "policy", "plan", "key_plan",
                       "current_key", "new_key", "open", "seal", "register", "evidence">>)
      BY <1>7
    <2>3. RouteOK(j, TdfRewriteRoute(j.current))
      BY <2>1, <2>2, Zenon DEF TdfRewriteRoute
    <2>4. QED
      BY <1>7, <2>3, RouteOfOperation, Zenon
  <1>8. CASE j.op = "sign"
    <2>1. RouteOK(j, SignRoute)
      BY <1>8 DEF SignRoute
    <2>2. QED
      BY <1>8, <2>1, RouteOfOperation, Zenon
  <1>9. CASE j.op = "verify"
    <2>1. RouteOK(j, VerifyRoute)
      BY <1>9 DEF VerifyRoute
    <2>2. QED
      BY <1>9, <2>1, RouteOfOperation, Zenon
  <1>10. QED
    BY <1>1, <1>2, <1>3, <1>4, <1>5, <1>6, <1>7, <1>8, <1>9, Zenon DEF AllOperations

-----------------------------------------------------------------------------
(***************************************************************************)
(* Local variables and keys.                                               *)
(***************************************************************************)

\* A local variable can be assigned without disturbing the others.
LEMMA WorkUpdates ==
    ASSUME NEW w, WorkOK(w)
    PROVE  /\ \A x : WorkOK([w EXCEPT !.desc = x])
           /\ \A x : WorkOK([w EXCEPT !.tenant = x])
           /\ \A x : WorkOK([w EXCEPT !.digest = x])
           /\ \A x : WorkOK([w EXCEPT !.targets = x])
           /\ \A x : WorkOK([w EXCEPT !.plaintext = x])
           /\ \A x : WorkOK([w EXCEPT !.product = x])
           /\ \A x \in KeyTransportMode \cup {"absent"} : WorkOK([w EXCEPT !.mode = x])
           /\ \A x \in Key : WorkOK([w EXCEPT !.current = x])
           /\ \A x \in Key : WorkOK([w EXCEPT !.new = x])
  BY DEF WorkOK

\* The locals every call starts from are well formed.
LEMMA InitialWork ==
    /\ WorkOK(NoWork)
    /\ \A x, y, z : WorkOK([NoWork EXCEPT !.desc = x, !.digest = y, !.plaintext = z])
    /\ \A a, x : WorkOK([OpeningLocals(a) EXCEPT !.plaintext = x])
    /\ \A a : WorkOK(OpeningLocals(a))
  <1>1. WorkOK(NoWork)
    BY DEF WorkOK, NoWork
  <1>2. ASSUME NEW x, NEW y, NEW z
        PROVE  WorkOK([NoWork EXCEPT !.desc = x, !.digest = y, !.plaintext = z])
    <2>1. [NoWork EXCEPT !.desc = x, !.digest = y, !.plaintext = z]
            = [[[NoWork EXCEPT !.desc = x] EXCEPT !.digest = y] EXCEPT !.plaintext = z]
      BY DEF NoWork
    <2>2. WorkOK([NoWork EXCEPT !.desc = x])
      BY <1>1, WorkUpdates
    <2>3. WorkOK([[NoWork EXCEPT !.desc = x] EXCEPT !.digest = y])
      BY <2>2, WorkUpdates
    <2>4. QED
      BY <2>1, <2>3, WorkUpdates
  <1>3. ASSUME NEW a
        PROVE  WorkOK(OpeningLocals(a))
    <2>1. OpeningLocals(a)
            = [[[NoWork EXCEPT !.desc = InitialDescription(a)]
                    EXCEPT !.tenant = a.tenant_id] EXCEPT !.digest = a.content_digest]
      BY DEF NoWork, OpeningLocals
    <2>2. WorkOK([NoWork EXCEPT !.desc = InitialDescription(a)])
      BY <1>1, WorkUpdates
    <2>3. WorkOK([[NoWork EXCEPT !.desc = InitialDescription(a)] EXCEPT !.tenant = a.tenant_id])
      BY <2>2, WorkUpdates
    <2>4. WorkOK([[[NoWork EXCEPT !.desc = InitialDescription(a)] EXCEPT !.tenant = a.tenant_id]
                    EXCEPT !.digest = a.content_digest])
      BY <2>3, WorkUpdates
    <2>5. QED
      BY <2>1, <2>4, Zenon
  <1>4. QED
    BY <1>1, <1>2, <1>3, WorkUpdates

\* A key source names an inline key or a managed reference, by its kind.
LEMMA KeyNames ==
    ASSUME NEW s \in KeySource
    PROVE  IF s.managed THEN s.name \in ManagedRefs ELSE s.name \in InlineKeys
  <1>1. CASE s \in [managed : {TRUE}, name : ManagedRefs]
    <2>1. s.managed \in {TRUE} /\ s.name \in ManagedRefs
      BY <1>1
    <2>2. QED
      BY <2>1, Zenon
  <1>2. CASE s \in [managed : {FALSE}, name : InlineKeys]
    <2>1. s.managed \in {FALSE} /\ s.name \in InlineKeys
      BY <1>2
    <2>2. QED
      BY <2>1, Zenon
  <1>3. QED
    BY <1>1, <1>2 DEF KeySource

\* resolve_symmetric_key_for_runtime yields a key of the model.
LEMMA ResolvedKeyIsKey ==
    ASSUME TypeOK, NEW source \in KeySource
    PROVE  ResolvedKey(source) \in Key
  <1>1. CASE source.managed
    <2>1. source.name \in ManagedRefs /\ keystore[source.name] \in 0..MaxRotations
      BY <1>1, KeyNames DEF TypeOK, PlatformTyped
    <2>2. QED
      BY <1>1, <2>1 DEF ResolvedKey, Key
  <1>2. CASE ~source.managed
    <2>1. source.name \in InlineKeys /\ 0 \in 0..MaxRotations
      BY <1>2, KeyNames, WorkflowAssumption
    <2>2. QED
      BY <1>2, <2>1 DEF ResolvedKey, Key
  <1>3. QED
    BY <1>1, <1>2

-----------------------------------------------------------------------------
(***************************************************************************)
(* The three ways a call changes.                                          *)
(***************************************************************************)

\* A call's typing depends on its own state only.
LEMMA OtherCallOK ==
    ASSUME NEW d, CallOK(d), UNCHANGED <<status[d], job[d], at[d], work[d]>>
    PROVE  CallOK(d)'
  BY DEF CallOK

\* A well-formed job has a route.
LEMMA JobRoute ==
    ASSUME NEW j, JobOK(j)
    PROVE  RouteOK(j, Route(j)) /\ Len(Route(j)) \in Nat
  <1>1. j.op \in AllOperations
    BY WorkflowAssumption DEF JobOK
  <1>2. RouteOK(j, Route(j))
    BY <1>1, RouteFacts
  <1>3. QED
    BY <1>2 DEF RouteOK

\* Proceed keeps the calls typed if the new locals are well formed.
LEMMA ProceedTyped ==
    ASSUME CallsTyped, NEW c \in Calls, status[c] = "running",
           NEW locals, WorkOK(locals), Proceed(c, locals)
    PROVE  CallsTyped'
  <1>1. JobOK(job[c]) /\ at[c] \in 1..Len(Route(job[c])) /\ Len(Route(job[c])) \in Nat
    BY JobRoute DEF CallsTyped, CallOK
  <1>2. job' = job /\ work'[c] = locals /\ at'[c] = at[c] + 1
        /\ status'[c] = IF LastStep(c) THEN "returned" ELSE "running"
    BY DEF CallsTyped, Proceed
  <1>3. CallOK(c)'
    BY <1>1, <1>2 DEF CallOK, LastStep
  <1>4. ASSUME NEW d \in Calls \ {c} PROVE CallOK(d)'
    BY <1>4, OtherCallOK DEF CallsTyped, Proceed
  <1>5. QED
    BY <1>3, <1>4 DEF CallsTyped, Proceed

\* Fail keeps the calls typed.
LEMMA FailTyped ==
    ASSUME CallsTyped, NEW c \in Calls, Fail(c)
    PROVE  CallsTyped'
  <1>1. CallOK(c)'
    BY InitialWork DEF CallsTyped, Fail, CallOK
  <1>2. ASSUME NEW d \in Calls \ {c} PROVE CallOK(d)'
    BY <1>2, OtherCallOK DEF CallsTyped, Fail
  <1>3. QED
    BY <1>1, <1>2 DEF CallsTyped, Fail

\* Begin keeps the calls typed if the arguments and locals are well formed.
LEMMA BeginTyped ==
    ASSUME CallsTyped, NEW c \in Calls, NEW j, JobOK(j),
           NEW locals, WorkOK(locals), Begin(c, j, locals)
    PROVE  CallsTyped'
  <1>1. RouteOK(j, Route(j)) /\ Len(Route(j)) \in Nat
    BY JobRoute
  <1>2. job'[c] = j /\ work'[c] = locals /\ at'[c] = 1 /\ status'[c] = "running"
    BY DEF CallsTyped, Begin
  <1>3. CallOK(c)'
    BY <1>1, <1>2 DEF CallOK, RouteOK
  <1>4. ASSUME NEW d \in Calls \ {c} PROVE CallOK(d)'
    BY <1>4, OtherCallOK DEF CallsTyped, Begin
  <1>5. QED
    BY <1>3, <1>4 DEF CallsTyped, Begin

-----------------------------------------------------------------------------
(***************************************************************************)
(* Type correctness, one lemma per group of actions.                       *)
(***************************************************************************)

\* What the code that runs a step may rely on.
LEMMA RunningCall ==
    ASSUME TypeOK, NEW c \in Calls, NEW step, Running(c, step)
    PROVE  /\ status[c] = "running"
           /\ WorkOK(work[c])
           /\ JobOK(job[c])
           /\ job[c].op \in AllOperations
           /\ at[c] \in 1..Len(Route(job[c]))
           /\ RouteOK(job[c], Route(job[c]))
           /\ Route(job[c])[at[c]] = step
  <1>1. WorkOK(work[c]) /\ JobOK(job[c])
    BY DEF TypeOK, CallsTyped, CallOK, Running
  <1>2. job[c].op \in AllOperations
    BY <1>1, WorkflowAssumption DEF JobOK
  <1>3. QED
    BY <1>1, <1>2, JobRoute DEF TypeOK, CallsTyped, CallOK, Running

\* Makers, readers and rewriters are apart.
LEMMA OperationKinds ==
    /\ AllOperations = Makers \cup Readers \cup Rewriters
    /\ Makers \cap Readers = {} /\ Makers \cap Rewriters = {} /\ Readers \cap Rewriters = {}
  BY DEF AllOperations, Makers, Readers, Rewriters, Editors

\* Beginning a call, or rejecting its bytes, keeps the calls typed.
LEMMA BeginCallTyped ==
    ASSUME TypeOK, NEW c \in Calls, BeginCall(c)
    PROVE  TypeOK'
  <1> CallsTyped /\ PlatformTyped
    BY DEF TypeOK
  <1>1. CASE BeginMaking(c)
    <2>1. PICK op \in Operations \cap Makers, content \in Contents,
               desc \in Descriptions, key \in KeySource :
            Begin(c, [op |-> op, new |-> key],
                  [NoWork EXCEPT !.desc = desc, !.digest = Sha256(content),
                                 !.plaintext = content])
      BY <1>1 DEF BeginMaking
    <2>2. JobOK([op |-> op, new |-> key])
      BY <2>1, OperationKinds DEF JobOK
    <2>3. CallsTyped'
      BY <2>1, <2>2, BeginTyped, InitialWork
    <2>4. PlatformTyped'
      BY <2>1 DEF Begin, PlatformTyped, platformVars
    <2>5. QED
      BY <2>3, <2>4 DEF TypeOK
  <1>2. CASE BeginReading(c)
    <2>0. PICK op \in Operations \cap Readers, a \in Stored, key \in KeySource :
            \E content : Begin(c, [op |-> op, source |-> a, current |-> key],
                               [OpeningLocals(a) EXCEPT !.plaintext = content])
      BY <1>2 DEF BeginReading
    <2>1. PICK content : Begin(c, [op |-> op, source |-> a, current |-> key],
                               [OpeningLocals(a) EXCEPT !.plaintext = content])
      BY <2>0
    <2>2. JobOK([op |-> op, source |-> a, current |-> key])
      BY <2>1, OperationKinds DEF JobOK
    <2>3. CallsTyped'
      BY <2>1, <2>2, BeginTyped, InitialWork
    <2>4. PlatformTyped'
      BY <2>1 DEF Begin, PlatformTyped, platformVars
    <2>5. QED
      BY <2>3, <2>4 DEF TypeOK
  <1>3. CASE BeginRewriting(c)
    <2>0. PICK op \in Operations \cap Rewriters, a \in Stored, current \in KeySource,
               new \in KeySource :
            \E edit : Begin(c, [op |-> op, source |-> a, current |-> current,
                                new |-> new, edit |-> edit], OpeningLocals(a))
      BY <1>3 DEF BeginRewriting
    <2>1. PICK edit : Begin(c, [op |-> op, source |-> a, current |-> current,
                                new |-> new, edit |-> edit], OpeningLocals(a))
      BY <2>0
    <2>2. JobOK([op |-> op, source |-> a, current |-> current, new |-> new, edit |-> edit])
      BY <2>1 DEF JobOK
    <2>3. CallsTyped'
      BY <2>1, <2>2, BeginTyped, InitialWork
    <2>4. PlatformTyped'
      BY <2>1 DEF Begin, PlatformTyped, platformVars
    <2>5. QED
      BY <2>3, <2>4 DEF TypeOK
  <1>4. CASE RejectSource(c)
    <2>1. CallsTyped'
      BY <1>4, FailTyped DEF RejectSource
    <2>2. PlatformTyped'
      BY <1>4 DEF RejectSource, PlatformTyped, platformVars
    <2>3. QED
      BY <2>1, <2>2 DEF TypeOK
  <1>5. QED
    BY <1>1, <1>2, <1>3, <1>4 DEF BeginCall

\* A step that goes on with well-formed locals or fails keeps the calls typed.
LEMMA StepTyped ==
    ASSUME TypeOK, NEW c \in Calls, NEW step, Running(c, step),
           NEW locals, WorkOK(locals), Proceed(c, locals) \/ Fail(c)
    PROVE  CallsTyped'
  BY RunningCall, ProceedTyped, FailTyped DEF TypeOK

\* The requests to the platform keep the types.
LEMMA AskPlatformTyped ==
    ASSUME TypeOK, NEW c \in Calls, AskPlatform(c)
    PROVE  TypeOK'
  <1>1. CASE Bootstrap(c)
    <2>1. CallsTyped'
      BY <1>1, StepTyped, RunningCall DEF Bootstrap
    <2>2. PlatformTyped'
      BY <1>1 DEF Bootstrap, TypeOK, PlatformTyped
    <2>3. QED
      BY <2>1, <2>2 DEF TypeOK
  <1>2. CASE PolicyResolve(c)
    <2>1. PICK r \in PolicyResponses :
            /\ Answered(c, r, Ask(c, "policy", PolicyOperation(job[c].op), "none"),
                        PolicySupportsLocal(r), [work[c] EXCEPT !.targets = r.bind_policy_to])
            /\ objected' = IF PolicyLeavesLocal(r) THEN objected \cup {c} ELSE objected
      BY <1>2 DEF PolicyResolve
    <2>2. WorkOK([work[c] EXCEPT !.targets = r.bind_policy_to]) /\ Running(c, "policy")
      BY <1>2, RunningCall, WorkUpdates DEF PolicyResolve
    <2>3. CallsTyped'
      BY <2>1, <2>2, StepTyped DEF Answered
    <2>4. PlatformTyped'
      BY <2>1 DEF Answered, Ask, TypeOK, PlatformTyped
    <2>5. QED
      BY <2>3, <2>4 DEF TypeOK
  <1>3. CASE ProtectionPlan(c)
    <2>1. PICK r \in PlanResponses :
            /\ Answered(c, r, Ask(c, "plan", PolicyOperation(job[c].op), "none"),
                        PlanSupportsLocal(r), [work[c] EXCEPT !.tenant = BoundTenant(c, r)])
            /\ objected' = IF PlanLeavesLocal(r) THEN objected \cup {c} ELSE objected
      BY <1>3 DEF ProtectionPlan
    <2>2. WorkOK([work[c] EXCEPT !.tenant = BoundTenant(c, r)]) /\ Running(c, "plan")
      BY <1>3, RunningCall, WorkUpdates DEF ProtectionPlan
    <2>3. CallsTyped'
      BY <2>1, <2>2, StepTyped DEF Answered
    <2>4. PlatformTyped'
      BY <2>1 DEF Answered, Ask, TypeOK, PlatformTyped
    <2>5. QED
      BY <2>3, <2>4 DEF TypeOK
  <1>4. CASE KeyAccessPlan(c)
    <2>1. PICK r \in KeyPlanResponses :
            /\ Answered(c, r, Ask(c, "key_plan", KeyOperation(job[c].op),
                                  PlannedKeyReference(job[c])),
                        KeyPlanSupportsLocal(r, KeyOperation(job[c].op), Profile(job[c].op)),
                        [work[c] EXCEPT !.mode = r.key_transport.mode])
            /\ objected' = IF KeyPlanLeavesLocal(r) THEN objected \cup {c} ELSE objected
      BY <1>4 DEF KeyAccessPlan
    <2>2. r.key_transport.mode \in KeyTransportMode \cup {"absent"}
      BY ResponseAssumption DEF KeyPlanResponse, KeyTransport
    <2>3. WorkOK([work[c] EXCEPT !.mode = r.key_transport.mode]) /\ Running(c, "key_plan")
      BY <1>4, <2>2, RunningCall, WorkUpdates DEF KeyAccessPlan
    <2>4. CallsTyped'
      BY <2>1, <2>3, StepTyped DEF Answered
    <2>5. PlatformTyped'
      BY <2>1 DEF Answered, Ask, TypeOK, PlatformTyped
    <2>6. QED
      BY <2>4, <2>5 DEF TypeOK
  <1>5. CASE Register(c)
    <2>1. CallsTyped'
      BY <1>5, StepTyped, RunningCall DEF Register
    <2>2. PlatformTyped'
      BY <1>5 DEF Register, TypeOK, PlatformTyped
    <2>3. QED
      BY <2>1, <2>2 DEF TypeOK
  <1>6. CASE Evidence(c)
    <2>1. CallsTyped'
      BY <1>6, StepTyped, RunningCall DEF Evidence
    <2>2. PlatformTyped'
      BY <1>6 DEF Evidence, TypeOK, PlatformTyped
    <2>3. QED
      BY <2>1, <2>2 DEF TypeOK
  <1>7. QED
    BY <1>1, <1>2, <1>3, <1>4, <1>5, <1>6 DEF AskPlatform

\* The local steps keep the types.
LEMMA ComputeLocallyTyped ==
    ASSUME TypeOK, NEW c \in Calls, ComputeLocally(c)
    PROVE  TypeOK'
  <1>1. PlatformTyped'
    BY DEF TypeOK, ComputeLocally, ResolveCurrentKey, ResolveNewKey, ProviderFails,
       OpenManifest, OpenContent, Seal, Verify, PlatformTyped, platformVars
  <1>2. CallsTyped'
    <2>1. CASE ResolveCurrentKey(c)
      <3>1. job[c].current \in KeySource /\ WorkOK(work[c]) /\ Running(c, "current_key")
        BY <2>1, RunningCall, OperationKinds DEF ResolveCurrentKey, JobOK, RouteOK
      <3>2. WorkOK([work[c] EXCEPT !.current = ResolvedKey(job[c].current)])
        BY <3>1, ResolvedKeyIsKey, WorkUpdates
      <3>3. QED
        BY <2>1, <3>1, <3>2, StepTyped DEF ResolveCurrentKey
    <2>2. CASE ResolveNewKey(c)
      <3>1. job[c].new \in KeySource /\ WorkOK(work[c]) /\ Running(c, "new_key")
        BY <2>2, RunningCall, OperationKinds DEF ResolveNewKey, JobOK, RouteOK
      <3>2. WorkOK([work[c] EXCEPT !.new = ResolvedKey(job[c].new)])
        BY <3>1, ResolvedKeyIsKey, WorkUpdates
      <3>3. QED
        BY <2>2, <3>1, <3>2, StepTyped DEF ResolveNewKey
    <2>3. CASE ProviderFails(c)
      BY <2>3, FailTyped DEF TypeOK, ProviderFails
    <2>4. CASE OpenManifest(c)
      <3>1. \A d : WorkOK([work[c] EXCEPT !.desc = d])
        BY <2>4, RunningCall, WorkUpdates DEF OpenManifest
      <3>2. QED
        BY <2>4, <3>1, StepTyped DEF OpenManifest
    <2>5. CASE OpenContent(c)
      <3>1. \A p : WorkOK([work[c] EXCEPT !.plaintext = p])
        BY <2>5, RunningCall, WorkUpdates DEF OpenContent
      <3>2. QED
        BY <2>5, <3>1, StepTyped DEF OpenContent
    <2>6. CASE Seal(c)
      <3>1. WorkOK([work[c] EXCEPT !.product = Product(c)])
        BY <2>6, RunningCall, WorkUpdates DEF Seal
      <3>2. QED
        BY <2>6, <3>1, StepTyped DEF Seal
    <2>7. CASE Verify(c)
      BY <2>7, StepTyped, RunningCall DEF Verify
    <2>8. QED
      BY <2>1, <2>2, <2>3, <2>4, <2>5, <2>6, <2>7 DEF ComputeLocally
  <1>3. QED
    BY <1>1, <1>2 DEF TypeOK

\* A transport error keeps the types.
LEMMA ConnectionFailsTyped ==
    ASSUME TypeOK, NEW c \in Calls, ConnectionFails(c)
    PROVE  TypeOK'
  <1>1. CallsTyped'
    BY FailTyped DEF TypeOK, ConnectionFails
  <1>2. PlatformTyped'
    BY DEF TypeOK, ConnectionFails, PlatformTyped, platformVars
  <1>3. QED
    BY <1>1, <1>2 DEF TypeOK

\* A rotation keeps the types.
LEMMA RotateKeyTyped ==
    ASSUME TypeOK, NEW ref \in ManagedRefs, RotateKey(ref)
    PROVE  TypeOK'
  <1>1. CallsTyped'
    BY OtherCallOK DEF TypeOK, RotateKey, CallsTyped, callVars
  <1>2. PlatformTyped'
    BY WorkflowAssumption DEF TypeOK, RotateKey, PlatformTyped, platformVars
  <1>3. QED
    BY <1>1, <1>2 DEF TypeOK

\* So does a step that changes nothing.
LEMMA StutterTyped ==
    ASSUME TypeOK, UNCHANGED vars
    PROVE  TypeOK'
  <1>1. CallsTyped'
    BY OtherCallOK DEF TypeOK, vars, CallsTyped
  <1>2. PlatformTyped'
    BY DEF TypeOK, vars, PlatformTyped
  <1>3. QED
    BY <1>1, <1>2 DEF TypeOK

\* The initial states are typed.
LEMMA TypeInit == Init => TypeOK
  <1> SUFFICES ASSUME Init PROVE TypeOK
    OBVIOUS
  <1>1. PlatformTyped
    BY WorkflowAssumption DEF Init, PlatformTyped
  <1>2. ASSUME NEW c \in Calls PROVE CallOK(c)
    <2>1. status[c] = "idle" /\ job[c] = NoJob /\ work[c] = NoWork
      BY DEF Init
    <2>2. QED
      BY <2>1, InitialWork DEF CallOK
  <1>3. CallsTyped
    BY <1>2 DEF Init, CallsTyped
  <1>4. QED
    BY <1>1, <1>3 DEF TypeOK

\* Every step keeps the types.
LEMMA TypeStep == TypeOK /\ [Next]_vars => TypeOK'
  BY BeginCallTyped, AskPlatformTyped, ComputeLocallyTyped, ConnectionFailsTyped,
     RotateKeyTyped, StutterTyped DEF Next

\* TypeOK: keys, positions on routes and dropped locals, for every platform.
THEOREM TypeCorrect == Spec => []TypeOK
  BY TypeInit, TypeStep, PTL DEF Spec

-----------------------------------------------------------------------------
(***************************************************************************)
(* The contract: an answer that takes work out of the local library never  *)
(* passes the check made of it.                                            *)
(***************************************************************************)

\* An answer the SDK accepts never leaves the local library (the ensure_* checks
\* of local.rs against the answers FailsClosed is about).
LEMMA ObjectionsAreRefused ==
    ASSUME NEW r
    PROVE  /\ BootstrapLeavesLocal(r) =>
                 /\ \A preferred : ~BootstrapSupportsProtection(r, preferred)
                 /\ \A profile : ~BootstrapSupportsRewrap(r, profile)
           /\ PolicyLeavesLocal(r) => ~PolicySupportsLocal(r)
           /\ PlanLeavesLocal(r) => ~PlanSupportsLocal(r)
           /\ KeyPlanLeavesLocal(r) =>
                 \A operation, profile : ~KeyPlanSupportsLocal(r, operation, profile)
  BY DEF BootstrapLeavesLocal, BootstrapSupportsProtection, BootstrapSupportsRewrap,
         PolicyLeavesLocal, PolicySupportsLocal, PlanLeavesLocal, PlanSupportsLocal,
         KeyPlanLeavesLocal, KeyPlanSupportsLocal, TransportLeavesLocal, TransportFailsClosed

\* The only call whose status a step changes was not failed before, and it is
\* objected to afterwards only if it failed.
LEMMA OneCallObjected ==
    ASSUME TypeOK, FailsClosed, NEW c \in Calls, status[c] # "failed",
           NEW s, status' = [status EXCEPT ![c] = s],
           objected' \subseteq objected \cup {c}, c \in objected' => s = "failed"
    PROVE  FailsClosed'
  BY DEF TypeOK, CallsTyped, PlatformTyped, FailsClosed

\* A step of a call moves that call's status only.
LEMMA ProceedOrFailStatus ==
    ASSUME NEW c, NEW locals
    PROVE  /\ Proceed(c, locals) => \E s : status' = [status EXCEPT ![c] = s]
           /\ Fail(c) => status' = [status EXCEPT ![c] = "failed"]
  BY DEF Proceed, Fail

\* A step that leaves objected alone.
LEMMA NoNewObjection ==
    ASSUME TypeOK, FailsClosed, NEW c \in Calls, status[c] # "failed",
           NEW s, status' = [status EXCEPT ![c] = s], objected' = objected
    PROVE  FailsClosed'
  <1>1. c \notin objected
    BY DEF FailsClosed
  <1>2. QED
    BY <1>1, OneCallObjected

\* A step that may add an objection and then fails.
LEMMA NewObjection ==
    ASSUME TypeOK, FailsClosed, NEW c \in Calls, status[c] # "failed", NEW locals,
           \/ Proceed(c, locals) /\ objected' = objected
           \/ Fail(c) /\ objected' \in {objected, objected \cup {c}}
    PROVE  FailsClosed'
  <1>1. CASE Proceed(c, locals) /\ objected' = objected
    BY <1>1, ProceedOrFailStatus, NoNewObjection
  <1>2. CASE Fail(c) /\ objected' \in {objected, objected \cup {c}}
    BY <1>2, ProceedOrFailStatus, OneCallObjected
  <1>3. QED
    BY <1>1, <1>2

\* No request to the platform leaves an objected call alive.
LEMMA FailsClosedAsk ==
    ASSUME TypeOK, FailsClosed, NEW c \in Calls, AskPlatform(c)
    PROVE  FailsClosed'
  <1>1. CASE Bootstrap(c)
    BY <1>1, ObjectionsAreRefused, NewObjection DEF Bootstrap, Running
  <1>2. CASE PolicyResolve(c)
    BY <1>2, ObjectionsAreRefused, NewObjection DEF PolicyResolve, Answered, Running
  <1>3. CASE ProtectionPlan(c)
    BY <1>3, ObjectionsAreRefused, NewObjection DEF ProtectionPlan, Answered, Running
  <1>4. CASE KeyAccessPlan(c)
    BY <1>4, ObjectionsAreRefused, NewObjection DEF KeyAccessPlan, Answered, Running
  <1>5. CASE Register(c)
    BY <1>5, NewObjection DEF Register, RegistrationSupportsLocal, Running
  <1>6. CASE Evidence(c)
    BY <1>6, NewObjection DEF Evidence, EvidenceSupportsLocal, Running
  <1>7. QED
    BY <1>1, <1>2, <1>3, <1>4, <1>5, <1>6 DEF AskPlatform

\* No local step revives a failed call.
LEMMA FailsClosedCompute ==
    ASSUME TypeOK, FailsClosed, NEW c \in Calls, ComputeLocally(c)
    PROVE  FailsClosed'
  <1>1. objected' = objected
    BY DEF ComputeLocally, ResolveCurrentKey, ResolveNewKey, ProviderFails, OpenManifest,
           OpenContent, Seal, Verify, platformVars
  <1>2. status[c] = "running" /\ \E locals : Proceed(c, locals) \/ Fail(c)
    BY DEF ComputeLocally, ResolveCurrentKey, ResolveNewKey, ProviderFails, OpenManifest,
           OpenContent, Seal, Verify, Running
  <1>3. QED
    BY <1>1, <1>2, NewObjection

\* Every step keeps FailsClosed.
LEMMA FailsClosedStep == TypeOK /\ FailsClosed /\ [Next]_vars => FailsClosed'
  <1> SUFFICES ASSUME TypeOK, FailsClosed, [Next]_vars PROVE FailsClosed'
    OBVIOUS
  <1>1. ASSUME NEW c \in Calls, BeginCall(c) PROVE FailsClosed'
    BY <1>1, NoNewObjection DEF BeginCall, BeginMaking, BeginReading, BeginRewriting,
       RejectSource, Begin, Fail, platformVars
  <1>2. ASSUME NEW c \in Calls, ConnectionFails(c) PROVE FailsClosed'
    BY <1>2, NoNewObjection DEF ConnectionFails, Fail, platformVars
  <1>3. ASSUME NEW ref \in ManagedRefs, RotateKey(ref) PROVE FailsClosed'
    BY <1>3 DEF RotateKey, callVars, platformVars, FailsClosed
  <1>4. CASE UNCHANGED vars
    BY <1>4 DEF vars, FailsClosed
  <1>5. QED
    BY <1>1, <1>2, <1>3, <1>4, FailsClosedAsk, FailsClosedCompute DEF Next

\* FailsClosed, for every platform: an answer under which plaintext or raw keys
\* could leave, or enforcement would not be local, ends its call with an error.
THEOREM CallsFailClosed == Spec => []FailsClosed
  <1>1. Init => FailsClosed
    BY DEF Init, FailsClosed
  <1>2. QED
    BY <1>1, FailsClosedStep, TypeCorrect, PTL DEF Spec

-----------------------------------------------------------------------------
(***************************************************************************)
(* Evidence follows registration.  The invariant is not inductive alone:   *)
(* the step that writes evidence does not look at the catalog, so a call   *)
(* that is about to attest must be known to have registered.               *)
(***************************************************************************)

IsRegistered(c) ==
    \E r \in catalog :
        /\ r.digest = Sha256(work[c].product)
        /\ r.operation = PolicyOperation(job[c].op)

AboutToAttest(c) == Running(c, "evidence") /\ job[c].op \notin Readers

RegisteredBeforeEvidence == \A c \in Calls : AboutToAttest(c) => IsRegistered(c)

RecordInv == EvidenceFollowsRegistration /\ RegisteredBeforeEvidence

\* A call that a step does not touch stays registered.
LEMMA OtherIsRegistered ==
    ASSUME NEW d, AboutToAttest(d) => IsRegistered(d), catalog \subseteq catalog',
           UNCHANGED <<status[d], job[d], at[d], work[d]>>
    PROVE  AboutToAttest(d)' => IsRegistered(d)'
  BY DEF AboutToAttest, IsRegistered, Running

\* Only the step that registers leads to the one that attests.
LEMMA OnlyRegisterPrecedesEvidence ==
    ASSUME TypeOK, NEW c \in Calls, NEW step, Running(c, step), step # "register",
           NEW locals, Proceed(c, locals)
    PROVE  ~AboutToAttest(c)'
  <1>1. /\ RouteOK(job[c], Route(job[c]))
        /\ Route(job[c])[at[c]] = step
        /\ at[c] \in 1..Len(Route(job[c]))
    BY RunningCall
  <1>2. job' = job /\ at'[c] = at[c] + 1 /\ at[c] \in Nat
        /\ status'[c] = IF LastStep(c) THEN "returned" ELSE "running"
    BY DEF Proceed, TypeOK, CallsTyped
  <1>3. CASE LastStep(c)
    BY <1>2, <1>3 DEF AboutToAttest, Running
  <1>4. CASE ~LastStep(c)
    <2>1. at[c] + 1 \in 1..Len(Route(job[c])) /\ (at[c] + 1) - 1 = at[c]
      BY <1>1, <1>2, <1>4 DEF LastStep, RouteOK
    <2>2. Route(job[c])[at[c] + 1] = "evidence" => job[c].op \in Readers
      BY <1>1, <2>1 DEF RouteOK
    <2>3. QED
      BY <1>2, <2>2 DEF AboutToAttest, Running
  <1>5. QED
    BY <1>3, <1>4

\* Proceed and Fail touch the locals of one call.
LEMMA OthersUntouched ==
    ASSUME TypeOK, NEW c \in Calls, NEW d \in Calls \ {c}
    PROVE  /\ \A locals : Proceed(c, locals) => UNCHANGED <<status[d], job[d], at[d], work[d]>>
           /\ \A j, locals : Begin(c, j, locals) => UNCHANGED <<status[d], job[d], at[d], work[d]>>
           /\ Fail(c) => UNCHANGED <<status[d], job[d], at[d], work[d]>>
  BY DEF TypeOK, CallsTyped, Proceed, Begin, Fail

\* Steps that neither register nor attest.
LEMMA RecordsUntouched ==
    ASSUME TypeOK, RecordInv, NEW c \in Calls, UNCHANGED <<catalog, ledger>>,
           NEW step, NEW locals,
           (Running(c, step) /\ step # "register" /\ Proceed(c, locals)) \/ Fail(c)
    PROVE  RecordInv'
  <1>1. EvidenceFollowsRegistration'
    BY DEF RecordInv, EvidenceFollowsRegistration
  <1>2. ~AboutToAttest(c)'
    <2>1. CASE Fail(c)
      BY <2>1 DEF Fail, AboutToAttest, Running, TypeOK, CallsTyped
    <2>2. QED
      BY <2>1, OnlyRegisterPrecedesEvidence
  <1>3. ASSUME NEW d \in Calls \ {c} PROVE AboutToAttest(d)' => IsRegistered(d)'
    BY <1>3, OthersUntouched, OtherIsRegistered DEF RecordInv, RegisteredBeforeEvidence
  <1>4. QED
    BY <1>1, <1>2, <1>3 DEF RecordInv, RegisteredBeforeEvidence

\* artifact_register keeps the inductive invariant, its answer lost or not.
LEMMA RecordInvRegister ==
    ASSUME TypeOK, RecordInv, NEW c \in Calls, Register(c)
    PROVE  RecordInv'
  <1>1. catalog \subseteq catalog' /\ ledger' = ledger
        /\ (Proceed(c, work[c]) \/ Fail(c))
    BY DEF Register
  <1>2. EvidenceFollowsRegistration'
    BY <1>1 DEF RecordInv, EvidenceFollowsRegistration
  <1>3. AboutToAttest(c)' => IsRegistered(c)'
    <2>1. CASE Fail(c)
      BY <2>1 DEF Fail, AboutToAttest, Running, TypeOK, CallsTyped
    <2>2. CASE Proceed(c, work[c]) /\ ~Fail(c)
      <3>1. Registration(c) \in catalog'
        BY <2>2 DEF Register, RegistrationSupportsLocal
      <3>2. job' = job /\ work'[c] = work[c]
        BY <2>2 DEF Proceed, TypeOK, CallsTyped
      <3>3. /\ Registration(c).digest = Sha256(work[c].product)
            /\ Registration(c).operation = PolicyOperation(job[c].op)
        BY DEF Registration
      <3>4. QED
        BY <3>1, <3>2, <3>3 DEF IsRegistered
    <2>3. QED
      BY <1>1, <2>1, <2>2
  <1>4. ASSUME NEW d \in Calls \ {c} PROVE AboutToAttest(d)' => IsRegistered(d)'
    BY <1>1, <1>4, OthersUntouched, OtherIsRegistered DEF RecordInv, RegisteredBeforeEvidence
  <1>5. QED
    BY <1>2, <1>3, <1>4 DEF RecordInv, RegisteredBeforeEvidence

\* evidence keeps the inductive invariant, its answer lost or not.
LEMMA RecordInvEvidence ==
    ASSUME TypeOK, RecordInv, NEW c \in Calls, Evidence(c)
    PROVE  RecordInv'
  <1>1. /\ catalog' = catalog
        /\ ledger' \in {ledger, ledger \cup {EvidenceRecord(c)}}
        /\ Running(c, "evidence")
        /\ Proceed(c, work[c]) \/ Fail(c)
    BY DEF Evidence
  <1>2. EvidenceRecord(c).event \in {"protect", "rewrap"} => IsRegistered(c)
    <2>1. EvidenceRecord(c).event = PolicyOperation(job[c].op)
      BY DEF EvidenceRecord
    <2>2. job[c].op \in Readers => PolicyOperation(job[c].op) = "access"
      BY OperationKinds DEF PolicyOperation
    <2>3. QED
      BY <1>1, <2>1, <2>2 DEF RecordInv, RegisteredBeforeEvidence, AboutToAttest
  <1>3. EvidenceRecord(c).event \in {"protect", "rewrap"} =>
            /\ EvidenceRecord(c).digest = Sha256(work[c].product)
            /\ EvidenceRecord(c).event = PolicyOperation(job[c].op)
    BY OperationKinds DEF EvidenceRecord, PolicyOperation
  <1>4. EvidenceFollowsRegistration'
    BY <1>1, <1>2, <1>3 DEF RecordInv, EvidenceFollowsRegistration, IsRegistered
  <1>5. ~AboutToAttest(c)'
    <2>1. CASE Fail(c)
      BY <2>1 DEF Fail, AboutToAttest, Running, TypeOK, CallsTyped
    <2>2. QED
      BY <1>1, <2>1, OnlyRegisterPrecedesEvidence
  <1>6. ASSUME NEW d \in Calls \ {c} PROVE AboutToAttest(d)' => IsRegistered(d)'
    BY <1>1, <1>6, OthersUntouched, OtherIsRegistered DEF RecordInv, RegisteredBeforeEvidence
  <1>7. QED
    BY <1>4, <1>5, <1>6 DEF RecordInv, RegisteredBeforeEvidence

\* A call that begins has registered nothing and stands before no record.
LEMMA RecordInvBegin ==
    ASSUME TypeOK, TypeOK', RecordInv, NEW c \in Calls, BeginCall(c)
    PROVE  RecordInv'
  <1>1. UNCHANGED <<catalog, ledger>>
    BY DEF BeginCall, BeginMaking, BeginReading, BeginRewriting, RejectSource, Begin, platformVars
  <1>2. EvidenceFollowsRegistration'
    BY <1>1 DEF RecordInv, EvidenceFollowsRegistration
  <1>3. (\E j, locals : Begin(c, j, locals)) \/ Fail(c)
    BY DEF BeginCall, BeginMaking, BeginReading, BeginRewriting, RejectSource
  <1>4. ~AboutToAttest(c)'
    <2>1. CASE Fail(c)
      BY <2>1 DEF Fail, AboutToAttest, Running, TypeOK, CallsTyped
    <2>2. CASE \E j, locals : Begin(c, j, locals)
      <3>1. at'[c] = 1 /\ status'[c] = "running"
        BY <2>2 DEF Begin, TypeOK, CallsTyped
      <3>2. JobOK(job'[c]) /\ at'[c] \in 1..Len(Route(job'[c]))
        BY <3>1 DEF TypeOK, CallsTyped, CallOK, JobOK
      <3>3. RouteOK(job'[c], Route(job'[c]))
        BY <3>2, JobRoute
      <3>4. Route(job'[c])[1] = "evidence" => job'[c].op \in Readers
        BY <3>1, <3>2, <3>3 DEF RouteOK
      <3>5. QED
        BY <3>1, <3>4 DEF AboutToAttest, Running
    <2>3. QED
      BY <1>3, <2>1, <2>2
  <1>5. ASSUME NEW d \in Calls \ {c} PROVE AboutToAttest(d)' => IsRegistered(d)'
    BY <1>1, <1>3, <1>5, OthersUntouched, OtherIsRegistered
    DEF RecordInv, RegisteredBeforeEvidence
  <1>6. QED
    BY <1>2, <1>4, <1>5 DEF RecordInv, RegisteredBeforeEvidence

\* Every step keeps the inductive invariant.
LEMMA RecordInvStep == TypeOK /\ TypeOK' /\ RecordInv /\ [Next]_vars => RecordInv'
  <1> SUFFICES ASSUME TypeOK, TypeOK', RecordInv, [Next]_vars PROVE RecordInv'
    OBVIOUS
  <1>1. ASSUME NEW c \in Calls, AskPlatform(c) PROVE RecordInv'
    <2>1. CASE Bootstrap(c)
      BY <2>1, RecordsUntouched DEF Bootstrap
    <2>2. CASE PolicyResolve(c)
      BY <2>2, RecordsUntouched DEF PolicyResolve, Answered
    <2>3. CASE ProtectionPlan(c)
      BY <2>3, RecordsUntouched DEF ProtectionPlan, Answered
    <2>4. CASE KeyAccessPlan(c)
      BY <2>4, RecordsUntouched DEF KeyAccessPlan, Answered
    <2>5. QED
      BY <1>1, <2>1, <2>2, <2>3, <2>4, RecordInvRegister, RecordInvEvidence DEF AskPlatform
  <1>2. ASSUME NEW c \in Calls, ComputeLocally(c) PROVE RecordInv'
    <2>1. UNCHANGED <<catalog, ledger>>
      BY <1>2 DEF ComputeLocally, ResolveCurrentKey, ResolveNewKey, ProviderFails,
         OpenManifest, OpenContent, Seal, Verify, platformVars
    <2>2. \E step, locals :
            (Running(c, step) /\ step # "register" /\ Proceed(c, locals)) \/ Fail(c)
      BY <1>2 DEF ComputeLocally, ResolveCurrentKey, ResolveNewKey, ProviderFails,
         OpenManifest, OpenContent, Seal, Verify
    <2>3. QED
      BY <2>1, <2>2, RecordsUntouched
  <1>3. ASSUME NEW c \in Calls, ConnectionFails(c) PROVE RecordInv'
    BY <1>3, RecordsUntouched DEF ConnectionFails, platformVars
  <1>4. ASSUME NEW ref \in ManagedRefs, RotateKey(ref) PROVE RecordInv'
    BY <1>4 DEF RotateKey, callVars, platformVars, RecordInv, EvidenceFollowsRegistration,
       RegisteredBeforeEvidence, AboutToAttest, IsRegistered, Running
  <1>5. CASE UNCHANGED vars
    BY <1>5 DEF vars, RecordInv, EvidenceFollowsRegistration,
       RegisteredBeforeEvidence, AboutToAttest, IsRegistered, Running
  <1>6. QED
    BY <1>1, <1>2, <1>3, <1>4, <1>5, RecordInvBegin DEF Next

\* EvidenceFollowsRegistration, for every platform and any number of calls:
\* whatever answers are rejected or lost, nothing is attested as protected or
\* rewrapped that was not registered as such.
THEOREM EvidenceNeverRunsAhead == Spec => []EvidenceFollowsRegistration
  <1>1. Init => RecordInv
    BY DEF Init, RecordInv, EvidenceFollowsRegistration, RegisteredBeforeEvidence,
       AboutToAttest, Running
  <1>2. RecordInv => EvidenceFollowsRegistration
    BY DEF RecordInv
  <1>3. QED
    BY <1>1, <1>2, RecordInvStep, TypeCorrect, PTL DEF Spec

-----------------------------------------------------------------------------
(***************************************************************************)
(* Authority: what is released and what is sealed, the platform allowed in *)
(* the same call, under the description that is really bound.              *)
(***************************************************************************)

Asking == {"policy", "plan", "key_plan"}

\* The operation a request of each kind names.
OperationOf(j, step) ==
    IF step = "key_plan" THEN KeyOperation(j.op) ELSE PolicyOperation(j.op)

\* A rewritten TDF is described by its manifest, so what was asked about before it
\* was opened no longer counts.  A read has to find what it asked about.
Counts(j, r, i, n) ==
    /\ i \in 1..(n - 1)
    /\ r[i] \in Asking
    /\ j.op \notin Readers => \A k \in (i + 1)..(n - 1) : r[k] # "manifest"

-----------------------------------------------------------------------------
(***************************************************************************)
(* Routes.                                                                 *)
(***************************************************************************)

\* Position p, the only one that may seal, comes after a round of requests at i.
RoundBeforeSeal(r, i, p) ==
    /\ i \in 1..Len(r) /\ i + 2 < p
    /\ r[i] = "policy" /\ r[i + 1] = "plan" /\ r[i + 2] = "key_plan"
    /\ \A k \in i..p : r[k] # "manifest"
    /\ \A k \in 1..Len(r) : r[k] = "seal" => k = p

SealRoute(j, r) ==
    \/ \A k \in 1..Len(r) : r[k] # "seal"
    \/ j.op \notin Readers /\ \E i, p \in Nat : RoundBeforeSeal(r, i, p)

\* The manifest of an accessed TDF is opened at most once, before anything is asked
\* or when there was something to ask about.
ManifestOfRead(j, r) ==
    \A m \in 1..Len(r) : r[m] = "manifest" =>
        /\ j.op = "access_tdf"
        /\ \A k \in 1..Len(r) : r[k] = "manifest" => k = m
        /\ m = 1 \/ j.source.policy_context # {}

\* A read asks about the access and the key, opens a TDF, and ends with evidence.
ReadRoute(j, r) ==
    /\ \E i \in 1..Len(r) : r[i] = "policy"
    /\ \E i \in 1..Len(r) : r[i] = "key_plan"
    /\ j.op = "access_tdf" => \E m \in 1..Len(r) : r[m] = "manifest"
    /\ r[Len(r)] = "evidence"
    /\ ManifestOfRead(j, r)

AuthorityRoute(j, r) == SealRoute(j, r) /\ (j.op \in Readers => ReadRoute(j, r))

LEMMA MakersRoute ==
    ASSUME NEW j, j.op \in Makers
    PROVE  AuthorityRoute(j, Route(j))
<1>0. j.op \notin Readers
  BY OperationKinds
<1>1. CASE j.op = "prepare"
  <2>1. AuthorityRoute(j, PrepareRoute)
    BY <1>0 DEF PrepareRoute, AuthorityRoute, SealRoute
  <2> QED BY <1>1, <2>1, RouteOfOperation, Zenon
<1>2. CASE j.op = "protect_envelope"
  <2>1. RoundBeforeSeal(EnvelopeProtectRoute, 2, 6)
    BY DEF EnvelopeProtectRoute, RoundBeforeSeal
  <2>2. AuthorityRoute(j, EnvelopeProtectRoute)
    BY <1>0, <2>1 DEF AuthorityRoute, SealRoute
  <2> QED BY <1>2, <2>2, RouteOfOperation, Zenon
<1>3. CASE j.op = "protect_tdf"
  <2>1. RoundBeforeSeal(TdfProtectRoute, 2, 6)
    BY DEF TdfProtectRoute, RoundBeforeSeal
  <2>2. AuthorityRoute(j, TdfProtectRoute)
    BY <1>0, <2>1 DEF AuthorityRoute, SealRoute
  <2> QED BY <1>3, <2>2, RouteOfOperation, Zenon
<1>4. CASE j.op = "sign"
  <2>1. RoundBeforeSeal(SignRoute, 2, 5)
    BY DEF SignRoute, RoundBeforeSeal
  <2>2. AuthorityRoute(j, SignRoute)
    BY <1>0, <2>1 DEF AuthorityRoute, SealRoute
  <2> QED BY <1>4, <2>2, RouteOfOperation, Zenon
<1> QED BY <1>1, <1>2, <1>3, <1>4 DEF Makers

LEMMA RewritersRoute ==
    ASSUME NEW j, j.op \in Rewriters
    PROVE  AuthorityRoute(j, Route(j))
<1>0. j.op \notin Readers
  BY OperationKinds
<1>1. CASE j.op = "rewrap_envelope"
  <2>1. RoundBeforeSeal(EnvelopeRewrapRoute, 2, 8)
    BY DEF EnvelopeRewrapRoute, RoundBeforeSeal
  <2>2. AuthorityRoute(j, EnvelopeRewrapRoute)
    BY <1>0, <2>1 DEF AuthorityRoute, SealRoute
  <2> QED BY <1>1, <2>2, RouteOfOperation, Zenon
<1>2. CASE j.op \in {"rewrap_tdf", "set_tdf_attributes", "edit_tdf_attributes"}
  <2>1. RoundBeforeSeal(<<"policy", "key_plan", "current_key", "manifest",
                          "bootstrap", "policy", "plan", "key_plan", "current_key", "new_key",
                          "open", "seal", "register", "evidence">>, 6, 12)
    BY DEF RoundBeforeSeal
  <2>2. RoundBeforeSeal(<<"manifest",
                          "bootstrap", "policy", "plan", "key_plan", "current_key", "new_key",
                          "open", "seal", "register", "evidence">>, 3, 9)
    BY DEF RoundBeforeSeal
  <2>3. \E i, p \in Nat : RoundBeforeSeal(TdfRewriteRoute(j.current), i, p)
    BY <2>1, <2>2 DEF TdfRewriteRoute
  <2>4. AuthorityRoute(j, TdfRewriteRoute(j.current))
    BY <1>0, <2>3, Zenon DEF AuthorityRoute, SealRoute
  <2> QED BY <1>2, <2>4, RouteOfOperation, Zenon
<1> QED BY <1>1, <1>2 DEF Rewriters, Editors

LEMMA ReadersRoute ==
    ASSUME NEW j, j.op \in Readers
    PROVE  AuthorityRoute(j, Route(j))
<1>1. CASE j.op = "access_envelope"
  <2>1. AuthorityRoute(j, EnvelopeAccessRoute)
    BY <1>1 DEF EnvelopeAccessRoute, AuthorityRoute, SealRoute, ReadRoute, ManifestOfRead
  <2> QED BY <1>1, <2>1, RouteOfOperation, Zenon
<1>2. CASE j.op = "verify"
  <2>1. AuthorityRoute(j, VerifyRoute)
    BY <1>2 DEF VerifyRoute, AuthorityRoute, SealRoute, ReadRoute, ManifestOfRead
  <2> QED BY <1>2, <2>1, RouteOfOperation, Zenon
<1>3. CASE j.op = "access_tdf"
  <2>1. ASSUME j.source.policy_context # {}
        PROVE  AuthorityRoute(j, <<"policy", "key_plan", "current_key", "manifest", "open",
                                   "evidence">>)
    BY <1>3, <2>1 DEF AuthorityRoute, SealRoute, ReadRoute, ManifestOfRead
  <2>2. AuthorityRoute(j, <<"manifest", "policy", "key_plan", "current_key", "open",
                            "evidence">>)
    BY <1>3 DEF AuthorityRoute, SealRoute, ReadRoute, ManifestOfRead
  <2>3. AuthorityRoute(j, TdfAccessRoute(j.source))
    BY <2>1, <2>2, Zenon DEF TdfAccessRoute
  <2> QED BY <1>3, <2>3, RouteOfOperation, Zenon
<1> QED BY <1>1, <1>2, <1>3 DEF Readers

\* What the proofs need to know of a route.
LEMMA AuthorityRoutes ==
    ASSUME NEW j, j.op \in AllOperations
    PROVE  AuthorityRoute(j, Route(j))
BY MakersRoute, ReadersRoute, RewritersRoute, OperationKinds

-----------------------------------------------------------------------------
(***************************************************************************)
(* The inductive invariant.  What is allowed is remembered in grants, what *)
(* a call is about in its locals: they have to agree until the call seals, *)
(* or hands over what it read.                                             *)
(***************************************************************************)

\* Whatever counts was allowed, about what the call is working on.
AskedOK(c) ==
    \A i \in Nat : Counts(job[c], Route(job[c]), i, at[c]) =>
        Granted(c, Route(job[c])[i], OperationOf(job[c], Route(job[c])[i]),
                work[c].desc, work[c].digest)

\* The manifest is behind the call.
Opened(c) == \E k \in 1..(at[c] - 1) : Route(job[c])[k] = "manifest"

AccessRecord(c) ==
    [event |-> "access", digest |-> Sha256(job[c].source), about |-> work[c].desc]

\* A read works on its artifact and ends on the record.
ReadOK(c) ==
    job[c].op \in Readers =>
        LET a == job[c].source IN
        /\ Profile(job[c].op) = a.artifact_profile
        /\ work[c].digest = a.content_digest
        /\ work[c].desc = IF Opened(c) THEN Description(a) ELSE InitialDescription(a)
        /\ at[c] = Len(Route(job[c])) + 1 => AccessRecord(c) \in ledger

SealedOK(c) ==
    Sealed(c) =>
        LET a  == work[c].product
            op == job[c].op
        IN  /\ Granted(c, "policy", PolicyOperation(op), Description(a), a.content_digest)
            /\ Granted(c, "plan", PolicyOperation(op), Description(a), a.content_digest)
            /\ Granted(c, "key_plan", KeyOperation(op), Description(a), a.content_digest)

AuthorityOK(c) ==
    /\ status[c] \in {"running", "returned"} => AskedOK(c) /\ ReadOK(c)
    /\ SealedOK(c)

AuthorityInv == \A c \in Calls : AuthorityOK(c)

-----------------------------------------------------------------------------
(***************************************************************************)
(* What a step does, as far as authority is concerned.                     *)
(***************************************************************************)

Goes(c, step, locals) ==
    /\ Running(c, step) /\ Proceed(c, locals)
    /\ locals.digest = work[c].digest
    /\ IF step = "manifest"
       THEN /\ TdfManifestTrusted(ManifestKey(c), job[c].source)
            /\ locals.desc = EditedManifest(job[c], job[c].source.manifest.msg)
       ELSE locals.desc = work[c].desc
    /\ locals.product = IF step = "seal" THEN Product(c) ELSE work[c].product
    /\ step \in Asking =>
          \E reference : Ask(c, step, OperationOf(job[c], step), reference) \in grants'
    /\ step = "evidence" => EvidenceRecord(c) \in ledger'

Grown == grants \subseteq grants' /\ ledger \subseteq ledger'

GoesOn(c) == Grown /\ (Fail(c) \/ \E step, locals : Goes(c, step, locals))

\* A local variable is assigned, the others keep their values.
LEMMA Assigned ==
    ASSUME NEW w, WorkOK(w), NEW x
    PROVE  /\ [w EXCEPT !.desc = x].desc = x
           /\ [w EXCEPT !.product = x].product = x
           /\ \A v \in {[w EXCEPT !.targets = x], [w EXCEPT !.tenant = x], [w EXCEPT !.mode = x],
                       [w EXCEPT !.current = x], [w EXCEPT !.new = x],
                       [w EXCEPT !.plaintext = x]} :
                  v.desc = w.desc /\ v.digest = w.digest /\ v.product = w.product
           /\ [w EXCEPT !.desc = x].digest = w.digest
           /\ [w EXCEPT !.desc = x].product = w.product
           /\ [w EXCEPT !.product = x].desc = w.desc
           /\ [w EXCEPT !.product = x].digest = w.digest
BY DEF WorkOK

\* An answer that passes its check has allowed what was asked.
LEMMA AcceptedIsAllowed ==
    ASSUME NEW r
    PROVE  /\ PolicySupportsLocal(r) => r.allow
           /\ PlanSupportsLocal(r) => r.allow
           /\ \A operation, profile : KeyPlanSupportsLocal(r, operation, profile) => r.allow
BY DEF PolicySupportsLocal, PlanSupportsLocal, KeyPlanSupportsLocal

\* The requests.
LEMMA AskPlatformGoesOn ==
    ASSUME TypeOK, NEW c \in Calls, AskPlatform(c)
    PROVE  GoesOn(c)
<1>1. CASE Bootstrap(c)
  <2>1. Grown /\ (Proceed(c, work[c]) \/ Fail(c)) /\ Running(c, "bootstrap")
    BY <1>1 DEF Bootstrap, Grown
  <2> QED BY <2>1 DEF GoesOn, Goes, Asking
<1>2. CASE PolicyResolve(c)
  <2>1. PICK r \in PolicyResponses :
          Answered(c, r, Ask(c, "policy", PolicyOperation(job[c].op), "none"),
                   PolicySupportsLocal(r), [work[c] EXCEPT !.targets = r.bind_policy_to])
    BY <1>2 DEF PolicyResolve
  <2>2. Running(c, "policy") /\ WorkOK(work[c])
    BY <1>2, RunningCall DEF PolicyResolve
  <2>3. CASE Fail(c)
    BY <2>1, <2>3 DEF Answered, GoesOn, Grown
  <2>4. CASE ~Fail(c)
    <3>1. /\ Proceed(c, [work[c] EXCEPT !.targets = r.bind_policy_to])
          /\ Ask(c, "policy", PolicyOperation(job[c].op), "none") \in grants'
          /\ Grown
      BY <2>1, <2>4, AcceptedIsAllowed DEF Answered, Grown
    <3>2. Goes(c, "policy", [work[c] EXCEPT !.targets = r.bind_policy_to])
      BY <2>2, <3>1, Assigned DEF Goes, OperationOf
    <3> QED BY <3>1, <3>2 DEF GoesOn
  <2> QED BY <2>3, <2>4
<1>3. CASE ProtectionPlan(c)
  <2>1. PICK r \in PlanResponses :
          Answered(c, r, Ask(c, "plan", PolicyOperation(job[c].op), "none"),
                   PlanSupportsLocal(r), [work[c] EXCEPT !.tenant = BoundTenant(c, r)])
    BY <1>3 DEF ProtectionPlan
  <2>2. Running(c, "plan") /\ WorkOK(work[c])
    BY <1>3, RunningCall DEF ProtectionPlan
  <2>3. CASE Fail(c)
    BY <2>1, <2>3 DEF Answered, GoesOn, Grown
  <2>4. CASE ~Fail(c)
    <3>1. /\ Proceed(c, [work[c] EXCEPT !.tenant = BoundTenant(c, r)])
          /\ Ask(c, "plan", PolicyOperation(job[c].op), "none") \in grants'
          /\ Grown
      BY <2>1, <2>4, AcceptedIsAllowed DEF Answered, Grown
    <3>2. Goes(c, "plan", [work[c] EXCEPT !.tenant = BoundTenant(c, r)])
      BY <2>2, <3>1, Assigned DEF Goes, OperationOf
    <3> QED BY <3>1, <3>2 DEF GoesOn
  <2> QED BY <2>3, <2>4
<1>4. CASE KeyAccessPlan(c)
  <2>1. PICK r \in KeyPlanResponses :
          Answered(c, r, Ask(c, "key_plan", KeyOperation(job[c].op), PlannedKeyReference(job[c])),
                   KeyPlanSupportsLocal(r, KeyOperation(job[c].op), Profile(job[c].op)),
                   [work[c] EXCEPT !.mode = r.key_transport.mode])
    BY <1>4 DEF KeyAccessPlan
  <2>2. Running(c, "key_plan") /\ WorkOK(work[c])
    BY <1>4, RunningCall DEF KeyAccessPlan
  <2>3. CASE Fail(c)
    BY <2>1, <2>3 DEF Answered, GoesOn, Grown
  <2>4. CASE ~Fail(c)
    <3>1. /\ Proceed(c, [work[c] EXCEPT !.mode = r.key_transport.mode])
          /\ Ask(c, "key_plan", KeyOperation(job[c].op), PlannedKeyReference(job[c])) \in grants'
          /\ Grown
      BY <2>1, <2>4, AcceptedIsAllowed DEF Answered, Grown
    <3>2. Goes(c, "key_plan", [work[c] EXCEPT !.mode = r.key_transport.mode])
      BY <2>2, <3>1, Assigned DEF Goes, OperationOf
    <3> QED BY <3>1, <3>2 DEF GoesOn
  <2> QED BY <2>3, <2>4
<1>5. CASE Register(c)
  <2>1. Grown /\ (Proceed(c, work[c]) \/ Fail(c)) /\ Running(c, "register")
    BY <1>5 DEF Register, Grown
  <2> QED BY <2>1 DEF GoesOn, Goes, Asking
<1>6. CASE Evidence(c)
  <2>1. /\ Grown /\ Running(c, "evidence")
        /\ Fail(c) \/ (Proceed(c, work[c]) /\ EvidenceRecord(c) \in ledger')
    BY <1>6 DEF Evidence, EvidenceSupportsLocal, Grown
  <2> QED BY <2>1 DEF GoesOn, Goes, Asking
<1> QED BY <1>1, <1>2, <1>3, <1>4, <1>5, <1>6 DEF AskPlatform

\* The local steps.
LEMMA ComputeLocallyGoesOn ==
    ASSUME TypeOK, NEW c \in Calls, ComputeLocally(c)
    PROVE  GoesOn(c)
<1>1. Grown
  BY DEF ComputeLocally, ResolveCurrentKey, ResolveNewKey, ProviderFails, OpenManifest,
     OpenContent, Seal, Verify, platformVars, Grown
<1>2. CASE Fail(c)
  BY <1>1, <1>2 DEF GoesOn
<1>3. CASE ~Fail(c)
  <2> USE DEF Goes, Asking
  <2>1. CASE ResolveCurrentKey(c)
    <3>1. Running(c, "current_key") /\ WorkOK(work[c])
          /\ Proceed(c, [work[c] EXCEPT !.current = ResolvedKey(job[c].current)])
      BY <1>3, <2>1, RunningCall DEF ResolveCurrentKey
    <3>2. Goes(c, "current_key", [work[c] EXCEPT !.current = ResolvedKey(job[c].current)])
      BY <3>1, Assigned
    <3> QED BY <1>1, <3>2 DEF GoesOn
  <2>2. CASE ResolveNewKey(c)
    <3>1. Running(c, "new_key") /\ WorkOK(work[c])
          /\ Proceed(c, [work[c] EXCEPT !.new = ResolvedKey(job[c].new)])
      BY <1>3, <2>2, RunningCall DEF ResolveNewKey
    <3>2. Goes(c, "new_key", [work[c] EXCEPT !.new = ResolvedKey(job[c].new)])
      BY <3>1, Assigned
    <3> QED BY <1>1, <3>2 DEF GoesOn
  <2>3. CASE ProviderFails(c)
    BY <1>3, <2>3 DEF ProviderFails
  <2>4. CASE OpenManifest(c)
    <3> DEFINE locals == [work[c] EXCEPT !.desc =
                              EditedManifest(job[c], job[c].source.manifest.msg)]
    <3>1. /\ Running(c, "manifest") /\ WorkOK(work[c]) /\ Proceed(c, locals)
          /\ TdfManifestTrusted(ManifestKey(c), job[c].source)
      BY <1>3, <2>4, RunningCall DEF OpenManifest
    <3>2. Goes(c, "manifest", locals)
      BY <3>1, Assigned
    <3> QED BY <1>1, <3>2 DEF GoesOn
  <2>5. CASE OpenContent(c)
    <3> DEFINE locals == [work[c] EXCEPT !.plaintext = Ciphertext(job[c].source).msg]
    <3>1. Running(c, "open") /\ WorkOK(work[c]) /\ Proceed(c, locals)
      BY <1>3, <2>5, RunningCall DEF OpenContent
    <3>2. Goes(c, "open", locals)
      BY <3>1, Assigned
    <3> QED BY <1>1, <3>2 DEF GoesOn
  <2>6. CASE Seal(c)
    <3>1. Running(c, "seal") /\ WorkOK(work[c])
          /\ Proceed(c, [work[c] EXCEPT !.product = Product(c)])
      BY <2>6, RunningCall DEF Seal
    <3>2. Goes(c, "seal", [work[c] EXCEPT !.product = Product(c)])
      BY <3>1, Assigned
    <3> QED BY <1>1, <3>2 DEF GoesOn
  <2>7. CASE Verify(c)
    <3>1. Running(c, "verify") /\ Proceed(c, work[c])
      BY <1>3, <2>7 DEF Verify
    <3> QED BY <1>1, <3>1 DEF GoesOn
  <2> QED BY <2>1, <2>2, <2>3, <2>4, <2>5, <2>6, <2>7 DEF ComputeLocally
<1> QED BY <1>2, <1>3

-----------------------------------------------------------------------------
(***************************************************************************)
(* Every step keeps the invariant.                                         *)
(***************************************************************************)

\* Nothing is taken back.
LEMMA GrantedForGood ==
    ASSUME NEW c, NEW kind, NEW operation, NEW desc, NEW digest,
           Granted(c, kind, operation, desc, digest), grants \subseteq grants'
    PROVE  \E g \in grants' : /\ g.call = c /\ g.ask = kind /\ g.operation = operation
                              /\ g.about = desc /\ g.digest = digest
BY DEF Granted

\* A call that a step does not touch keeps what it has.
LEMMA OtherAuthorityOK ==
    ASSUME NEW d, AuthorityOK(d), Grown, UNCHANGED <<status[d], job[d], at[d], work[d]>>
    PROVE  AuthorityOK(d)'
<1>1. \A kind, operation, desc, digest :
          Granted(d, kind, operation, desc, digest) =>
          \E g \in grants' : /\ g.call = d /\ g.ask = kind /\ g.operation = operation
                             /\ g.about = desc /\ g.digest = digest
  BY GrantedForGood DEF Grown
<1>2. AskedOK(d) => AskedOK(d)'
  BY <1>1 DEF AskedOK, Granted
<1>3. ReadOK(d) => ReadOK(d)'
  BY DEF ReadOK, Opened, AccessRecord, Grown
<1>4. SealedOK(d) => SealedOK(d)'
  BY <1>1 DEF SealedOK, Sealed, Granted
<1> QED BY <1>2, <1>3, <1>4 DEF AuthorityOK

\* A failed call has no artifact and no rights.
LEMMA FailAuthorityOK ==
    ASSUME TypeOK, NEW c \in Calls, Fail(c)
    PROVE  AuthorityOK(c)'
<1>1. status'[c] = "failed" /\ work'[c] = NoWork
  BY DEF Fail, TypeOK, CallsTyped
<1>2. NoWork.product = NoArtifact
  BY DEF NoWork
<1> QED BY <1>1, <1>2 DEF AuthorityOK, SealedOK, Sealed

\* Where a call is after it went on.
LEMMA Moved ==
    ASSUME TypeOK, NEW c \in Calls, NEW step, NEW locals, Goes(c, step, locals)
    PROVE  /\ job' = job /\ work'[c] = locals /\ at'[c] = at[c] + 1
           /\ at[c] \in 1..Len(Route(job[c])) /\ Len(Route(job[c])) \in Nat
           /\ Route(job[c])[at[c]] = step
           /\ AuthorityRoute(job[c], Route(job[c]))
           /\ status[c] = "running"
<1>1. Running(c, step) /\ Proceed(c, locals)
  BY DEF Goes
<1>2. job[c].op \in AllOperations /\ RouteOK(job[c], Route(job[c]))
  BY <1>1, RunningCall
<1> QED BY <1>1, <1>2, RunningCall, AuthorityRoutes DEF Proceed, TypeOK, CallsTyped, RouteOK

\* The manifest of an accessed TDF that was asked about is the one asked about: its
\* policy context is all there was to go by.
LEMMA ReadsAsAsked ==
    ASSUME TypeOK, NEW c \in Calls, NEW step, NEW locals, Goes(c, step, locals),
           ReadOK(c), step = "manifest", job[c].op \in Readers
    PROVE  /\ ~Opened(c) /\ locals.desc = Description(job[c].source)
           /\ job[c].op = "access_tdf"
           /\ at[c] # 1 => locals.desc = work[c].desc
<1> DEFINE a == job[c].source
           r == Route(job[c])
           n == at[c]
<1>1. n \in 1..Len(r) /\ Len(r) \in Nat /\ r[n] = "manifest" /\ ManifestOfRead(job[c], r)
  BY Moved DEF AuthorityRoute, ReadRoute
<1>2. /\ job[c].op = "access_tdf"
      /\ n = 1 \/ a.policy_context # {}
      /\ \A k \in 1..Len(r) : r[k] = "manifest" => k = n
  BY <1>1 DEF ManifestOfRead
<1>3. ~Opened(c)
  BY <1>1, <1>2 DEF Opened
<1>4. a.artifact_profile = "tdf"
  <2>1. Profile("access_tdf") = "tdf"
    <3>1. /\ "access_tdf" \notin {"protect_envelope", "access_envelope", "rewrap_envelope"}
          /\ "access_tdf" \in {"protect_tdf", "access_tdf", "rewrap_tdf", "set_tdf_attributes",
                               "edit_tdf_attributes"}
          /\ "access_tdf" \notin {"sign", "verify"}
      OBVIOUS
    <3> QED BY <3>1, Zenon DEF Profile
  <2> QED BY <1>2, <2>1 DEF ReadOK
<1>5. locals.desc = a.manifest.msg /\ a.policy_context \subseteq {a.manifest.msg}
  <2>1. EditedManifest(job[c], a.manifest.msg) = a.manifest.msg
    <3>1. job[c].op # "set_tdf_attributes" /\ job[c].op # "edit_tdf_attributes"
      BY <1>2
    <3> QED BY <3>1, Zenon DEF EditedManifest
  <2> QED BY <2>1 DEF Goes, TdfManifestTrusted
<1>6. a.policy_context # {} => InitialDescription(a) = a.manifest.msg
  BY <1>4, <1>5 DEF InitialDescription
<1>7. work[c].desc = InitialDescription(a)
  BY <1>3 DEF ReadOK
<1> QED BY <1>2, <1>3, <1>4, <1>5, <1>6, <1>7 DEF Description

\* What counted still counts, and the answer to the last request does.
LEMMA AskedStays ==
    ASSUME TypeOK, NEW c \in Calls, NEW step, NEW locals, Goes(c, step, locals),
           Grown, AskedOK(c), ReadOK(c)
    PROVE  AskedOK(c)'
<1> DEFINE r == Route(job[c])
           n == at[c]
<1>1. /\ job' = job /\ work'[c] = locals /\ at'[c] = n + 1
      /\ n \in 1..Len(r) /\ Len(r) \in Nat /\ r[n] = step
  BY Moved
<1>2. locals.digest = work[c].digest
  BY DEF Goes
<1>3. ASSUME NEW i \in Nat, Counts(job[c], r, i, n + 1)
      PROVE  \E g \in grants' :
                 /\ g.call = c /\ g.ask = r[i] /\ g.operation = OperationOf(job[c], r[i])
                 /\ g.about = locals.desc /\ g.digest = locals.digest
  <2>1. CASE i = n
    <3>1. step \in Asking
      BY <1>1, <1>3, <2>1 DEF Counts
    <3>2. step # "manifest"
      BY <3>1 DEF Asking
    <3>3. PICK reference : Ask(c, step, OperationOf(job[c], step), reference) \in grants'
      BY <3>1 DEF Goes
    <3>4. locals.desc = work[c].desc
      BY <3>2 DEF Goes
    <3> QED BY <1>1, <1>2, <2>1, <3>3, <3>4 DEF Ask
  <2>2. CASE i # n
    <3>1. /\ i \in 1..(n - 1) /\ r[i] \in Asking
          /\ job[c].op \notin Readers => \A k \in (i + 1)..n : r[k] # "manifest"
      BY <1>1, <1>3, <2>2 DEF Counts
    <3>2. Counts(job[c], r, i, n)
      BY <1>1, <3>1 DEF Counts
    <3>3. Granted(c, r[i], OperationOf(job[c], r[i]), work[c].desc, work[c].digest)
      BY <3>2 DEF AskedOK
    <3>4. locals.desc = work[c].desc
      <4>1. CASE step # "manifest"
        BY <4>1 DEF Goes
      <4>2. CASE step = "manifest"
        <5>1. job[c].op \in Readers
          BY <1>1, <3>1, <4>2
        <5>2. n # 1
          BY <1>1, <3>1
        <5> QED BY <4>2, <5>1, <5>2, ReadsAsAsked
      <4> QED BY <4>1, <4>2
    <3> QED BY <1>2, <3>3, <3>4, GrantedForGood DEF Grown
  <2> QED BY <2>1, <2>2
<1> QED BY <1>1, <1>3 DEF AskedOK, Granted

\* A read goes on about the same artifact, and its last step is the record.
LEMMA ReadStays ==
    ASSUME TypeOK, NEW c \in Calls, NEW step, NEW locals, Goes(c, step, locals),
           Grown, ReadOK(c)
    PROVE  ReadOK(c)'
<1> SUFFICES ASSUME job[c].op \in Readers
             PROVE  ReadOK(c)'
  BY Moved DEF ReadOK
<1> DEFINE a == job[c].source
           r == Route(job[c])
           n == at[c]
<1>1. /\ job' = job /\ work'[c] = locals /\ at'[c] = n + 1
      /\ n \in 1..Len(r) /\ Len(r) \in Nat /\ r[n] = step
      /\ r[Len(r)] = "evidence"
  BY Moved DEF AuthorityRoute, ReadRoute
<1>2. locals.digest = a.content_digest /\ Profile(job[c].op) = a.artifact_profile
  BY DEF Goes, ReadOK
<1>3. Opened(c)' <=> Opened(c) \/ step = "manifest"
  BY <1>1 DEF Opened
<1>4. locals.desc = IF Opened(c) \/ step = "manifest" THEN Description(a)
                                                      ELSE InitialDescription(a)
  <2>1. CASE step = "manifest"
    BY <2>1, ReadsAsAsked
  <2>2. CASE step # "manifest"
    BY <2>2 DEF Goes, ReadOK
  <2> QED BY <2>1, <2>2
<1>5. at'[c] = Len(r) + 1 =>
          [event |-> "access", digest |-> Sha256(a), about |-> locals.desc] \in ledger'
  <2> SUFFICES ASSUME at'[c] = Len(r) + 1
               PROVE  [event |-> "access", digest |-> Sha256(a), about |-> locals.desc] \in ledger'
    OBVIOUS
  <2>1. step = "evidence"
    BY <1>1
  <2>2. EvidenceRecord(c) \in ledger' /\ locals.desc = work[c].desc
    BY <2>1 DEF Goes
  <2>3. PolicyOperation(job[c].op) = "access"
    BY OperationKinds DEF PolicyOperation
  <2> QED BY <2>2, <2>3 DEF EvidenceRecord
<1> QED BY <1>1, <1>2, <1>3, <1>4, <1>5 DEF ReadOK, AccessRecord

\* An artifact has the description and the digest its call worked on.
LEMMA ProductDescribed ==
    ASSUME NEW c
    PROVE  /\ Description(Product(c)) = work[c].desc
           /\ Product(c).content_digest = work[c].digest
<1>1. CASE Profile(job[c].op) = "envelope"
  BY <1>1 DEF Product, SealEnvelope, Description
<1>2. CASE Profile(job[c].op) = "tdf"
  BY <1>2 DEF Product, SealTdf, Description, Aes256Gcm
<1>3. CASE Profile(job[c].op) \notin {"envelope", "tdf"}
  BY <1>3 DEF Product, SignDetached, Description
<1> QED BY <1>1, <1>2, <1>3

\* A call that may seal was allowed to.
LEMMA SealsAsAllowed ==
    ASSUME TypeOK, NEW c \in Calls, NEW locals, Goes(c, "seal", locals), AskedOK(c)
    PROVE  /\ Granted(c, "policy", PolicyOperation(job[c].op), work[c].desc, work[c].digest)
           /\ Granted(c, "plan", PolicyOperation(job[c].op), work[c].desc, work[c].digest)
           /\ Granted(c, "key_plan", KeyOperation(job[c].op), work[c].desc, work[c].digest)
<1> DEFINE r == Route(job[c])
           n == at[c]
<1>1. n \in 1..Len(r) /\ Len(r) \in Nat /\ r[n] = "seal" /\ SealRoute(job[c], r)
  BY Moved DEF AuthorityRoute
<1>2. PICK i \in Nat, p \in Nat : RoundBeforeSeal(r, i, p)
  BY <1>1 DEF SealRoute
<1>3. /\ p = n /\ i \in 1..Len(r) /\ i + 2 < n
      /\ r[i] = "policy" /\ r[i + 1] = "plan" /\ r[i + 2] = "key_plan"
      /\ \A k \in i..n : r[k] # "manifest"
  BY <1>1, <1>2 DEF RoundBeforeSeal
<1>4. /\ Counts(job[c], r, i, n) /\ Counts(job[c], r, i + 1, n)
      /\ Counts(job[c], r, i + 2, n)
  BY <1>1, <1>3 DEF Counts, Asking
<1>5. /\ Granted(c, r[i], OperationOf(job[c], r[i]), work[c].desc, work[c].digest)
      /\ Granted(c, r[i + 1], OperationOf(job[c], r[i + 1]), work[c].desc, work[c].digest)
      /\ Granted(c, r[i + 2], OperationOf(job[c], r[i + 2]), work[c].desc, work[c].digest)
  BY <1>4 DEF AskedOK
<1> QED BY <1>3, <1>5 DEF OperationOf

\* What is sealed stays as it was sealed.
LEMMA SealedStays ==
    ASSUME TypeOK, NEW c \in Calls, NEW step, NEW locals, Goes(c, step, locals),
           Grown, AskedOK(c), SealedOK(c)
    PROVE  SealedOK(c)'
<1>1. job' = job /\ work'[c] = locals
  BY Moved
<1>2. CASE step = "seal"
  <2>1. locals.product = Product(c)
    BY <1>2 DEF Goes
  <2>2. /\ Granted(c, "policy", PolicyOperation(job[c].op), work[c].desc, work[c].digest)
        /\ Granted(c, "plan", PolicyOperation(job[c].op), work[c].desc, work[c].digest)
        /\ Granted(c, "key_plan", KeyOperation(job[c].op), work[c].desc, work[c].digest)
    BY <1>2, SealsAsAllowed
  <2>3. /\ Description(locals.product) = work[c].desc
        /\ locals.product.content_digest = work[c].digest
    BY <2>1, ProductDescribed
  <2> QED BY <1>1, <2>2, <2>3 DEF SealedOK, Grown, Granted
<1>3. CASE step # "seal"
  <2>1. locals.product = work[c].product
    BY <1>3 DEF Goes
  <2> QED BY <1>1, <2>1 DEF SealedOK, Sealed, Grown, Granted
<1> QED BY <1>2, <1>3

\* A step of a call keeps the invariant.
LEMMA AuthorityGoesOn ==
    ASSUME TypeOK, AuthorityInv, NEW c \in Calls, GoesOn(c)
    PROVE  AuthorityInv'
<1>1. ASSUME NEW d \in Calls \ {c} PROVE AuthorityOK(d)'
  <2>1. UNCHANGED <<status[d], job[d], at[d], work[d]>>
    BY OthersUntouched DEF GoesOn, Goes
  <2> QED BY <2>1, OtherAuthorityOK DEF AuthorityInv, GoesOn
<1>2. AuthorityOK(c)'
  <2>1. CASE Fail(c)
    BY <2>1, FailAuthorityOK
  <2>2. ASSUME NEW step, NEW locals, Goes(c, step, locals) PROVE AuthorityOK(c)'
    <3>1. AskedOK(c) /\ ReadOK(c) /\ SealedOK(c) /\ Grown
      BY <2>2, Moved DEF AuthorityInv, AuthorityOK, GoesOn
    <3> QED BY <2>2, <3>1, AskedStays, ReadStays, SealedStays DEF AuthorityOK
  <2> QED BY <2>1, <2>2 DEF GoesOn
<1> QED BY <1>1, <1>2 DEF AuthorityInv

\* A call that begins has asked nothing; a reader works on the artifact it was given.
LEMMA BeginAuthorityOK ==
    ASSUME TypeOK, NEW c \in Calls, NEW j, NEW locals, Begin(c, j, locals),
           JobOK(j), locals.product = NoArtifact,
           j.op \in Readers =>
               /\ Profile(j.op) = j.source.artifact_profile
               /\ locals.digest = j.source.content_digest
               /\ locals.desc = InitialDescription(j.source)
    PROVE  AuthorityOK(c)'
<1>1. job'[c] = j /\ work'[c] = locals /\ at'[c] = 1 /\ status'[c] = "running"
  BY DEF Begin, TypeOK, CallsTyped
<1>2. RouteOK(j, Route(j)) /\ Len(Route(j)) \in Nat
  BY JobRoute
<1>3. AskedOK(c)'
  BY <1>1 DEF AskedOK, Counts
<1>4. ReadOK(c)'
  <2>1. ~Opened(c)'
    BY <1>1 DEF Opened
  <2>2. at'[c] # Len(Route(j)) + 1
    BY <1>1, <1>2 DEF RouteOK
  <2> QED BY <1>1, <2>1, <2>2 DEF ReadOK
<1>5. SealedOK(c)'
  BY <1>1 DEF SealedOK, Sealed
<1> QED BY <1>3, <1>4, <1>5 DEF AuthorityOK

\* A call that begins, or whose bytes are rejected, has not reached the platform.
LEMMA Beginnings ==
    ASSUME NEW c, BeginCall(c)
    PROVE  /\ status[c] = "idle" /\ UNCHANGED <<grants, catalog, ledger>>
           /\ (\E j, locals : Begin(c, j, locals)) \/ Fail(c)
<1>1. ASSUME NEW j, NEW locals, Begin(c, j, locals)
      PROVE  status[c] = "idle" /\ UNCHANGED <<grants, catalog, ledger>>
  BY <1>1 DEF Begin, platformVars
<1>2. CASE BeginMaking(c)
  <2>1. \E j, locals : Begin(c, j, locals)
    BY <1>2 DEF BeginMaking
  <2> QED BY <1>1, <2>1
<1>3. CASE BeginReading(c)
  <2>1. \E j, locals : Begin(c, j, locals)
    BY <1>3 DEF BeginReading
  <2> QED BY <1>1, <2>1
<1>4. CASE BeginRewriting(c)
  <2>1. \E j, locals : Begin(c, j, locals)
    BY <1>4 DEF BeginRewriting
  <2> QED BY <1>1, <2>1
<1>5. CASE RejectSource(c)
  BY <1>5 DEF RejectSource, platformVars
<1> QED BY <1>2, <1>3, <1>4, <1>5 DEF BeginCall

LEMMA BeginCallAuthority ==
    ASSUME TypeOK, AuthorityInv, NEW c \in Calls, BeginCall(c)
    PROVE  AuthorityInv'
<1>1. Grown
  BY Beginnings DEF Grown
<1>2. ASSUME NEW d \in Calls \ {c} PROVE AuthorityOK(d)'
  <2>1. (\E j, locals : Begin(c, j, locals)) \/ Fail(c)
    BY Beginnings
  <2>2. UNCHANGED <<status[d], job[d], at[d], work[d]>>
    BY <2>1, OthersUntouched
  <2> QED BY <1>1, <2>2, OtherAuthorityOK DEF AuthorityInv
<1>3. AuthorityOK(c)'
  <2>1. CASE BeginMaking(c)
    <3>1. PICK op \in Operations \cap Makers, content \in Contents,
               desc \in Descriptions, key \in KeySource :
            Begin(c, [op |-> op, new |-> key],
                  [NoWork EXCEPT !.desc = desc, !.digest = Sha256(content),
                                 !.plaintext = content])
      BY <2>1 DEF BeginMaking
    <3> DEFINE j == [op |-> op, new |-> key]
               locals == [NoWork EXCEPT !.desc = desc, !.digest = Sha256(content),
                                        !.plaintext = content]
    <3>2. JobOK(j) /\ j.op \notin Readers
      BY <3>1, OperationKinds DEF JobOK
    <3>3. locals.product = NoArtifact
      BY DEF NoWork
    <3> HIDE DEF j, locals
    <3>4. Begin(c, j, locals)
      BY <3>1 DEF j, locals
    <3> QED BY <3>2, <3>3, <3>4, BeginAuthorityOK
  <2>2. CASE BeginReading(c)
    <3>1. PICK op \in Operations \cap Readers, a \in Stored, key \in KeySource :
            \E content : /\ SourceAccepted(op, key, content, a)
                         /\ Begin(c, [op |-> op, source |-> a, current |-> key],
                                  [OpeningLocals(a) EXCEPT !.plaintext = content])
      BY <2>2 DEF BeginReading
    <3>2. PICK content : /\ SourceAccepted(op, key, content, a)
                         /\ Begin(c, [op |-> op, source |-> a, current |-> key],
                                  [OpeningLocals(a) EXCEPT !.plaintext = content])
      BY <3>1
    <3> DEFINE j == [op |-> op, source |-> a, current |-> key]
               locals == [OpeningLocals(a) EXCEPT !.plaintext = content]
    <3>3. JobOK(j) /\ j.source = a /\ j.op = op
      BY <3>1, OperationKinds DEF JobOK
    <3>4. /\ locals.product = NoArtifact
          /\ locals.digest = a.content_digest
          /\ locals.desc = InitialDescription(a)
      BY DEF NoWork, OpeningLocals
    <3>5. Profile(op) = a.artifact_profile
      BY <3>2 DEF SourceAccepted
    <3>6. Begin(c, j, locals)
      BY <3>2
    <3> HIDE DEF j, locals
    <3> QED BY <3>3, <3>4, <3>5, <3>6, BeginAuthorityOK
  <2>3. CASE BeginRewriting(c)
    <3>1. PICK op \in Operations \cap Rewriters, a \in Stored, current \in KeySource,
               new \in KeySource :
            \E edit : Begin(c, [op |-> op, source |-> a, current |-> current,
                                new |-> new, edit |-> edit], OpeningLocals(a))
      BY <2>3 DEF BeginRewriting
    <3>2. PICK edit : Begin(c, [op |-> op, source |-> a, current |-> current,
                                new |-> new, edit |-> edit], OpeningLocals(a))
      BY <3>1
    <3> DEFINE j == [op |-> op, source |-> a, current |-> current,
                     new |-> new, edit |-> edit]
    <3>3. JobOK(j) /\ j.op \notin Readers
      BY <3>1, OperationKinds DEF JobOK
    <3>4. OpeningLocals(a).product = NoArtifact
      BY DEF NoWork, OpeningLocals
    <3>5. Begin(c, j, OpeningLocals(a))
      BY <3>2
    <3> HIDE DEF j
    <3> QED BY <3>3, <3>4, <3>5, BeginAuthorityOK
  <2>4. CASE RejectSource(c)
    BY <2>4, FailAuthorityOK DEF RejectSource
  <2> QED BY <2>1, <2>2, <2>3, <2>4 DEF BeginCall
<1> QED BY <1>2, <1>3 DEF AuthorityInv

\* Every step keeps the invariant.
LEMMA AuthorityStep == TypeOK /\ AuthorityInv /\ [Next]_vars => AuthorityInv'
<1> SUFFICES ASSUME TypeOK, AuthorityInv, [Next]_vars PROVE AuthorityInv'
  OBVIOUS
<1>1. ASSUME NEW c \in Calls, AskPlatform(c) \/ ComputeLocally(c) PROVE AuthorityInv'
  BY <1>1, AskPlatformGoesOn, ComputeLocallyGoesOn, AuthorityGoesOn
<1>2. ASSUME NEW c \in Calls, ConnectionFails(c) PROVE AuthorityInv'
  <2>1. GoesOn(c)
    BY <1>2 DEF ConnectionFails, GoesOn, Grown, platformVars
  <2> QED BY <2>1, AuthorityGoesOn
<1>3. ASSUME UNCHANGED <<callVars, platformVars>> PROVE AuthorityInv'
  BY <1>3, OtherAuthorityOK DEF callVars, platformVars, AuthorityInv, Grown
<1>4. CASE UNCHANGED vars
  BY <1>3, <1>4 DEF vars, callVars, platformVars
<1>5. ASSUME NEW ref \in ManagedRefs, RotateKey(ref) PROVE AuthorityInv'
  BY <1>3, <1>5 DEF RotateKey
<1> QED BY <1>1, <1>2, <1>4, <1>5, BeginCallAuthority DEF Next

LEMMA AuthorityInit == Init => AuthorityInv
<1> SUFFICES ASSUME Init, NEW c \in Calls PROVE AuthorityOK(c)
  BY DEF AuthorityInv
<1>1. status[c] = "idle" /\ work[c] = NoWork
  BY DEF Init
<1>2. NoWork.product = NoArtifact
  BY DEF NoWork
<1> QED BY <1>1, <1>2 DEF AuthorityOK, SealedOK, Sealed

-----------------------------------------------------------------------------
(***************************************************************************)
(* The theorems.                                                           *)
(***************************************************************************)

\* A read that returned has asked for everything, about what it read.
LEMMA ReleasesAsAllowed ==
    ASSUME TypeOK, AuthorityInv, NEW c \in Calls, Returned(c), job[c].op \in Readers
    PROVE  LET a == job[c].source IN
           /\ Granted(c, "policy", "access", Description(a), a.content_digest)
           /\ Granted(c, "key_plan", "unwrap", Description(a), a.content_digest)
           /\ [event |-> "access", digest |-> Sha256(a), about |-> Description(a)] \in ledger
<1> DEFINE a == job[c].source
           r == Route(job[c])
<1>1. status[c] = "returned" /\ AskedOK(c) /\ ReadOK(c)
  BY DEF Returned, AuthorityInv, AuthorityOK
<1>2. JobOK(job[c]) /\ at[c] = Len(r) + 1
  BY <1>1 DEF TypeOK, CallsTyped, CallOK
<1>3. Len(r) \in Nat /\ ReadRoute(job[c], r)
  <2>1. job[c].op \in AllOperations
    BY OperationKinds
  <2> QED BY <1>2, <2>1, JobRoute, AuthorityRoutes DEF AuthorityRoute
<1>4. PolicyOperation(job[c].op) = "access" /\ KeyOperation(job[c].op) = "unwrap"
  BY OperationKinds DEF PolicyOperation, KeyOperation
<1>5. work[c].desc = Description(a)
  <2>1. CASE job[c].op = "access_tdf"
    <3>1. Opened(c)
      BY <1>2, <1>3, <2>1 DEF ReadRoute, Opened
    <3> QED BY <1>1, <3>1 DEF ReadOK
  <2>2. CASE job[c].op # "access_tdf"
    <3>1. a.artifact_profile # "tdf"
      <4>1. job[c].op \in {"access_envelope", "verify"}
        BY <2>2 DEF Readers
      <4>2. CASE job[c].op = "access_envelope"
        <5>1. job[c].op \in {"protect_envelope", "access_envelope", "rewrap_envelope"}
          BY <4>2
        <5>2. Profile(job[c].op) = "envelope"
          BY <5>1, <4>2, Zenon DEF Profile
        <5> QED BY <1>1, <5>2 DEF ReadOK
      <4>3. CASE job[c].op = "verify"
        <5>1. /\ job[c].op \notin {"protect_envelope", "access_envelope", "rewrap_envelope"}
              /\ job[c].op \notin {"protect_tdf", "access_tdf", "rewrap_tdf",
                                   "set_tdf_attributes", "edit_tdf_attributes"}
              /\ job[c].op \in {"sign", "verify"}
          BY <4>3
        <5>2. Profile(job[c].op) = "detached_signature"
          BY <5>1, Zenon DEF Profile
        <5> QED BY <1>1, <5>2 DEF ReadOK
      <4> QED BY <4>1, <4>2, <4>3
    <3> QED BY <1>1, <3>1 DEF ReadOK, Description, InitialDescription
  <2> QED BY <2>1, <2>2
<1>6. work[c].digest = a.content_digest
  BY <1>1 DEF ReadOK
<1>7. Granted(c, "policy", "access", work[c].desc, work[c].digest)
  <2>1. PICK i \in 1..Len(r) : r[i] = "policy"
    BY <1>3 DEF ReadRoute
  <2>2. Counts(job[c], r, i, at[c])
    BY <1>2, <1>3, <2>1 DEF Counts, Asking
  <2> QED BY <1>1, <1>4, <2>1, <2>2 DEF AskedOK, OperationOf
<1>8. Granted(c, "key_plan", "unwrap", work[c].desc, work[c].digest)
  <2>1. PICK i \in 1..Len(r) : r[i] = "key_plan"
    BY <1>3 DEF ReadRoute
  <2>2. Counts(job[c], r, i, at[c])
    BY <1>2, <1>3, <2>1 DEF Counts, Asking
  <2> QED BY <1>1, <1>4, <2>1, <2>2 DEF AskedOK, OperationOf
<1>9. [event |-> "access", digest |-> Sha256(a), about |-> work[c].desc] \in ledger
  BY <1>1, <1>2 DEF ReadOK, AccessRecord
<1> QED BY <1>5, <1>6, <1>7, <1>8, <1>9

\* ReleaseIsAuthorised, for every platform, any artifacts (damaged ones included) and
\* any number of calls: what access_* and verify_* hand over was allowed in that call
\* under the description that is really bound to it, and is evidenced.
THEOREM ReleasesAreAuthorised == Spec => []ReleaseIsAuthorised
<1>1. TypeOK /\ AuthorityInv => ReleaseIsAuthorised
  BY ReleasesAsAllowed DEF ReleaseIsAuthorised
<1> QED BY <1>1, AuthorityInit, AuthorityStep, TypeCorrect, PTL DEF Spec

\* SealedAsAuthorised, for every platform and any number of calls: what is sealed was
\* allowed in that call as it is sealed, after an edit under the edited description.
THEOREM SealsAreAuthorised == Spec => []SealedAsAuthorised
<1>1. AuthorityInv => SealedAsAuthorised
  BY DEF AuthorityInv, AuthorityOK, SealedOK, SealedAsAuthorised
<1> QED BY <1>1, AuthorityInit, AuthorityStep, TypeCorrect, PTL DEF Spec

-----------------------------------------------------------------------------
(***************************************************************************)
(* The workflows implement the custody specification for every platform,   *)
(* any artifacts and any number of calls.                                  *)
(***************************************************************************)

Opening == {"open", "verify"}
Working == Opening \cup {"seal"}

-----------------------------------------------------------------------------
(***************************************************************************)
(* Routes.                                                                 *)
(***************************************************************************)

\* The order of the stages.
StageRoute(j, r) ==
    /\ r[1] \notin {"seal", "register", "evidence"}
    /\ \A n \in 1..Len(r) :
        /\ r[n] \in Opening =>
              /\ n < Len(r) /\ j.op \notin Makers
              /\ r[n + 1] = IF j.op \in Readers THEN "evidence" ELSE "seal"
        /\ r[n] = "seal" =>
              n < Len(r) /\ r[n + 1] = "register" /\ j.op \notin Readers /\ j.op # "prepare"
        /\ r[n] = "register" =>
              n < Len(r) /\ r[n + 1] = "evidence" /\ j.op \notin Readers /\ j.op # "prepare"
        /\ r[n] = "evidence" => n = Len(r) /\ j.op # "prepare"
        /\ r[n] \in {"bootstrap", "policy", "plan", "key_plan", "current_key", "new_key",
                     "manifest"} =>
              IF n = Len(r)
              THEN /\ j.op = "prepare" /\ r[n] = "plan"
                   /\ \E i \in 1..(n - 1) : r[i] = "policy"
              ELSE /\ r[n + 1] \notin {"register", "evidence"}
                   /\ r[n + 1] = "seal" => j.op \in Makers
        /\ r[n] = "manifest" => j.op \notin Makers

\* A manifest is opened once.
ManifestOnce(r) ==
    \A m, n \in 1..Len(r) : r[m] = "manifest" /\ r[n] = "manifest" => m = n

\* Nothing is opened or sealed before position o, after the round of requests at i.
RoundBeforeWork(r, i, o) ==
    /\ i \in 1..Len(r) /\ i + 2 < o
    /\ r[i] = "policy" /\ r[i + 1] = "plan" /\ r[i + 2] = "key_plan"
    /\ \A k \in 1..Len(r) : r[k] \in Working => k >= o
    /\ \A k \in i..Len(r) : r[k] # "manifest"

AskedBeforeWork(j, r) ==
    IF j.op \in Readers
    THEN \A n \in 1..Len(r) : r[n] \in Working =>
            /\ \E i \in 1..(n - 1) : r[i] = "policy"
            /\ \E i \in 1..(n - 1) : r[i] = "key_plan"
    ELSE \/ \A n \in 1..Len(r) : r[n] \notin Working
         \/ \E i, o \in Nat : RoundBeforeWork(r, i, o)

CustodyRoute(j, r) == StageRoute(j, r) /\ ManifestOnce(r) /\ AskedBeforeWork(j, r)

LEMMA MakersInCustody ==
    ASSUME NEW j, j.op \in Makers
    PROVE  CustodyRoute(j, Route(j))
<1>0. j.op \notin Readers
  BY OperationKinds
<1> USE DEF Opening, Working
<1>1. CASE j.op = "prepare"
  <2>1. CustodyRoute(j, PrepareRoute)
    BY <1>0, <1>1 DEF PrepareRoute, CustodyRoute, StageRoute, ManifestOnce, AskedBeforeWork
  <2> QED BY <1>1, <2>1, RouteOfOperation, Zenon
<1>2. CASE j.op = "protect_envelope"
  <2>1. RoundBeforeWork(EnvelopeProtectRoute, 2, 6)
    BY DEF EnvelopeProtectRoute, RoundBeforeWork
  <2>2. StageRoute(j, EnvelopeProtectRoute) /\ ManifestOnce(EnvelopeProtectRoute)
    BY <1>0, <1>2 DEF EnvelopeProtectRoute, StageRoute, ManifestOnce, Makers
  <2>3. CustodyRoute(j, EnvelopeProtectRoute)
    BY <1>0, <2>1, <2>2 DEF CustodyRoute, AskedBeforeWork
  <2> QED BY <1>2, <2>3, RouteOfOperation, Zenon
<1>3. CASE j.op = "protect_tdf"
  <2>1. RoundBeforeWork(TdfProtectRoute, 2, 6)
    BY DEF TdfProtectRoute, RoundBeforeWork
  <2>2. StageRoute(j, TdfProtectRoute) /\ ManifestOnce(TdfProtectRoute)
    BY <1>0, <1>3 DEF TdfProtectRoute, StageRoute, ManifestOnce, Makers
  <2>3. CustodyRoute(j, TdfProtectRoute)
    BY <1>0, <2>1, <2>2 DEF CustodyRoute, AskedBeforeWork
  <2> QED BY <1>3, <2>3, RouteOfOperation, Zenon
<1>4. CASE j.op = "sign"
  <2>1. RoundBeforeWork(SignRoute, 2, 5)
    BY DEF SignRoute, RoundBeforeWork
  <2>2. StageRoute(j, SignRoute) /\ ManifestOnce(SignRoute)
    BY <1>0, <1>4 DEF SignRoute, StageRoute, ManifestOnce, Makers
  <2>3. CustodyRoute(j, SignRoute)
    BY <1>0, <2>1, <2>2 DEF CustodyRoute, AskedBeforeWork
  <2> QED BY <1>4, <2>3, RouteOfOperation, Zenon
<1> QED BY <1>1, <1>2, <1>3, <1>4 DEF Makers

LEMMA RewritersInCustody ==
    ASSUME NEW j, j.op \in Rewriters
    PROVE  CustodyRoute(j, Route(j))
<1>0. j.op \notin Readers /\ j.op \notin Makers /\ j.op # "prepare"
  BY OperationKinds DEF Makers
<1> USE DEF Opening, Working
<1>1. CASE j.op = "rewrap_envelope"
  <2>1. RoundBeforeWork(EnvelopeRewrapRoute, 2, 7)
    BY DEF EnvelopeRewrapRoute, RoundBeforeWork
  <2>2. StageRoute(j, EnvelopeRewrapRoute) /\ ManifestOnce(EnvelopeRewrapRoute)
    BY <1>0 DEF EnvelopeRewrapRoute, StageRoute, ManifestOnce
  <2>3. CustodyRoute(j, EnvelopeRewrapRoute)
    BY <1>0, <2>1, <2>2 DEF CustodyRoute, AskedBeforeWork
  <2> QED BY <1>1, <2>3, RouteOfOperation, Zenon
<1>2. CASE j.op \in {"rewrap_tdf", "set_tdf_attributes", "edit_tdf_attributes"}
  <2> DEFINE managed == <<"policy", "key_plan", "current_key", "manifest",
                          "bootstrap", "policy", "plan", "key_plan", "current_key", "new_key",
                          "open", "seal", "register", "evidence">>
             inline == <<"manifest",
                         "bootstrap", "policy", "plan", "key_plan", "current_key", "new_key",
                         "open", "seal", "register", "evidence">>
  <2>1. RoundBeforeWork(managed, 6, 11) /\ RoundBeforeWork(inline, 3, 8)
    BY DEF RoundBeforeWork
  <2>2. StageRoute(j, managed) /\ ManifestOnce(managed)
    BY <1>0 DEF StageRoute, ManifestOnce
  <2>3. StageRoute(j, inline) /\ ManifestOnce(inline)
    BY <1>0 DEF StageRoute, ManifestOnce
  <2>4. TdfRewriteRoute(j.current) \in {managed, inline}
    BY DEF TdfRewriteRoute
  <2> HIDE DEF managed, inline
  <2>5. CustodyRoute(j, managed) /\ CustodyRoute(j, inline)
    BY <1>0, <2>1, <2>2, <2>3 DEF CustodyRoute, AskedBeforeWork
  <2> QED BY <1>2, <2>4, <2>5, RouteOfOperation, Zenon
<1> QED BY <1>1, <1>2 DEF Rewriters, Editors

LEMMA ReadersInCustody ==
    ASSUME NEW j, j.op \in Readers
    PROVE  CustodyRoute(j, Route(j))
<1>0. j.op \notin Makers /\ j.op # "prepare"
  BY OperationKinds DEF Makers
<1> USE <1>0 DEF Opening, Working, CustodyRoute, StageRoute, ManifestOnce, AskedBeforeWork
<1>1. CASE j.op = "access_envelope"
  <2>1. CustodyRoute(j, EnvelopeAccessRoute)
    BY DEF EnvelopeAccessRoute
  <2> HIDE DEF CustodyRoute
  <2> QED BY <1>1, <2>1, RouteOfOperation, Zenon
<1>2. CASE j.op = "verify"
  <2>1. CustodyRoute(j, VerifyRoute)
    BY DEF VerifyRoute
  <2> HIDE DEF CustodyRoute
  <2> QED BY <1>2, <2>1, RouteOfOperation, Zenon
<1>3. CASE j.op = "access_tdf"
  <2>1. CustodyRoute(j, <<"policy", "key_plan", "current_key", "manifest", "open", "evidence">>)
    OBVIOUS
  <2>2. CustodyRoute(j, <<"manifest", "policy", "key_plan", "current_key", "open", "evidence">>)
    OBVIOUS
  <2> HIDE DEF CustodyRoute
  <2>3. CustodyRoute(j, TdfAccessRoute(j.source))
    BY <2>1, <2>2, Zenon DEF TdfAccessRoute
  <2> QED BY <1>3, <2>3, RouteOfOperation, Zenon
<1> QED BY <1>1, <1>2, <1>3 DEF Readers

\* Every route passes the stages in order, with its authority first.
LEMMA CustodyRoutes ==
    ASSUME NEW j, j.op \in AllOperations
    PROVE  CustodyRoute(j, Route(j))
BY MakersInCustody, ReadersInCustody, RewritersInCustody, OperationKinds

-----------------------------------------------------------------------------
(***************************************************************************)
(* The abstract state of a call.                                           *)
(***************************************************************************)

\* KindOf by cases; the events of a kind are the operations the platform is told.
LEMMA KindsOfOperations ==
    ASSUME NEW op
    PROVE  /\ op = "prepare" => KindOf(op) = "prepare"
           /\ op = "none" => KindOf(op) = "none"
           /\ op \in Makers /\ op # "prepare" => KindOf(op) = "make"
           /\ op \in Readers => KindOf(op) = "read"
           /\ op \in Rewriters => KindOf(op) = "rewrite"
           /\ op \in AllOperations => /\ KindOf(op) \in C!Kinds
                                     /\ C!Event(KindOf(op)) = PolicyOperation(op)
<1>1. op \in Makers => op # "none"
  BY DEF Makers
<1>2. op \in Readers => op \notin Makers /\ op # "prepare" /\ op # "none"
  BY DEF Readers, Makers
<1>3. op \in Rewriters => op \notin Makers /\ op \notin Readers /\ op # "prepare" /\ op # "none"
  BY DEF Rewriters, Editors, Readers, Makers
<1>4. op = "prepare" => op \in Makers
  BY DEF Makers
<1> QED BY <1>1, <1>2, <1>3, <1>4, OperationKinds
        DEF KindOf, C!Kinds, C!Event, PolicyOperation

\* Abstract steps, told by what happens to the one call that moves.
OthersGrantsKept(c) ==
    \A d \in Calls \ {c} :
        /\ StageOf(d)' = StageOf(d) /\ KindOf(job[d].op)' = KindOf(job[d].op)
        /\ AllowedTo(d)' = AllowedTo(d) /\ ArtifactOf(d)' = ArtifactOf(d)

LEMMA AbstractMoves ==
    ASSUME NEW c \in Calls, OthersGrantsKept(c)
    PROVE  /\ C!MoveTo(c, StageOf(c)')
           /\ StageOf(c)' = StageOf(c) =>
                 [d \in Calls |-> StageOf(d)]' = [d \in Calls |-> StageOf(d)]
           /\ [d \in Calls |-> KindOf(job[d].op)]' =
                 [[d \in Calls |-> KindOf(job[d].op)] EXCEPT ![c] = KindOf(job[c].op)']
           /\ KindOf(job[c].op)' = KindOf(job[c].op) =>
                 [d \in Calls |-> KindOf(job[d].op)]' = [d \in Calls |-> KindOf(job[d].op)]
           /\ [d \in Calls |-> AllowedTo(d)]' =
                 [[d \in Calls |-> AllowedTo(d)] EXCEPT ![c] = AllowedTo(c)']
           /\ AllowedTo(c)' = AllowedTo(c) =>
                 [d \in Calls |-> AllowedTo(d)]' = [d \in Calls |-> AllowedTo(d)]
           /\ [d \in Calls |-> ArtifactOf(d)]' =
                 [[d \in Calls |-> ArtifactOf(d)] EXCEPT ![c] = ArtifactOf(c)']
           /\ ArtifactOf(c)' = ArtifactOf(c) =>
                 [d \in Calls |-> ArtifactOf(d)]' = [d \in Calls |-> ArtifactOf(d)]
           /\ C!OnlyArtifactOf(c)
BY DEF OthersGrantsKept, C!MoveTo, C!OnlyArtifactOf

-----------------------------------------------------------------------------
(***************************************************************************)
(* What a step of the code does to the abstract state of its call.         *)
(***************************************************************************)

\* A call asks about what it works on until it opens a manifest.  Needed because
\* Custody lets a new description void authority, never restore any.
OwnGrants(c) ==
    /\ status[c] = "idle" => \A g \in grants : g.call # c
    /\ status[c] = "running" /\ ~Opened(c) =>
          \A g \in grants : g.call = c => g.about = work[c].desc

GrantsInv == \A c \in Calls : OwnGrants(c)

Effects(c, step) ==
    /\ Running(c, step)
    /\ \/ grants' = grants
       \/ /\ step \in Asking
          /\ \E reference :
                grants' = grants \cup {Ask(c, step, OperationOf(job[c], step), reference)}
    /\ \/ catalog' = catalog
       \/ step = "register" /\ catalog' = catalog \cup {Registration(c)}
    /\ \/ ledger' = ledger
       \/ step = "evidence" /\ ledger' = ledger \cup {EvidenceRecord(c)}
    /\ \/ Fail(c)
       \/ /\ \E locals : Goes(c, step, locals)
          /\ step = "register" => Registration(c) \in catalog'

\* Every step of a running call has such effects.
LEMMA StepEffects ==
    ASSUME TypeOK, NEW c \in Calls,
           AskPlatform(c) \/ ComputeLocally(c) \/ ConnectionFails(c)
    PROVE  \E step : Effects(c, step)
<1>1. ASSUME NEW step, NEW other, NEW locals, Running(c, step), Goes(c, other, locals)
      PROVE  Goes(c, step, locals)
  BY <1>1 DEF Goes, Running
<1>2. GoesOn(c)
  BY AskPlatformGoesOn, ComputeLocallyGoesOn DEF ConnectionFails, GoesOn, Grown, platformVars
<1>3. ASSUME NEW step, Running(c, step) PROVE Fail(c) \/ \E locals : Goes(c, step, locals)
  BY <1>1, <1>2, <1>3 DEF GoesOn
<1>4. ASSUME NEW step, Running(c, step), UNCHANGED <<grants, catalog, ledger>>, step # "register"
      PROVE  Effects(c, step)
  BY <1>3, <1>4 DEF Effects
<1>5. CASE Bootstrap(c)
  BY <1>4, <1>5 DEF Bootstrap
<1>6. CASE PolicyResolve(c)
  <2>1. Running(c, "policy") /\ UNCHANGED <<catalog, ledger>>
    BY <1>6 DEF PolicyResolve, Answered
  <2>2. \/ grants' = grants
        \/ grants' = grants \cup {Ask(c, "policy", PolicyOperation(job[c].op), "none")}
    BY <1>6 DEF PolicyResolve, Answered
  <2>3. Effects(c, "policy")
    BY <1>3, <2>1, <2>2 DEF Effects, Asking, OperationOf
  <2> QED BY <2>3
<1>7. CASE ProtectionPlan(c)
  <2>1. Running(c, "plan") /\ UNCHANGED <<catalog, ledger>>
    BY <1>7 DEF ProtectionPlan, Answered
  <2>2. \/ grants' = grants
        \/ grants' = grants \cup {Ask(c, "plan", PolicyOperation(job[c].op), "none")}
    BY <1>7 DEF ProtectionPlan, Answered
  <2>3. Effects(c, "plan")
    BY <1>3, <2>1, <2>2 DEF Effects, Asking, OperationOf
  <2> QED BY <2>3
<1>8. CASE KeyAccessPlan(c)
  <2>1. Running(c, "key_plan") /\ UNCHANGED <<catalog, ledger>>
    BY <1>8 DEF KeyAccessPlan, Answered
  <2>2. \/ grants' = grants
        \/ grants' = grants \cup
              {Ask(c, "key_plan", KeyOperation(job[c].op), PlannedKeyReference(job[c]))}
    BY <1>8 DEF KeyAccessPlan, Answered
  <2>3. Effects(c, "key_plan")
    BY <1>3, <2>1, <2>2 DEF Effects, Asking, OperationOf
  <2> QED BY <2>3
<1>9. CASE Register(c)
  <2>1. /\ Running(c, "register") /\ UNCHANGED <<grants, ledger>>
        /\ catalog' \in {catalog, catalog \cup {Registration(c)}}
        /\ Fail(c) \/ Registration(c) \in catalog'
    BY <1>9 DEF Register, RegistrationSupportsLocal
  <2>2. Effects(c, "register")
    BY <1>3, <2>1 DEF Effects
  <2> QED BY <2>2
<1>10. CASE Evidence(c)
  <2>1. /\ Running(c, "evidence") /\ UNCHANGED <<grants, catalog>>
        /\ ledger' \in {ledger, ledger \cup {EvidenceRecord(c)}}
    BY <1>10 DEF Evidence
  <2>2. Effects(c, "evidence")
    BY <1>3, <2>1 DEF Effects
  <2> QED BY <2>2
<1>11. CASE ComputeLocally(c)
  <2>1. UNCHANGED <<grants, catalog, ledger>>
    BY <1>11 DEF ComputeLocally, ResolveCurrentKey, ResolveNewKey, ProviderFails, OpenManifest,
       OpenContent, Seal, Verify, platformVars
  <2>2. \E step : Running(c, step) /\ step # "register"
    BY <1>11 DEF ComputeLocally, ResolveCurrentKey, ResolveNewKey, ProviderFails, OpenManifest,
       OpenContent, Seal, Verify
  <2> QED BY <1>4, <2>1, <2>2
<1>12. CASE ConnectionFails(c)
  <2>1. UNCHANGED <<grants, catalog, ledger>> /\ Fail(c)
    BY <1>12 DEF ConnectionFails, platformVars
  <2>2. Running(c, Route(job[c])[at[c]])
    BY <1>12 DEF ConnectionFails, Running
  <2> QED BY <2>1, <2>2 DEF Effects
<1> QED BY <1>5, <1>6, <1>7, <1>8, <1>9, <1>10, <1>11, <1>12 DEF AskPlatform

\* What a call is allowed, as a membership.
LEMMA AllowedMembers ==
    ASSUME NEW c, NEW x
    PROVE  /\ x \in AllowedTo(c) <=>
                 \E h \in grants :
                     /\ h.ask = x /\ h.call = c /\ status[c] # "failed"
                     /\ h.about = work[c].desc /\ h.digest = work[c].digest
                     /\ h.operation = OperationOf(job[c], h.ask)
           /\ x \in AllowedTo(c)' <=>
                 \E h \in grants' :
                     /\ h.ask = x /\ h.call = c /\ status'[c] # "failed"
                     /\ h.about = work'[c].desc /\ h.digest = work'[c].digest
                     /\ h.operation = OperationOf(job'[c], h.ask)
BY DEF AllowedTo, OperationOf

\* The other calls keep their abstract state.
LEMMA OthersGrantsKeptByStep ==
    ASSUME TypeOK, NEW c \in Calls, NEW step, Effects(c, step)
    PROVE  OthersGrantsKept(c)
<1> SUFFICES ASSUME NEW d \in Calls \ {c}
             PROVE  /\ StageOf(d)' = StageOf(d) /\ KindOf(job[d].op)' = KindOf(job[d].op)
                    /\ AllowedTo(d)' = AllowedTo(d) /\ ArtifactOf(d)' = ArtifactOf(d)
  BY DEF OthersGrantsKept
<1>1. UNCHANGED <<status[d], job[d], at[d], work[d]>>
  BY OthersUntouched DEF Effects, Goes
<1>2. \A h : h.call = d => (h \in grants' <=> h \in grants)
  BY DEF Effects, Ask
<1>3. ASSUME NEW x PROVE x \in AllowedTo(d)' <=> x \in AllowedTo(d)
  BY <1>1, <1>2, AllowedMembers
<1>4. AllowedTo(d)' = AllowedTo(d)
  BY <1>3
<1> QED BY <1>1, <1>4 DEF StageOf, ArtifactOf

\* A step that is not an answer to a request about what the call works on, and
\* does not open a manifest, leaves the authority of the call as it is.
LEMMA AllowedGrows ==
    ASSUME TypeOK, NEW c \in Calls, NEW step, NEW locals, Effects(c, step),
           Goes(c, step, locals), step # "manifest"
    PROVE  AllowedTo(c)' = IF step \in Asking THEN AllowedTo(c) \cup {step} ELSE AllowedTo(c)
<1>1. /\ job' = job /\ work'[c].desc = work[c].desc /\ work'[c].digest = work[c].digest
      /\ status[c] # "failed" /\ status'[c] # "failed"
  BY Moved DEF Goes, Proceed, TypeOK, CallsTyped
<1>2. CASE step \notin Asking
  <2>1. grants' = grants
    BY <1>2 DEF Effects
  <2>2. ASSUME NEW x PROVE x \in AllowedTo(c)' <=> x \in AllowedTo(c)
    BY <1>1, <2>1, AllowedMembers
  <2> QED BY <1>2, <2>2
<1>3. CASE step \in Asking
  <2> DEFINE answer(reference) == Ask(c, step, OperationOf(job[c], step), reference)
  <2>1. PICK reference : answer(reference) \in grants'
    BY <1>3 DEF Goes
  <2>2. \A h \in grants' \ grants : h.ask = step
    BY DEF Effects, Ask
  <2>3. grants \subseteq grants'
    BY DEF Effects
  <2>4. step \in AllowedTo(c)'
    BY <1>1, <2>1, AllowedMembers DEF Ask
  <2>5. ASSUME NEW x PROVE x \in AllowedTo(c)' <=> x \in AllowedTo(c) \cup {step}
    BY <1>1, <2>2, <2>3, <2>4, AllowedMembers
  <2> QED BY <1>3, <2>5
<1> QED BY <1>2, <1>3

\* Opening a manifest gives no authority.
LEMMA AllowedShrinks ==
    ASSUME TypeOK, NEW c \in Calls, NEW locals, Effects(c, "manifest"),
           Goes(c, "manifest", locals), OwnGrants(c)
    PROVE  AllowedTo(c)' \subseteq AllowedTo(c)
<1>1. /\ job' = job /\ work'[c].digest = work[c].digest /\ status[c] = "running"
  BY Moved DEF Goes
<1>2. grants' = grants
  BY DEF Effects, Asking
<1>3. ~Opened(c)
  <2>1. job[c].op \in AllOperations
    BY RunningCall DEF Goes
  <2>2. ManifestOnce(Route(job[c]))
    BY <2>1, CustodyRoutes DEF CustodyRoute
  <2> QED BY <2>2, Moved DEF ManifestOnce, Opened
<1>4. ASSUME NEW x, x \in AllowedTo(c)' PROVE x \in AllowedTo(c)
  BY <1>1, <1>2, <1>3, <1>4, AllowedMembers DEF OwnGrants
<1> QED BY <1>4

\* A failed call has nothing.
LEMMA FailedHasNothing ==
    ASSUME TypeOK, NEW c \in Calls, Fail(c)
    PROVE  /\ StageOf(c)' = "refused" /\ KindOf(job[c].op)' = "none"
           /\ AllowedTo(c)' = {} /\ ArtifactOf(c)' = Sha256(NoArtifact)
<1>1. status'[c] = "failed" /\ job'[c] = NoJob /\ work'[c] = NoWork
  BY DEF Fail, TypeOK, CallsTyped
<1>2. AllowedTo(c)' = {}
  BY <1>1, AllowedMembers
<1>3. NoJob.op = "none" /\ "none" \notin Readers /\ NoWork.product = NoArtifact
  BY DEF NoJob, Readers, NoWork
<1> QED BY <1>1, <1>2, <1>3, KindsOfOperations DEF StageOf, ArtifactOf

\* Authority that counts is authority in the abstract.
LEMMA AskedIsAllowed ==
    ASSUME NEW c, AskedOK(c), status[c] = "running", NEW i \in Nat,
           Counts(job[c], Route(job[c]), i, at[c])
    PROVE  Route(job[c])[i] \in AllowedTo(c)
<1>1. Granted(c, Route(job[c])[i], OperationOf(job[c], Route(job[c])[i]),
              work[c].desc, work[c].digest)
  BY DEF AskedOK
<1> QED BY <1>1, AllowedMembers DEF Granted

-----------------------------------------------------------------------------
(***************************************************************************)
(* Every step of the code is a custody step of its call, or none.          *)
(***************************************************************************)

\* Where a running call is.
LEMMA OnRoute ==
    ASSUME TypeOK, NEW c \in Calls, NEW step, Running(c, step)
    PROVE  /\ status[c] = "running" /\ at[c] \in 1..Len(Route(job[c]))
           /\ Len(Route(job[c])) \in Nat /\ Route(job[c])[at[c]] = step /\ step \in Steps
           /\ job[c].op \in AllOperations /\ CustodyRoute(job[c], Route(job[c]))
           /\ StageOf(c) = StageBefore(job[c].op, step)
BY RunningCall, CustodyRoutes, JobRoute DEF StageOf, RouteOK

\* Whoever opens or seals has the authority it needs.
LEMMA NeededIsAllowed ==
    ASSUME TypeOK, NEW c \in Calls, NEW step \in Working, Running(c, step), AskedOK(c)
    PROVE  C!Needed(KindOf(job[c].op)) \subseteq AllowedTo(c)
<1> DEFINE r == Route(job[c])
           n == at[c]
<1>1. /\ n \in 1..Len(r) /\ Len(r) \in Nat /\ r[n] = step /\ status[c] = "running"
      /\ AskedBeforeWork(job[c], r)
  BY OnRoute DEF CustodyRoute
<1>2. CASE job[c].op \in Readers
  <2>1. PICK i \in 1..(n - 1), k \in 1..(n - 1) : r[i] = "policy" /\ r[k] = "key_plan"
    BY <1>1, <1>2 DEF AskedBeforeWork
  <2>2. Counts(job[c], r, i, n) /\ Counts(job[c], r, k, n)
    BY <1>2, <2>1 DEF Counts, Asking
  <2>3. "policy" \in AllowedTo(c) /\ "key_plan" \in AllowedTo(c)
    BY <1>1, <2>1, <2>2, AskedIsAllowed
  <2> QED BY <1>2, <2>3, KindsOfOperations DEF C!Needed
<1>3. CASE job[c].op \notin Readers
  <2>1. PICK i \in Nat, o \in Nat : RoundBeforeWork(r, i, o)
    BY <1>1, <1>3 DEF AskedBeforeWork
  <2>2. /\ i \in 1..Len(r) /\ i + 2 < n
        /\ r[i] = "policy" /\ r[i + 1] = "plan" /\ r[i + 2] = "key_plan"
        /\ \A k \in i..Len(r) : r[k] # "manifest"
    BY <1>1, <2>1 DEF RoundBeforeWork
  <2>3. /\ Counts(job[c], r, i, n) /\ Counts(job[c], r, i + 1, n)
        /\ Counts(job[c], r, i + 2, n)
    BY <1>1, <2>2 DEF Counts, Asking
  <2>4. i + 1 \in Nat /\ i + 2 \in Nat
    OBVIOUS
  <2>5. r[i] \in AllowedTo(c) /\ r[i + 1] \in AllowedTo(c) /\ r[i + 2] \in AllowedTo(c)
    BY <1>1, <2>3, <2>4, AskedIsAllowed
  <2> QED BY <2>2, <2>5 DEF C!Needed, C!Authority
<1> QED BY <1>2, <1>3

\* What is written down is what Custody calls the entry of the call.
LEMMA EntryOfCall ==
    ASSUME TypeOK, NEW c \in Calls, NEW step, Running(c, step)
    PROVE  /\ step = "register" =>
                 <<Registration(c).operation, Registration(c).digest>> = C!Entry(c)
           /\ step = "evidence" =>
                 <<EvidenceRecord(c).event, EvidenceRecord(c).digest>> = C!Entry(c)
<1>1. C!Entry(c) = <<PolicyOperation(job[c].op), ArtifactOf(c)>>
  BY OnRoute, KindsOfOperations DEF C!Entry
<1>2. step = "register" => job[c].op \notin Readers
  BY OnRoute DEF CustodyRoute, StageRoute
<1> QED BY <1>1, <1>2 DEF Registration, EvidenceRecord, ArtifactOf

\* The catalog and the ledger as Custody sees them.
LEMMA RecordsOfCall ==
    ASSUME TypeOK, NEW c \in Calls, NEW step, Effects(c, step)
    PROVE  LET Catalog == {<<r.operation, r.digest>> : r \in catalog}
               Ledger  == {<<e.event, e.digest>> : e \in ledger}
           IN  /\ step # "register" => Catalog' = Catalog
               /\ step # "evidence" => Ledger' = Ledger
               /\ Catalog' \in {Catalog, Catalog \cup {C!Entry(c)}}
               /\ Ledger' \in {Ledger, Ledger \cup {C!Entry(c)}}
               /\ step = "register" /\ Registration(c) \in catalog' =>
                     Catalog' = Catalog \cup {C!Entry(c)}
               /\ step = "evidence" /\ EvidenceRecord(c) \in ledger' =>
                     Ledger' = Ledger \cup {C!Entry(c)}
<1> DEFINE Catalog == {<<r.operation, r.digest>> : r \in catalog}
           Ledger  == {<<e.event, e.digest>> : e \in ledger}
<1>1. Running(c, step)
  BY DEF Effects
<1>2. step = "register" =>
          \A cat : cat = catalog \cup {Registration(c)} =>
              {<<r.operation, r.digest>> : r \in cat} = Catalog \cup {C!Entry(c)}
  BY <1>1, EntryOfCall
<1>3. step = "evidence" =>
          \A led : led = ledger \cup {EvidenceRecord(c)} =>
              {<<e.event, e.digest>> : e \in led} = Ledger \cup {C!Entry(c)}
  BY <1>1, EntryOfCall
<1>4. /\ step # "register" => catalog' = catalog
      /\ step # "evidence" => ledger' = ledger
      /\ catalog' = catalog \/ (step = "register" /\ catalog' = catalog \cup {Registration(c)})
      /\ ledger' = ledger \/ (step = "evidence" /\ ledger' = ledger \cup {EvidenceRecord(c)})
      /\ Registration(c) \in catalog' => catalog' = catalog \cup {Registration(c)} \/
                                         step # "register"
      /\ EvidenceRecord(c) \in ledger' => ledger' = ledger \cup {EvidenceRecord(c)} \/
                                          step # "evidence"
  BY DEF Effects
<1> QED BY <1>2, <1>3, <1>4

\* A call that fails is refused; a record it asked for may stand.
LEMMA FailureIsCustody ==
    ASSUME TypeOK, NEW c \in Calls, NEW step, Effects(c, step), Fail(c)
    PROVE  C!Next
<1>1. Running(c, step)
  BY DEF Effects
<1>2. C!Drop(c)
  BY OthersGrantsKeptByStep, AbstractMoves, FailedHasNothing DEF C!Drop
<1>3. CASE step = "register"
  <2>1. StageOf(c) = "sealed"
    BY <1>1, <1>3, OnRoute DEF StageBefore
  <2> QED BY <1>2, <1>3, <2>1, RecordsOfCall DEF C!Next, C!Record
<1>4. CASE step = "evidence"
  <2>1. \/ StageOf(c) = "opened" /\ KindOf(job[c].op) = "read"
        \/ StageOf(c) = "recorded"
    BY <1>1, <1>4, OnRoute, KindsOfOperations DEF StageBefore
  <2> QED BY <1>2, <1>4, <2>1, RecordsOfCall DEF C!Next, C!Attest
<1>5. CASE step \notin {"register", "evidence"}
  <2>1. StageOf(c) \notin {"returned", "refused"}
    BY <1>1, OnRoute DEF StageBefore
  <2> QED BY <1>2, <1>5, <2>1, RecordsOfCall DEF C!Next, C!Refuse
<1> QED BY <1>3, <1>4, <1>5

\* A call that goes on takes a custody step, or none.
LEMMA ProgressIsCustody ==
    ASSUME TypeOK, NEW c \in Calls, NEW step, NEW locals, Effects(c, step),
           Goes(c, step, locals), AskedOK(c), OwnGrants(c),
           step = "register" => Registration(c) \in catalog'
    PROVE  C!Next \/ UNCHANGED C!vars
<1> DEFINE r == Route(job[c])
           n == at[c]
           op == job[c].op
           Catalog == {<<x.operation, x.digest>> : x \in catalog}
           Ledger == {<<e.event, e.digest>> : e \in ledger}
<1>0. Running(c, step)
  BY DEF Effects
<1>1. /\ n \in 1..Len(r) /\ Len(r) \in Nat /\ r[n] = step /\ step \in Steps
      /\ op \in AllOperations /\ StageRoute(job[c], r)
      /\ StageOf(c) = StageBefore(op, step)
  BY <1>0, OnRoute DEF CustodyRoute
<1>2. /\ job' = job /\ at'[c] = n + 1
      /\ status'[c] = IF n = Len(r) THEN "returned" ELSE "running"
  BY Moved DEF Goes, Proceed, LastStep, TypeOK, CallsTyped
<1>3. OthersGrantsKept(c) /\ KindOf(op)' = KindOf(op)
  BY <1>2, OthersGrantsKeptByStep
<1>4. IF n = Len(r) THEN StageOf(c)' = "returned"
                    ELSE StageOf(c)' = StageBefore(op, r[n + 1])
  BY <1>2 DEF StageOf
<1>5. step # "seal" => ArtifactOf(c)' = ArtifactOf(c)
  BY <1>2, Moved DEF Goes, ArtifactOf
<1>11. /\ step # "register" => Catalog' = Catalog
       /\ step # "evidence" => Ledger' = Ledger
       /\ step = "register" => Catalog' = Catalog \cup {C!Entry(c)}
       /\ step = "evidence" => Ledger' = Ledger \cup {C!Entry(c)}
  BY RecordsOfCall DEF Goes
<1>6. CASE step \in Opening
  <2>1. /\ StageOf(c) = "asking" /\ StageOf(c)' = "opened"
        /\ KindOf(op) \in {"read", "rewrite"}
    <3>1. op \in Readers \/ op \in Rewriters
      BY <1>1, <1>6, OperationKinds DEF StageRoute
    <3>2. n < Len(r) /\ r[n + 1] = IF op \in Readers THEN "evidence" ELSE "seal"
      BY <1>1, <1>6 DEF StageRoute
    <3> QED BY <1>1, <1>4, <1>6, <3>1, <3>2, KindsOfOperations, OperationKinds
            DEF StageBefore, Opening
  <2>2. C!Needed(KindOf(op)) \subseteq AllowedTo(c)
    BY <1>0, <1>6, NeededIsAllowed DEF Working
  <2>3. AllowedTo(c)' = AllowedTo(c)
    BY <1>6, AllowedGrows DEF Opening, Asking
  <2>4. C!Open(c)
    BY <1>3, <1>5, <1>6, <1>11, <2>1, <2>2, <2>3, AbstractMoves DEF C!Open, Opening
  <2> QED BY <2>4 DEF C!Next
<1>7. CASE step = "seal"
  <2>1. /\ StageOf(c)' = "sealed"
        /\ \/ StageOf(c) = "asking" /\ KindOf(op) = "make"
           \/ StageOf(c) = "opened" /\ KindOf(op) = "rewrite"
    <3>1. /\ op \in Rewriters \/ (op \in Makers /\ op # "prepare")
          /\ n < Len(r) /\ r[n + 1] = "register"
      BY <1>1, <1>7, OperationKinds DEF StageRoute
    <3> QED BY <1>1, <1>4, <1>7, <3>1, KindsOfOperations, OperationKinds DEF StageBefore
  <2>2. C!Needed(KindOf(op)) \subseteq AllowedTo(c)
    BY <1>0, <1>7, NeededIsAllowed DEF Working
  <2>3. AllowedTo(c)' = AllowedTo(c)
    BY <1>7, AllowedGrows DEF Asking
  <2>4. C!Seal(c)
    BY <1>3, <1>7, <1>11, <2>1, <2>2, <2>3, AbstractMoves DEF C!Seal
  <2> QED BY <2>4 DEF C!Next
<1>8. CASE step = "register"
  <2>1. StageOf(c) = "sealed" /\ StageOf(c)' = "recorded"
    <3>1. n < Len(r) /\ r[n + 1] = "evidence" /\ op \notin Readers
      BY <1>1, <1>8 DEF StageRoute
    <3> QED BY <1>1, <1>4, <1>8, <3>1 DEF StageBefore
  <2>2. AllowedTo(c)' = AllowedTo(c)
    BY <1>8, AllowedGrows DEF Asking
  <2>4. C!Record(c)
    BY <1>3, <1>5, <1>8, <1>11, <2>1, <2>2, AbstractMoves DEF C!Record
  <2> QED BY <2>4 DEF C!Next
<1>9. CASE step = "evidence"
  <2>1. /\ StageOf(c)' = "returned"
        /\ \/ StageOf(c) = "opened" /\ KindOf(op) = "read"
           \/ StageOf(c) = "recorded"
    <3>1. n = Len(r)
      BY <1>1, <1>9 DEF StageRoute
    <3> QED BY <1>1, <1>4, <1>9, <3>1, KindsOfOperations DEF StageBefore
  <2>2. AllowedTo(c)' = AllowedTo(c)
    BY <1>9, AllowedGrows DEF Asking
  <2>4. C!Attest(c)
    BY <1>3, <1>5, <1>9, <1>11, <2>1, <2>2, AbstractMoves DEF C!Attest
  <2> QED BY <2>4 DEF C!Next
<1>10. CASE step \in Steps \ (Working \cup {"register", "evidence"})
  <2>0. step \in {"bootstrap", "policy", "plan", "key_plan", "current_key", "new_key",
                  "manifest"}
    BY <1>10 DEF Steps, RemoteSteps, Working, Opening
  <2>1. StageOf(c) = "asking"
    BY <1>1, <2>0 DEF StageBefore
  <2>2. n # Len(r) => StageOf(c)' = "asking"
    <3>1. n # Len(r) => /\ r[n + 1] \notin {"register", "evidence"}
                        /\ r[n + 1] = "seal" => op \in Makers
      BY <1>1, <2>0 DEF StageRoute
    <3> QED BY <1>4, <3>1, OperationKinds DEF StageBefore
  <2>3. n = Len(r) => /\ op = "prepare" /\ step = "plan"
                      /\ \E i \in 1..(n - 1) : r[i] = "policy"
    BY <1>1, <2>0 DEF StageRoute
  <2>4. CASE step = "manifest"
    <3>1. n # Len(r)
      BY <2>3, <2>4
    <3>2. AllowedTo(c)' \in SUBSET AllowedTo(c)
      BY <2>4, AllowedShrinks
    <3>3. C!Redescribe(c)
      BY <1>3, <1>5, <1>11, <2>1, <2>2, <2>4, <3>1, <3>2, AbstractMoves DEF C!Redescribe
    <3> QED BY <3>3 DEF C!Next
  <2>5. CASE step \in Asking
    <3>1. step \in C!Authority /\ AllowedTo(c)' = AllowedTo(c) \cup {step}
      BY <2>5, AllowedGrows DEF Asking, C!Authority
    <3>2. CASE n # Len(r)
      <4>0. StageOf(c)' = StageOf(c) /\ step \notin {"seal", "register", "evidence"}
        BY <2>0, <2>1, <2>2, <3>2
      <4>1. C!Allow(c)
        BY <1>3, <1>5, <1>11, <2>1, <3>1, <4>0, AbstractMoves DEF C!Allow
      <4> QED BY <4>1 DEF C!Next
    <3>3. CASE n = Len(r)
      <4>1. PICK i \in 1..(n - 1) : r[i] = "policy"
        BY <2>3, <3>3
      <4>2. \A k \in 1..Len(r) : r[k] # "manifest"
        BY <1>1, <2>3, <3>3 DEF StageRoute, Makers
      <4>3. Counts(job[c], r, i, n)
        BY <1>1, <4>1, <4>2 DEF Counts, Asking
      <4>4. "policy" \in AllowedTo(c)
        BY <1>0, <1>1, <4>1, <4>3, AskedIsAllowed DEF Running
      <4>5. C!Needed("prepare") \subseteq AllowedTo(c)'
        BY <2>3, <3>1, <3>3, <4>4 DEF C!Needed
      <4>6. StageOf(c)' = "returned" /\ KindOf(op) = "prepare"
        BY <1>4, <2>3, <3>3, KindsOfOperations
      <4>7. C!Allow(c)
        BY <1>3, <1>5, <1>11, <2>1, <2>5, <3>1, <4>5, <4>6, AbstractMoves DEF C!Allow, Asking
      <4> QED BY <4>7 DEF C!Next
    <3> QED BY <3>2, <3>3
  <2>6. CASE step \notin Asking \cup {"manifest"}
    <3>1. n # Len(r) /\ AllowedTo(c)' = AllowedTo(c)
      BY <2>3, <2>6, AllowedGrows DEF Asking
    <3>2. step \notin {"register", "evidence", "seal"}
      BY <2>0
    <3> QED BY <1>3, <1>5, <1>11, <2>1, <2>2, <3>1, <3>2, AbstractMoves DEF C!vars
  <2> QED BY <2>4, <2>5, <2>6
<1> QED BY <1>1, <1>6, <1>7, <1>8, <1>9, <1>10 DEF Working

\* A call that begins, or whose bytes are rejected.
LEMMA BeginIsCustody ==
    ASSUME TypeOK, TypeOK', GrantsInv, NEW c \in Calls, BeginCall(c)
    PROVE  C!Next
<1>1. UNCHANGED <<grants, catalog, ledger>> /\ status[c] = "idle"
  BY Beginnings
<1>2. (\E j, locals : Begin(c, j, locals)) \/ Fail(c)
  BY Beginnings
<1>3. OthersGrantsKept(c)
  <2> SUFFICES ASSUME NEW d \in Calls \ {c}
               PROVE  /\ StageOf(d)' = StageOf(d) /\ KindOf(job[d].op)' = KindOf(job[d].op)
                      /\ AllowedTo(d)' = AllowedTo(d) /\ ArtifactOf(d)' = ArtifactOf(d)
    BY DEF OthersGrantsKept
  <2>1. UNCHANGED <<status[d], job[d], at[d], work[d]>>
    BY <1>2, OthersUntouched
  <2> QED BY <1>1, <2>1 DEF StageOf, AllowedTo, ArtifactOf
<1>4. StageOf(c) = "idle" /\ AllowedTo(c) = {}
  <2>1. \A g \in grants : g.call # c
    BY <1>1 DEF GrantsInv, OwnGrants
  <2> QED BY <1>1, <2>1, AllowedMembers DEF StageOf
<1>5. CASE Fail(c)
  <2>1. C!Drop(c)
    BY <1>3, <1>5, AbstractMoves, FailedHasNothing DEF C!Drop
  <2>2. C!Refuse(c)
    BY <1>1, <1>4, <2>1 DEF C!Refuse
  <2> QED BY <2>2 DEF C!Next
<1>6. CASE \E j, locals : Begin(c, j, locals)
  <2>1. status'[c] = "running" /\ at'[c] = 1
    BY <1>6 DEF Begin, TypeOK, CallsTyped
  <2>2. JobOK(job[c])'
    BY <2>1 DEF TypeOK, CallsTyped, CallOK
  <2>3. job'[c].op \in AllOperations
    BY <2>2, WorkflowAssumption DEF JobOK
  <2>4. StageRoute(job'[c], Route(job'[c]))
    BY <2>3, CustodyRoutes DEF CustodyRoute
  <2>5. StageOf(c)' = "asking"
    BY <2>1, <2>4 DEF StageOf, StageBefore, StageRoute
  <2>6. AllowedTo(c)' = {}
    <3>1. \A g \in grants' : g.call # c
      BY <1>1 DEF GrantsInv, OwnGrants
    <3> QED BY <3>1, AllowedMembers
  <2>7. KindOf(job[c].op)' \in C!Kinds
    BY <2>3, KindsOfOperations
  <2>8. C!Begin(c)
    BY <1>1, <1>3, <1>4, <2>5, <2>6, <2>7, AbstractMoves DEF C!Begin
  <2> QED BY <2>8 DEF C!Next
<1> QED BY <1>2, <1>5, <1>6

-----------------------------------------------------------------------------
(***************************************************************************)
(* The second invariant, and the theorem.                                  *)
(***************************************************************************)

LEMMA OtherOwnGrants ==
    ASSUME NEW d, OwnGrants(d), UNCHANGED <<status[d], job[d], at[d], work[d]>>,
           \A g \in grants' : g.call = d => g \in grants
    PROVE  OwnGrants(d)'
BY DEF OwnGrants, Opened

LEMMA OwnGrantsStep ==
    ASSUME TypeOK, GrantsInv, NEW c \in Calls, NEW step, Effects(c, step)
    PROVE  GrantsInv'
<1>1. \A g \in grants' : g \in grants \/ (g.call = c /\ g.about = work[c].desc)
  BY DEF Effects, Ask
<1>2. ASSUME NEW d \in Calls \ {c} PROVE OwnGrants(d)'
  <2>1. UNCHANGED <<status[d], job[d], at[d], work[d]>>
    BY OthersUntouched DEF Effects, Goes
  <2> QED BY <1>1, <2>1, OtherOwnGrants DEF GrantsInv
<1>3. OwnGrants(c)'
  <2>1. CASE Fail(c)
    BY <2>1 DEF Fail, TypeOK, CallsTyped, OwnGrants
  <2>2. ASSUME NEW locals, Goes(c, step, locals) PROVE OwnGrants(c)'
    <3>1. /\ job' = job /\ work'[c] = locals /\ at'[c] = at[c] + 1
          /\ at[c] \in 1..Len(Route(job[c])) /\ Route(job[c])[at[c]] = step
          /\ status[c] = "running"
      BY <2>2, Moved
    <3>2. status'[c] # "idle"
      BY <2>2 DEF Goes, Proceed, TypeOK, CallsTyped
    <3>3. ~Opened(c)' => ~Opened(c) /\ step # "manifest"
      BY <3>1 DEF Opened
    <3>4. step # "manifest" => locals.desc = work[c].desc
      BY <2>2 DEF Goes
    <3> QED BY <1>1, <3>1, <3>2, <3>3, <3>4 DEF GrantsInv, OwnGrants
  <2> QED BY <2>1, <2>2 DEF Effects
<1> QED BY <1>2, <1>3 DEF GrantsInv

LEMMA OwnGrantsBegin ==
    ASSUME TypeOK, GrantsInv, NEW c \in Calls, BeginCall(c)
    PROVE  GrantsInv'
<1>1. grants' = grants /\ status[c] = "idle"
  BY Beginnings
<1>2. (\E j, locals : Begin(c, j, locals)) \/ Fail(c)
  BY Beginnings
<1>3. ASSUME NEW d \in Calls \ {c} PROVE OwnGrants(d)'
  BY <1>1, <1>2, <1>3, OthersUntouched, OtherOwnGrants DEF GrantsInv
<1>4. OwnGrants(c)'
  BY <1>1 DEF GrantsInv, OwnGrants
<1> QED BY <1>3, <1>4 DEF GrantsInv

\* Steps outside the calls.
LEMMA NothingMoves ==
    ASSUME UNCHANGED <<callVars, platformVars>>
    PROVE  UNCHANGED C!vars /\ (GrantsInv => GrantsInv')
<1>1. UNCHANGED <<status, job, at, work, grants, catalog, ledger>>
  BY DEF callVars, platformVars
<1>2. UNCHANGED C!vars
  BY <1>1 DEF C!vars, StageOf, AllowedTo, ArtifactOf
<1>3. GrantsInv => GrantsInv'
  BY <1>1, OtherOwnGrants DEF GrantsInv
<1> QED BY <1>2, <1>3

\* Every step keeps the grants own, and is a custody step or none.
LEMMA CustodyStep ==
    TypeOK /\ TypeOK' /\ AuthorityInv /\ GrantsInv /\ [Next]_vars => [C!Next]_(C!vars) /\ GrantsInv'
<1> SUFFICES ASSUME TypeOK, TypeOK', AuthorityInv, GrantsInv, [Next]_vars
             PROVE  (C!Next \/ UNCHANGED C!vars) /\ GrantsInv'
  OBVIOUS
<1>1. ASSUME NEW c \in Calls, BeginCall(c)
      PROVE  (C!Next \/ UNCHANGED C!vars) /\ GrantsInv'
  BY <1>1, BeginIsCustody, OwnGrantsBegin
<1>2. ASSUME NEW c \in Calls, AskPlatform(c) \/ ComputeLocally(c) \/ ConnectionFails(c)
      PROVE  (C!Next \/ UNCHANGED C!vars) /\ GrantsInv'
  <2>1. PICK step : Effects(c, step)
    BY <1>2, StepEffects
  <2>2. AskedOK(c) /\ OwnGrants(c)
    BY <2>1, OnRoute DEF Effects, AuthorityInv, AuthorityOK, GrantsInv
  <2>3. C!Next \/ UNCHANGED C!vars
    <3>1. CASE Fail(c)
      BY <2>1, <3>1, FailureIsCustody
    <3>2. ASSUME NEW locals, Goes(c, step, locals),
                 step = "register" => Registration(c) \in catalog'
          PROVE  C!Next \/ UNCHANGED C!vars
      BY <2>1, <2>2, <3>2, ProgressIsCustody
    <3> QED BY <2>1, <3>1, <3>2 DEF Effects
  <2> QED BY <2>1, <2>3, OwnGrantsStep
<1>3. ASSUME NEW ref \in ManagedRefs, RotateKey(ref)
      PROVE  (C!Next \/ UNCHANGED C!vars) /\ GrantsInv'
  BY <1>3, NothingMoves DEF RotateKey
<1>4. CASE UNCHANGED vars
  <2>1. UNCHANGED <<callVars, platformVars>>
    BY <1>4 DEF vars, callVars, platformVars
  <2> QED BY <2>1, NothingMoves
<1> QED BY <1>1, <1>2, <1>3, <1>4 DEF Next

LEMMA CustodyInit == Init => C!Init /\ GrantsInv
<1> SUFFICES ASSUME Init PROVE C!Init /\ GrantsInv
  OBVIOUS
<1>1. ASSUME NEW c \in Calls
      PROVE  /\ StageOf(c) = "idle" /\ KindOf(job[c].op) = "none"
             /\ AllowedTo(c) = {} /\ ArtifactOf(c) = Sha256(NoArtifact)
  <2>1. status[c] = "idle" /\ job[c] = NoJob /\ work[c] = NoWork /\ grants = {}
    BY DEF Init
  <2>2. NoJob.op = "none" /\ "none" \notin Readers /\ NoWork.product = NoArtifact
    BY DEF NoJob, Readers, NoWork
  <2>3. AllowedTo(c) = {}
    BY <2>1, AllowedMembers
  <2> QED BY <2>1, <2>2, <2>3, KindsOfOperations DEF StageOf, ArtifactOf
<1>2. catalog = {} /\ ledger = {} /\ grants = {}
  BY DEF Init
<1> QED BY <1>1, <1>2 DEF C!Init, GrantsInv, OwnGrants

\* ImplementsCustody, for every platform, any artifacts and any number of calls: every
\* behaviour of the public functions of local.rs is a behaviour of Custody.
THEOREM WorkflowsImplementCustody == Spec => ImplementsCustody
<1>1. Init => C!Init /\ TypeOK /\ AuthorityInv /\ GrantsInv
  BY TypeInit, AuthorityInit, CustodyInit
<1>2. TypeOK /\ AuthorityInv /\ GrantsInv /\ [Next]_vars =>
          TypeOK' /\ AuthorityInv' /\ GrantsInv' /\ [C!Next]_(C!vars)
  BY TypeStep, AuthorityStep, CustodyStep
<1> QED BY <1>1, <1>2, PTL DEF Spec, ImplementsCustody, C!Spec

-----------------------------------------------------------------------------
(***************************************************************************)
(* What the workflows inherit from the custody specification.              *)
(***************************************************************************)

\* The theorems about Custody, of the workflows' stages, authority and records.
CP == INSTANCE CustodyProofs WITH
        Nothing  <- Sha256(NoArtifact),
        stage    <- [c \in Calls |-> StageOf(c)],
        kind     <- [c \in Calls |-> KindOf(job[c].op)],
        allowed  <- [c \in Calls |-> AllowedTo(c)],
        artifact <- [c \in Calls |-> ArtifactOf(c)],
        catalog  <- {<<r.operation, r.digest>> : r \in catalog},
        ledger   <- {<<e.event, e.digest>> : e \in ledger}

LEMMA SameCustody == (C!Init <=> CP!Init) /\ ([C!Next]_(C!vars) <=> [CP!Next]_(CP!vars))
<1> USE DEF C!MoveTo, CP!MoveTo, C!OnlyArtifactOf, CP!OnlyArtifactOf, C!Drop, CP!Drop,
            C!Entry, CP!Entry, C!Needed, CP!Needed, C!Authority, CP!Authority,
            C!Event, CP!Event, C!Kinds, CP!Kinds
<1>1. C!Init <=> CP!Init
  BY DEF C!Init, CP!Init
<1>2. C!vars = CP!vars /\ (C!vars)' = (CP!vars)'
  BY DEF C!vars, CP!vars
<1>3. ASSUME NEW c PROVE
      /\ C!Begin(c) <=> CP!Begin(c)
      /\ C!Allow(c) <=> CP!Allow(c)
      /\ C!Redescribe(c) <=> CP!Redescribe(c)
      /\ C!Open(c) <=> CP!Open(c)
      /\ C!Seal(c) <=> CP!Seal(c)
      /\ C!Record(c) <=> CP!Record(c)
      /\ C!Attest(c) <=> CP!Attest(c)
      /\ C!Refuse(c) <=> CP!Refuse(c)
  BY DEF C!Begin, CP!Begin, C!Allow, CP!Allow, C!Redescribe, CP!Redescribe, C!Open, CP!Open,
         C!Seal, CP!Seal, C!Record, CP!Record, C!Attest, CP!Attest, C!Refuse, CP!Refuse
<1>4. C!Next <=> CP!Next
  BY <1>3 DEF C!Next, CP!Next
<1> QED BY <1>1, <1>2, <1>4

\* A call of any workflow that has returned had full authority for the description it
\* ends with, its event is attested, and what it made is registered.
THEOREM WorkflowsKeepCustody == Spec => []C!ReturnedInCustody
<1>1. CP!Spec => []CP!ReturnedInCustody
  BY CP!ReturnedResultsAreInCustody
<1>2. CP!ReturnedInCustody => C!ReturnedInCustody
  BY DEF CP!ReturnedInCustody, C!ReturnedInCustody, C!Entry, CP!Entry, C!Needed, CP!Needed,
         C!Authority, CP!Authority, C!Event, CP!Event
<1>3. C!Init => CP!Init
  BY SameCustody
<1>4. [C!Next]_(C!vars) => [CP!Next]_(CP!vars)
  BY SameCustody
<1> QED BY <1>1, <1>2, <1>3, <1>4, WorkflowsImplementCustody, PTL
       DEF ImplementsCustody, C!Spec, CP!Spec

-----------------------------------------------------------------------------
(***************************************************************************)
(* A call is finite: what CallsEnd says but for fairness.                  *)
(***************************************************************************)

\* A running call is at a step of its route, one of those it has the arguments for.
StepIsKnown ==
    \A c \in Calls : status[c] = "running" =>
        /\ at[c] \in 1..Len(Route(job[c]))
        /\ Route(job[c])[at[c]] \in Steps
        /\ Route(job[c])[at[c]] = "current_key" => job[c].op \notin Makers
        /\ Route(job[c])[at[c]] = "new_key" => job[c].op \notin Readers

\* A running call goes to the next step of its route, ends, or is left alone; one that
\* has ended stays as it is.
CallsAdvance ==
    \A c \in Calls :
        \/ UNCHANGED <<status[c], job[c], at[c], work[c]>>
        \/ status[c] = "idle"
        \/ /\ status[c] = "running"
           /\ \/ /\ at[c] < Len(Route(job[c])) /\ at'[c] = at[c] + 1
                 /\ status'[c] = "running" /\ job'[c] = job[c]
              \/ at[c] = Len(Route(job[c])) /\ status'[c] = "returned" /\ job'[c] = job[c]
              \/ status'[c] = "failed"

LEMMA KnownSteps == TypeOK => StepIsKnown
<1> SUFFICES ASSUME TypeOK, NEW c \in Calls, status[c] = "running"
             PROVE  /\ at[c] \in 1..Len(Route(job[c]))
                    /\ Route(job[c])[at[c]] \in Steps
                    /\ Route(job[c])[at[c]] = "current_key" => job[c].op \notin Makers
                    /\ Route(job[c])[at[c]] = "new_key" => job[c].op \notin Readers
  BY DEF StepIsKnown
<1>1. Running(c, Route(job[c])[at[c]])
  BY DEF Running
<1>2. at[c] \in 1..Len(Route(job[c])) /\ RouteOK(job[c], Route(job[c]))
  BY <1>1, RunningCall
<1>3. PICK r : r = Route(job[c])
  OBVIOUS
<1>4. r \in Seq(Steps) /\ at[c] \in 1..Len(r)
  BY <1>2, <1>3 DEF RouteOK
<1>5. r[at[c]] \in Steps
  BY <1>4
<1> QED BY <1>2, <1>3, <1>5 DEF RouteOK

LEMMA StepAdvances ==
    ASSUME TypeOK, NEW c \in Calls, NEW step, Effects(c, step)
    PROVE  CallsAdvance
<1>1. ASSUME NEW d \in Calls \ {c} PROVE UNCHANGED <<status[d], job[d], at[d], work[d]>>
  BY OthersUntouched DEF Effects, Goes
<1>2. /\ status[c] = "running" /\ at[c] \in 1..Len(Route(job[c]))
      /\ Len(Route(job[c])) \in Nat
  BY RunningCall, JobRoute DEF Effects
<1>3. /\ status \in [Calls -> {"idle", "running", "returned", "failed"}]
      /\ DOMAIN at = Calls
  BY DEF TypeOK, CallsTyped
<1>4. CASE Fail(c)
  BY <1>1, <1>2, <1>3, <1>4 DEF Fail, CallsAdvance
<1>5. ASSUME NEW locals, Proceed(c, locals) PROVE CallsAdvance
  <2>1. /\ job'[c] = job[c] /\ at'[c] = at[c] + 1
        /\ status'[c] = IF LastStep(c) THEN "returned" ELSE "running"
    BY <1>3, <1>5 DEF Proceed
  <2>2. CASE LastStep(c)
    BY <1>1, <1>2, <2>1, <2>2 DEF LastStep, CallsAdvance
  <2>3. CASE ~LastStep(c)
    <3>1. at[c] < Len(Route(job[c]))
      BY <1>2, <2>3 DEF LastStep
    <3> QED BY <1>1, <1>2, <2>1, <2>3, <3>1 DEF CallsAdvance
  <2> QED BY <2>2, <2>3
<1> QED BY <1>4, <1>5 DEF Effects, Goes

LEMMA CallStep == TypeOK /\ [Next]_vars => CallsAdvance
<1> SUFFICES ASSUME TypeOK, [Next]_vars PROVE CallsAdvance
  OBVIOUS
<1>1. ASSUME NEW c \in Calls, BeginCall(c) PROVE CallsAdvance
  <2>1. status[c] = "idle" /\ (Fail(c) \/ \E j, locals : Begin(c, j, locals))
    BY <1>1 DEF BeginCall, BeginMaking, BeginReading, BeginRewriting, RejectSource, Begin
  <2> QED BY <2>1, OthersUntouched DEF CallsAdvance
<1>2. ASSUME NEW c \in Calls, AskPlatform(c) \/ ComputeLocally(c) \/ ConnectionFails(c)
      PROVE  CallsAdvance
  BY <1>2, StepEffects, StepAdvances
<1>3. ASSUME NEW ref \in ManagedRefs, RotateKey(ref) PROVE CallsAdvance
  BY <1>3 DEF RotateKey, callVars, CallsAdvance
<1>4. CASE UNCHANGED vars
  BY <1>4 DEF vars, CallsAdvance
<1> QED BY <1>1, <1>2, <1>3, <1>4 DEF Next

\* A call takes no more steps than its route has, each at most once and in order, and
\* returns only after all of them; a result is final.  At any time its step is one the
\* code has the arguments for, and either answers or fails.  So a call can only hang
\* inside a step, which the timeouts of the client bound (ClientBuilder::
\* with_timeout_secs): CallsEnd.
THEOREM CallsAreFinite == Spec => []StepIsKnown /\ [][CallsAdvance]_vars
<1>1. TypeOK /\ [Next]_vars => TypeOK' /\ CallsAdvance
  BY TypeStep, CallStep
<1> QED BY <1>1, TypeInit, KnownSteps, PTL DEF Spec

=============================================================================
