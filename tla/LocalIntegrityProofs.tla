------------------------ MODULE LocalIntegrityProofs ------------------------
(***************************************************************************)
(* What callers hold, for every platform: it is in the catalog under the   *)
(* key that seals it, and evidenced (KeptInv); it opens under that key, no *)
(* damaged field is served, and along every lineage the content, tenant    *)
(* and resource are kept and the meta_version names the manifest           *)
(* (TrustInv).                                                             *)
(***************************************************************************)
EXTENDS LocalWorkflowProofs, WellFoundedInduction

-----------------------------------------------------------------------------
(***************************************************************************)
(* Routes: sealing, registering and attesting are the last three steps.    *)
(***************************************************************************)

\* The new key of an envelope or a TDF is behind position p; signatures use the key
\* they are given.
KeyBeforeSeal(j, r, p) ==
    \/ j.op = "sign" /\ Profile(j.op) = "detached_signature"
    \/ Profile(j.op) \in {"envelope", "tdf"} /\ \E i \in 1..(p - 1) : r[i] = "new_key"

RecordRoute(j, r) ==
    \A p \in 1..Len(r) : r[p] = "seal" =>
        /\ j.op \notin Readers
        /\ p + 2 = Len(r) /\ r[p + 1] = "register" /\ r[p + 2] = "evidence"
        /\ KeyBeforeSeal(j, r, p)

LEMMA Profiles ==
    /\ Profile("protect_envelope") = "envelope"
    /\ Profile("rewrap_envelope") = "envelope"
    /\ Profile("protect_tdf") = "tdf"
    /\ Profile("rewrap_tdf") = "tdf"
    /\ Profile("set_tdf_attributes") = "tdf"
    /\ Profile("edit_tdf_attributes") = "tdf"
    /\ Profile("sign") = "detached_signature"
<1> DEFINE envelopes == {"protect_envelope", "access_envelope", "rewrap_envelope"}
           tdfs == {"protect_tdf", "access_tdf", "rewrap_tdf", "set_tdf_attributes",
                    "edit_tdf_attributes"}
<1>1. /\ "protect_envelope" \in envelopes /\ "rewrap_envelope" \in envelopes
      /\ \A op \in tdfs : op \notin envelopes /\ op \notin {"sign", "verify"}
      /\ \A op \in envelopes : op \notin tdfs /\ op \notin {"sign", "verify"}
      /\ "sign" \notin envelopes /\ "sign" \notin tdfs
  OBVIOUS
<1>2. \A op \in envelopes : Profile(op) = "envelope"
  BY <1>1, Zenon DEF Profile
<1>3. \A op \in tdfs : Profile(op) = "tdf"
  BY <1>1, Zenon DEF Profile
<1>4. Profile("sign") = "detached_signature"
  <2>1. "sign" \in {"sign", "verify"}
    OBVIOUS
  <2> QED BY <1>1, <2>1, Zenon DEF Profile
<1> QED BY <1>1, <1>2, <1>3, <1>4

LEMMA ProfilesOfReaders ==
    /\ Profile("access_envelope") = "envelope"
    /\ Profile("access_tdf") = "tdf"
    /\ Profile("verify") = "detached_signature"
BY DEF Profile

LEMMA RecordRoutes ==
    ASSUME NEW j, j.op \in AllOperations
    PROVE  RecordRoute(j, Route(j))
<1>0. j.op \in Makers \cup Rewriters => j.op \notin Readers
  BY OperationKinds
<1>1. CASE j.op = "prepare"
  <2>1. RecordRoute(j, PrepareRoute)
    BY DEF PrepareRoute, RecordRoute
  <2> QED BY <1>1, <2>1, RouteOfOperation, Zenon
<1>2. CASE j.op = "protect_envelope"
  <2>1. RecordRoute(j, EnvelopeProtectRoute)
    BY <1>0, <1>2, Profiles DEF EnvelopeProtectRoute, RecordRoute, KeyBeforeSeal, Makers
  <2> QED BY <1>2, <2>1, RouteOfOperation, Zenon
<1>3. CASE j.op = "protect_tdf"
  <2>1. RecordRoute(j, TdfProtectRoute)
    BY <1>0, <1>3, Profiles DEF TdfProtectRoute, RecordRoute, KeyBeforeSeal, Makers
  <2> QED BY <1>3, <2>1, RouteOfOperation, Zenon
<1>4. CASE j.op = "sign"
  <2>1. RecordRoute(j, SignRoute)
    BY <1>0, <1>4, Profiles DEF SignRoute, RecordRoute, KeyBeforeSeal, Makers
  <2> QED BY <1>4, <2>1, RouteOfOperation, Zenon
<1>5. CASE j.op = "rewrap_envelope"
  <2>1. RecordRoute(j, EnvelopeRewrapRoute)
    BY <1>0, <1>5, Profiles DEF EnvelopeRewrapRoute, RecordRoute, KeyBeforeSeal, Rewriters
  <2> QED BY <1>5, <2>1, RouteOfOperation, Zenon
<1>6. CASE j.op \in {"rewrap_tdf", "set_tdf_attributes", "edit_tdf_attributes"}
  <2>1. j.op \notin Readers /\ Profile(j.op) = "tdf"
    BY <1>0, <1>6, Profiles DEF Rewriters, Editors
  <2>2. RecordRoute(j, <<"policy", "key_plan", "current_key", "manifest",
                         "bootstrap", "policy", "plan", "key_plan", "current_key", "new_key",
                         "open", "seal", "register", "evidence">>)
    BY <2>1 DEF RecordRoute, KeyBeforeSeal
  <2>3. RecordRoute(j, <<"manifest",
                         "bootstrap", "policy", "plan", "key_plan", "current_key", "new_key",
                         "open", "seal", "register", "evidence">>)
    BY <2>1 DEF RecordRoute, KeyBeforeSeal
  <2>4. RecordRoute(j, TdfRewriteRoute(j.current))
    BY <2>2, <2>3, Zenon DEF TdfRewriteRoute
  <2> QED BY <1>6, <2>4, RouteOfOperation, Zenon
<1>7. CASE j.op = "access_envelope"
  <2>1. RecordRoute(j, EnvelopeAccessRoute)
    BY DEF EnvelopeAccessRoute, RecordRoute
  <2> QED BY <1>7, <2>1, RouteOfOperation, Zenon
<1>8. CASE j.op = "verify"
  <2>1. RecordRoute(j, VerifyRoute)
    BY DEF VerifyRoute, RecordRoute
  <2> QED BY <1>8, <2>1, RouteOfOperation, Zenon
<1>9. CASE j.op = "access_tdf"
  <2>1. RecordRoute(j, <<"policy", "key_plan", "current_key", "manifest", "open", "evidence">>)
    BY DEF RecordRoute
  <2>2. RecordRoute(j, <<"manifest", "policy", "key_plan", "current_key", "open", "evidence">>)
    BY DEF RecordRoute
  <2>3. RecordRoute(j, TdfAccessRoute(j.source))
    BY <2>1, <2>2, Zenon DEF TdfAccessRoute
  <2> QED BY <1>9, <2>3, RouteOfOperation, Zenon
<1> QED BY <1>1, <1>2, <1>3, <1>4, <1>5, <1>6, <1>7, <1>8, <1>9 DEF AllOperations

-----------------------------------------------------------------------------
(***************************************************************************)
(* The inductive invariant.  The record is compared with the artifact only *)
(* when the call returns, so what each step owes the record is remembered  *)
(* from the key on.                                                        *)
(***************************************************************************)

Passed(c, step) == \E i \in 1..(at[c] - 1) : Route(job[c])[i] = step

\* The artifact is what the registration will say of it.
SealedAsNamed(c) ==
    LET a == work[c].product IN
    /\ Description(a) = work[c].desc
    /\ SealingKey(a).name = job[c].new.name

\* Only the register and evidence steps come after an artifact is sealed.
StandsAfterSeal(c) ==
    LET last == Len(Route(job[c])) IN
    /\ job[c].op \notin Readers
    /\ last - 2 \in 1..(at[c] - 1)
    /\ Route(job[c])[last - 2] = "seal"
    /\ Route(job[c])[last - 1] = "register" /\ Route(job[c])[last] = "evidence"

KeptOK(c) ==
    status[c] \in {"running", "returned"} =>
        /\ Passed(c, "new_key") => work[c].new.name = job[c].new.name
        /\ Sealed(c) => SealedAsNamed(c) /\ StandsAfterSeal(c)
        /\ Sealed(c) /\ at[c] >= Len(Route(job[c])) => Registration(c) \in catalog

KeptInv == CustodyRecorded /\ \A c \in Calls : KeptOK(c)

-----------------------------------------------------------------------------
(***************************************************************************)
(* What a step does, as far as records are concerned.                      *)
(***************************************************************************)

Records(c, step, locals) ==
    /\ Goes(c, step, locals)
    /\ catalog \subseteq catalog' /\ ledger \subseteq ledger'
    /\ locals.new = IF step = "new_key" THEN ResolvedKey(job[c].new) ELSE work[c].new
    /\ step = "register" => Registration(c) \in catalog'

\* A step that goes on has not failed.
LEMMA GoesNotFails ==
    ASSUME TypeOK, NEW c \in Calls, NEW step, NEW locals, Goes(c, step, locals)
    PROVE  ~Fail(c) /\ work'[c] = locals /\ Running(c, step) /\ WorkOK(work[c])
<1>1. Proceed(c, locals) /\ Running(c, step)
  BY DEF Goes
<1>2. status'[c] \in {"running", "returned"} /\ work'[c] = locals
  BY <1>1 DEF Proceed, TypeOK, CallsTyped
<1>3. Fail(c) => status'[c] = "failed"
  BY DEF Fail, TypeOK, CallsTyped
<1> QED BY <1>1, <1>2, <1>3, RunningCall

\* The locals after a step that proceeds, and the new key among them.
LEMMA ProceedsWith ==
    ASSUME TypeOK, NEW c \in Calls, NEW locals, Proceed(c, locals)
    PROVE  work'[c] = locals
BY DEF Proceed, TypeOK, CallsTyped

LEMMA NewKeyAssigned ==
    ASSUME NEW w, WorkOK(w), NEW x
    PROVE  /\ [w EXCEPT !.new = x].new = x
           /\ [w EXCEPT !.desc = x].new = w.new
           /\ [w EXCEPT !.tenant = x].new = w.new
           /\ [w EXCEPT !.targets = x].new = w.new
           /\ [w EXCEPT !.mode = x].new = w.new
           /\ [w EXCEPT !.current = x].new = w.new
           /\ [w EXCEPT !.plaintext = x].new = w.new
           /\ [w EXCEPT !.product = x].new = w.new
BY DEF WorkOK

LEMMA AskPlatformRecords ==
    ASSUME TypeOK, NEW c \in Calls, AskPlatform(c), NEW step, NEW locals, Goes(c, step, locals)
    PROVE  Records(c, step, locals)
<1>1. ~Fail(c) /\ work'[c] = locals /\ Running(c, step) /\ WorkOK(work[c])
  BY GoesNotFails
<1>2. CASE Bootstrap(c)
  <2>1. Running(c, "bootstrap") /\ Proceed(c, work[c]) /\ UNCHANGED <<catalog, ledger>>
    BY <1>1, <1>2 DEF Bootstrap
  <2>2. step = "bootstrap" /\ locals = work[c]
    BY <1>1, <2>1, ProceedsWith DEF Running
  <2> QED BY <2>1, <2>2 DEF Records
<1>3. CASE PolicyResolve(c)
  <2>1. PICK r \in PolicyResponses :
          Running(c, "policy") /\ Proceed(c, [work[c] EXCEPT !.targets = r.bind_policy_to])
          /\ UNCHANGED <<catalog, ledger>>
    BY <1>1, <1>3 DEF PolicyResolve, Answered
  <2>2. step = "policy" /\ locals = [work[c] EXCEPT !.targets = r.bind_policy_to]
    BY <1>1, <2>1, ProceedsWith DEF Running
  <2>3. locals.new = work[c].new
    BY <1>1, <2>2, NewKeyAssigned
  <2> QED BY <2>1, <2>2, <2>3 DEF Records
<1>4. CASE ProtectionPlan(c)
  <2>1. PICK r \in PlanResponses :
          Running(c, "plan") /\ Proceed(c, [work[c] EXCEPT !.tenant = BoundTenant(c, r)])
          /\ UNCHANGED <<catalog, ledger>>
    BY <1>1, <1>4 DEF ProtectionPlan, Answered
  <2>2. step = "plan" /\ locals = [work[c] EXCEPT !.tenant = BoundTenant(c, r)]
    BY <1>1, <2>1, ProceedsWith DEF Running
  <2>3. locals.new = work[c].new
    BY <1>1, <2>2, NewKeyAssigned
  <2> QED BY <2>1, <2>2, <2>3 DEF Records
<1>5. CASE KeyAccessPlan(c)
  <2>1. PICK r \in KeyPlanResponses :
          Running(c, "key_plan") /\ Proceed(c, [work[c] EXCEPT !.mode = r.key_transport.mode])
          /\ UNCHANGED <<catalog, ledger>>
    BY <1>1, <1>5 DEF KeyAccessPlan, Answered
  <2>2. step = "key_plan" /\ locals = [work[c] EXCEPT !.mode = r.key_transport.mode]
    BY <1>1, <2>1, ProceedsWith DEF Running
  <2>3. locals.new = work[c].new
    BY <1>1, <2>2, NewKeyAssigned
  <2> QED BY <2>1, <2>2, <2>3 DEF Records
<1>6. CASE Register(c)
  <2>1. /\ Running(c, "register") /\ Proceed(c, work[c])
        /\ catalog \subseteq catalog' /\ ledger' = ledger
        /\ Registration(c) \in catalog'
    BY <1>1, <1>6 DEF Register, RegistrationSupportsLocal
  <2>2. step = "register" /\ locals = work[c]
    BY <1>1, <2>1, ProceedsWith DEF Running
  <2> QED BY <2>1, <2>2 DEF Records
<1>7. CASE Evidence(c)
  <2>1. /\ Running(c, "evidence") /\ Proceed(c, work[c])
        /\ catalog' = catalog /\ ledger \subseteq ledger'
    BY <1>1, <1>7 DEF Evidence
  <2>2. step = "evidence" /\ locals = work[c]
    BY <1>1, <2>1, ProceedsWith DEF Running
  <2> QED BY <2>1, <2>2 DEF Records
<1> QED BY <1>2, <1>3, <1>4, <1>5, <1>6, <1>7 DEF AskPlatform

LEMMA ComputeLocallyRecords ==
    ASSUME TypeOK, NEW c \in Calls, ComputeLocally(c), NEW step, NEW locals,
           Goes(c, step, locals)
    PROVE  Records(c, step, locals)
<1>1. ~Fail(c) /\ work'[c] = locals /\ Running(c, step) /\ WorkOK(work[c])
  BY GoesNotFails
<1>2. UNCHANGED <<catalog, ledger>>
  BY DEF ComputeLocally, ResolveCurrentKey, ResolveNewKey, ProviderFails, OpenManifest,
     OpenContent, Seal, Verify, platformVars
<1>3. ASSUME NEW s, Running(c, s), s \notin {"new_key", "register"},
             work'[c].new = work[c].new
      PROVE  Records(c, step, locals)
  BY <1>1, <1>2, <1>3 DEF Records, Running
<1>4. CASE ResolveCurrentKey(c)
  <2> DEFINE after == [work[c] EXCEPT !.current = ResolvedKey(job[c].current)]
  <2>1. Running(c, "current_key") /\ Proceed(c, after)
    BY <1>1, <1>4 DEF ResolveCurrentKey
  <2>2. after.new = work[c].new
    BY <1>1, NewKeyAssigned
  <2> QED BY <1>3, <2>1, <2>2, ProceedsWith
<1>5. CASE ResolveNewKey(c)
  <2> DEFINE after == [work[c] EXCEPT !.new = ResolvedKey(job[c].new)]
  <2>1. Running(c, "new_key") /\ Proceed(c, after)
    BY <1>1, <1>5 DEF ResolveNewKey
  <2>2. after.new = ResolvedKey(job[c].new)
    BY <1>1, NewKeyAssigned
  <2>3. step = "new_key" /\ locals = after
    BY <1>1, <2>1, ProceedsWith DEF Running
  <2> QED BY <1>2, <2>2, <2>3 DEF Records
<1>6. CASE ProviderFails(c)
  BY <1>1, <1>6 DEF ProviderFails
<1>7. CASE OpenManifest(c)
  <2> DEFINE after == [work[c] EXCEPT !.desc = EditedManifest(job[c], job[c].source.manifest.msg)]
  <2>1. Running(c, "manifest") /\ Proceed(c, after)
    BY <1>1, <1>7 DEF OpenManifest
  <2>2. after.new = work[c].new
    BY <1>1, NewKeyAssigned
  <2> QED BY <1>3, <2>1, <2>2, ProceedsWith
<1>8. CASE OpenContent(c)
  <2> DEFINE after == [work[c] EXCEPT !.plaintext = Ciphertext(job[c].source).msg]
  <2>1. Running(c, "open") /\ Proceed(c, after)
    BY <1>1, <1>8 DEF OpenContent
  <2>2. after.new = work[c].new
    BY <1>1, NewKeyAssigned
  <2> QED BY <1>3, <2>1, <2>2, ProceedsWith
<1>9. CASE Seal(c)
  <2> DEFINE after == [work[c] EXCEPT !.product = Product(c)]
  <2>1. Running(c, "seal") /\ Proceed(c, after)
    BY <1>1, <1>9 DEF Seal
  <2>2. after.new = work[c].new
    BY <1>1, NewKeyAssigned
  <2> QED BY <1>3, <2>1, <2>2, ProceedsWith
<1>10. CASE Verify(c)
  <2>1. Running(c, "verify") /\ Proceed(c, work[c])
    BY <1>1, <1>10 DEF Verify
  <2> QED BY <1>1, <1>3, <2>1, ProceedsWith
<1> QED BY <1>4, <1>5, <1>6, <1>7, <1>8, <1>9, <1>10 DEF ComputeLocally

-----------------------------------------------------------------------------
(***************************************************************************)
(* Every step keeps the invariant.                                         *)
(***************************************************************************)

\* Where a call stands, with what its route says of sealing.
LEMMA MovedRecording ==
    ASSUME TypeOK, NEW c \in Calls, NEW step, NEW locals, Goes(c, step, locals)
    PROVE  /\ job' = job /\ work'[c] = locals /\ at'[c] = at[c] + 1
           /\ at[c] \in 1..Len(Route(job[c])) /\ Len(Route(job[c])) \in Nat
           /\ Route(job[c])[at[c]] = step
           /\ RecordRoute(job[c], Route(job[c]))
           /\ status[c] = "running" /\ JobOK(job[c])
BY Moved, GoesNotFails, RunningCall, RecordRoutes

\* An artifact is sealed under the key its call names, when that was taken.
LEMMA SealedUnderNewKey ==
    ASSUME NEW c, NEW r, NEW p, KeyBeforeSeal(job[c], r, p),
           (\E i \in 1..(p - 1) : r[i] = "new_key") => work[c].new.name = job[c].new.name
    PROVE  SealingKey(Product(c)).name = job[c].new.name
<1>1. CASE Profile(job[c].op) = "envelope"
  <2>1. work[c].new.name = job[c].new.name
    BY <1>1 DEF KeyBeforeSeal
  <2> QED BY <1>1, <2>1 DEF Product, SealEnvelope, SealingKey, Ciphertext, Aes256Gcm
<1>2. CASE Profile(job[c].op) = "tdf"
  <2>1. work[c].new.name = job[c].new.name
    BY <1>2 DEF KeyBeforeSeal
  <2> QED BY <1>2, <2>1 DEF Product, SealTdf, SealingKey, Ciphertext, Aes256Gcm
<1>3. CASE Profile(job[c].op) = "detached_signature"
  BY <1>3 DEF Product, SignDetached, SealingKey, InlineKey
<1> QED BY <1>1, <1>2, <1>3 DEF KeyBeforeSeal

\* The key a step takes, or keeps, is the one that was named.
LEMMA KeyStays ==
    ASSUME TypeOK, NEW c \in Calls, NEW step, NEW locals, Records(c, step, locals),
           Passed(c, "new_key") => work[c].new.name = job[c].new.name
    PROVE  Passed(c, "new_key")' => work'[c].new.name = job[c].new.name
<1>1. Goes(c, step, locals)
  BY DEF Records
<1>2. /\ job' = job /\ work'[c] = locals /\ at'[c] = at[c] + 1
      /\ at[c] \in 1..Len(Route(job[c])) /\ Len(Route(job[c])) \in Nat
      /\ Route(job[c])[at[c]] = step
  BY <1>1, MovedRecording
<1>3. Passed(c, "new_key")' <=> Passed(c, "new_key") \/ step = "new_key"
  BY <1>2 DEF Passed
<1>4. CASE step = "new_key"
  BY <1>2, <1>4 DEF Records, ResolvedKey
<1>5. CASE step # "new_key"
  BY <1>2, <1>3, <1>5 DEF Records
<1> QED BY <1>4, <1>5

\* The step that seals is followed by two more, and seals as named.
LEMMA SealKeeps ==
    ASSUME TypeOK, NEW c \in Calls, NEW locals, Goes(c, "seal", locals), KeptOK(c)
    PROVE  /\ SealedAsNamed(c)' /\ StandsAfterSeal(c)'
           /\ at'[c] < Len(Route(job[c])) /\ ~LastStep(c)
<1> DEFINE r == Route(job[c])
           n == at[c]
<1>1. /\ job' = job /\ work'[c] = locals /\ at'[c] = n + 1
      /\ n \in 1..Len(r) /\ Len(r) \in Nat /\ r[n] = "seal" /\ RecordRoute(job[c], r)
      /\ status[c] = "running"
  BY MovedRecording
<1>2. /\ job[c].op \notin Readers
      /\ n + 2 = Len(r) /\ r[n + 1] = "register" /\ r[n + 2] = "evidence"
      /\ KeyBeforeSeal(job[c], r, n)
  BY <1>1 DEF RecordRoute
<1>3. locals.product = Product(c) /\ locals.desc = work[c].desc
  BY DEF Goes
<1>4. Description(locals.product) = locals.desc
  BY <1>3, ProductDescribed
<1>5. SealingKey(locals.product).name = job[c].new.name
  <2>1. (\E i \in 1..(n - 1) : r[i] = "new_key") => work[c].new.name = job[c].new.name
    BY <1>1 DEF KeptOK, Passed
  <2> QED BY <1>2, <1>3, <2>1, SealedUnderNewKey
<1>6. SealedAsNamed(c)'
  BY <1>1, <1>4, <1>5 DEF SealedAsNamed
<1>7. StandsAfterSeal(c)'
  <2>1. Len(r) - 2 = n /\ Len(r) - 1 = n + 1 /\ Len(r) = n + 2
    BY <1>1, <1>2
  <2>2. n \in 1..((n + 1) - 1)
    BY <1>1
  <2>3. /\ job[c].op \notin Readers /\ Len(r) - 2 \in 1..((n + 1) - 1)
        /\ r[Len(r) - 2] = "seal" /\ r[Len(r) - 1] = "register" /\ r[Len(r)] = "evidence"
    BY <1>1, <1>2, <2>1, <2>2
  <2>4. Route(job'[c]) = r /\ job'[c] = job[c] /\ at'[c] = n + 1
    BY <1>1
  <2> HIDE DEF r, n
  <2> QED BY <2>3, <2>4 DEF StandsAfterSeal
<1> QED BY <1>1, <1>2, <1>6, <1>7 DEF LastStep

\* What follows the seal is recording, and changes neither the artifact nor what it is about.
LEMMA SealedKeeps ==
    ASSUME TypeOK, NEW c \in Calls, NEW step, NEW locals, Records(c, step, locals),
           step # "seal", Sealed(c)', KeptOK(c)
    PROVE  /\ Sealed(c) /\ SealedAsNamed(c) /\ StandsAfterSeal(c)
           /\ step = IF at[c] = Len(Route(job[c])) THEN "evidence" ELSE "register"
           /\ work'[c].product = work[c].product /\ work'[c].desc = work[c].desc
<1> DEFINE r == Route(job[c])
           n == at[c]
<1>1. Goes(c, step, locals)
  BY DEF Records
<1>2. /\ job' = job /\ work'[c] = locals /\ n \in 1..Len(r) /\ Len(r) \in Nat /\ r[n] = step
      /\ status[c] = "running"
  BY <1>1, MovedRecording
<1>3. locals.product = work[c].product
  BY <1>1 DEF Goes
<1>4. Sealed(c) /\ SealedAsNamed(c) /\ StandsAfterSeal(c)
  BY <1>2, <1>3 DEF Sealed, KeptOK
<1>5. n \in {Len(r) - 1, Len(r)}
  BY <1>2, <1>4 DEF StandsAfterSeal
<1>6. step = IF n = Len(r) THEN "evidence" ELSE "register"
  BY <1>2, <1>4, <1>5 DEF StandsAfterSeal
<1>7. step # "manifest"
  BY <1>6
<1> QED BY <1>1, <1>2, <1>3, <1>4, <1>6, <1>7 DEF Goes

\* A call that goes on keeps what it owes the record.
LEMMA KeptGoesOn ==
    ASSUME TypeOK, NEW c \in Calls, NEW step, NEW locals, Records(c, step, locals), KeptOK(c)
    PROVE  KeptOK(c)'
<1> DEFINE r == Route(job[c])
           n == at[c]
<1>1. Goes(c, step, locals)
  BY DEF Records
<1>2. /\ job' = job /\ work'[c] = locals /\ at'[c] = n + 1
      /\ n \in 1..Len(r) /\ Len(r) \in Nat /\ r[n] = step /\ status[c] = "running"
  BY <1>1, MovedRecording
<1>3. Passed(c, "new_key")' => work'[c].new.name = job[c].new.name
  BY <1>2, KeyStays DEF KeptOK
<1>4. CASE step = "seal"
  <2>1. SealedAsNamed(c)' /\ StandsAfterSeal(c)' /\ at'[c] < Len(r)
    BY <1>1, <1>4, SealKeeps
  <2> QED BY <1>2, <1>3, <2>1 DEF KeptOK
<1>5. CASE step # "seal"
  <2>1. ASSUME Sealed(c)' PROVE SealedAsNamed(c)' /\ StandsAfterSeal(c)'
    <3>1. /\ SealedAsNamed(c) /\ StandsAfterSeal(c)
          /\ work'[c].product = work[c].product /\ work'[c].desc = work[c].desc
      BY <1>5, <2>1, SealedKeeps
    <3> QED BY <1>2, <3>1 DEF SealedAsNamed, StandsAfterSeal
  <2>2. ASSUME Sealed(c)', at'[c] >= Len(r) PROVE Registration(c)' \in catalog'
    <3>1. /\ Sealed(c)
          /\ step = IF n = Len(r) THEN "evidence" ELSE "register"
          /\ work'[c].product = work[c].product /\ work'[c].desc = work[c].desc
      BY <1>5, <2>2, SealedKeeps
    <3>2. Registration(c) \in catalog'
      <4>1. CASE n = Len(r)
        BY <1>2, <3>1, <4>1 DEF KeptOK, Records
      <4>2. CASE n # Len(r)
        BY <3>1, <4>2 DEF Records
      <4> QED BY <4>1, <4>2
    <3>3. Registration(c)' = Registration(c)
      BY <1>2, <3>1 DEF Registration
    <3> QED BY <3>2, <3>3
  <2> QED BY <1>2, <1>3, <2>1, <2>2 DEF KeptOK
<1> QED BY <1>4, <1>5

\* The reference an artifact is registered under is that of the key that seals it.
LEMMA ReferenceOfKey ==
    ASSUME NEW source \in KeySource, NEW profile
    PROVE  KeyReference(profile, source) =
               IF source.name \in ManagedRefs THEN source.name ELSE DefaultKeyReference(profile)
BY KeyNames, WorkflowAssumption DEF KeyReference

Recorded(a) ==
    \E r \in catalog, e \in ledger :
        /\ r.digest = Sha256(a) /\ e.digest = Sha256(a)
        /\ r.operation = e.event
        /\ r.about = Description(a) /\ e.about = Description(a)
        /\ r.key_reference = IF SealingKey(a).name \in ManagedRefs
                             THEN SealingKey(a).name
                             ELSE DefaultKeyReference(a.artifact_profile)

\* What a call returns is recorded.
LEMMA ReturnedIsRecorded ==
    ASSUME TypeOK, NEW c \in Calls, NEW step, NEW locals, Records(c, step, locals), KeptOK(c),
           LastStep(c), locals.product # NoArtifact
    PROVE  Recorded(locals.product)'
<1> DEFINE r == Route(job[c])
           a == locals.product
<1>1. Goes(c, step, locals)
  BY DEF Records
<1>2. /\ job' = job /\ work'[c] = locals /\ at[c] = Len(r) /\ JobOK(job[c])
      /\ job[c].op \in AllOperations /\ status[c] = "running" /\ Len(r) \in Nat
  BY <1>1, MovedRecording, WorkflowAssumption DEF LastStep, JobOK
<1>3. step # "seal"
  BY <1>1, SealKeeps
<1>4. Sealed(c)'
  BY <1>2 DEF Sealed
<1>5. /\ Sealed(c) /\ SealedAsNamed(c) /\ StandsAfterSeal(c) /\ step = "evidence"
      /\ a = work[c].product
  BY <1>2, <1>3, <1>4, SealedKeeps
<1>6. Registration(c) \in catalog'
  BY <1>2, <1>5 DEF KeptOK, Records
<1>7. EvidenceRecord(c) \in ledger'
  BY <1>1, <1>5 DEF Goes
<1>8. job[c].op \notin Readers /\ job[c].new \in KeySource
  BY <1>2, <1>5, OperationKinds DEF StandsAfterSeal, JobOK
<1>9. /\ Registration(c).digest = Sha256(a) /\ Registration(c).about = Description(a)
      /\ Registration(c).operation = PolicyOperation(job[c].op)
      /\ Registration(c).key_reference = KeyReference(a.artifact_profile, job[c].new)
  BY <1>5 DEF Registration, SealedAsNamed
<1>10. /\ EvidenceRecord(c).digest = Sha256(a) /\ EvidenceRecord(c).about = Description(a)
       /\ EvidenceRecord(c).event = PolicyOperation(job[c].op)
  BY <1>5, <1>8 DEF EvidenceRecord, SealedAsNamed
<1>11. KeyReference(a.artifact_profile, job[c].new) =
           IF SealingKey(a).name \in ManagedRefs THEN SealingKey(a).name
                                                 ELSE DefaultKeyReference(a.artifact_profile)
  BY <1>5, <1>8, ReferenceOfKey DEF SealedAsNamed
<1> QED BY <1>6, <1>7, <1>9, <1>10, <1>11 DEF Recorded

\* Records are for good.
LEMMA RecordedForGood ==
    ASSUME CustodyRecorded, held' = held, catalog \subseteq catalog', ledger \subseteq ledger'
    PROVE  CustodyRecorded'
BY DEF CustodyRecorded

LEMMA CustodyGoesOn ==
    ASSUME TypeOK, NEW c \in Calls, NEW step, NEW locals, Records(c, step, locals),
           KeptOK(c), CustodyRecorded
    PROVE  CustodyRecorded'
<1>1. catalog \subseteq catalog' /\ ledger \subseteq ledger' /\ Proceed(c, locals)
  BY DEF Records, Goes
<1>2. CASE LastStep(c) /\ locals.product # NoArtifact
  <2>1. held' = held \cup {locals.product} /\ Recorded(locals.product)'
    BY <1>1, <1>2, ReturnedIsRecorded DEF Proceed
  <2>2. \A a \in held \ InitialArtifacts : Recorded(a)
    BY DEF CustodyRecorded, Recorded
  <2>3. ASSUME NEW a \in held' \ InitialArtifacts PROVE Recorded(a)'
    BY <1>1, <2>1, <2>2 DEF Recorded
  <2> QED BY <2>3 DEF CustodyRecorded, Recorded
<1>3. CASE ~(LastStep(c) /\ locals.product # NoArtifact)
  BY <1>1, <1>3, RecordedForGood DEF Proceed
<1> QED BY <1>2, <1>3

\* A call that a step does not touch keeps what it owes the record.
LEMMA OtherKept ==
    ASSUME NEW d, KeptOK(d), catalog \subseteq catalog',
           UNCHANGED <<status[d], job[d], at[d], work[d]>>
    PROVE  KeptOK(d)'
BY DEF KeptOK, Passed, Sealed, SealedAsNamed, StandsAfterSeal, Registration

LEMMA OthersKept ==
    ASSUME TypeOK, KeptInv, NEW c \in Calls, catalog \subseteq catalog',
           Fail(c) \/ (\E j, locals : Begin(c, j, locals)) \/ (\E locals : Proceed(c, locals)),
           CustodyRecorded', KeptOK(c)'
    PROVE  KeptInv'
<1>1. ASSUME NEW d \in Calls \ {c} PROVE KeptOK(d)'
  <2>1. UNCHANGED <<status[d], job[d], at[d], work[d]>>
    BY OthersUntouched
  <2> QED BY <2>1, OtherKept DEF KeptInv
<1> QED BY <1>1 DEF KeptInv

\* A failed call owes nothing; what it registered and attested stays.
LEMMA FailKeeps ==
    ASSUME TypeOK, KeptInv, NEW c \in Calls, Fail(c),
           catalog \subseteq catalog', ledger \subseteq ledger'
    PROVE  KeptInv'
<1>1. status'[c] = "failed" /\ held' = held
  BY DEF Fail, TypeOK, CallsTyped
<1>2. KeptOK(c)'
  BY <1>1 DEF KeptOK
<1> QED BY <1>1, <1>2, RecordedForGood, OthersKept DEF KeptInv

\* A call that begins has taken no key and sealed nothing.
LEMMA BeginsUnsealed ==
    ASSUME TypeOK, NEW c \in Calls, BeginCall(c), ~Fail(c)
    PROVE  \E j, locals : Begin(c, j, locals) /\ locals.product = NoArtifact
<1>1. CASE BeginMaking(c)
  <2>1. PICK j, desc, digest, plaintext :
          Begin(c, j, [NoWork EXCEPT !.desc = desc, !.digest = digest, !.plaintext = plaintext])
    BY <1>1 DEF BeginMaking
  <2>2. [NoWork EXCEPT !.desc = desc, !.digest = digest, !.plaintext = plaintext].product
            = NoArtifact
    BY DEF NoWork
  <2> QED BY <2>1, <2>2
<1>2. CASE BeginReading(c)
  <2>1. PICK j, a, content : Begin(c, j, [OpeningLocals(a) EXCEPT !.plaintext = content])
    BY <1>2 DEF BeginReading
  <2>2. [OpeningLocals(a) EXCEPT !.plaintext = content].product = NoArtifact
    BY DEF NoWork, OpeningLocals
  <2> QED BY <2>1, <2>2
<1>3. CASE BeginRewriting(c)
  <2>1. PICK j, a : Begin(c, j, OpeningLocals(a))
    BY <1>3 DEF BeginRewriting
  <2>2. OpeningLocals(a).product = NoArtifact
    BY DEF NoWork, OpeningLocals
  <2> QED BY <2>1, <2>2
<1>4. CASE RejectSource(c)
  BY <1>4 DEF RejectSource
<1> QED BY <1>1, <1>2, <1>3, <1>4 DEF BeginCall

LEMMA BeginKeeps ==
    ASSUME TypeOK, KeptInv, NEW c \in Calls, BeginCall(c)
    PROVE  KeptInv'
<1>1. UNCHANGED <<catalog, ledger>>
  BY Beginnings
<1>2. CASE Fail(c)
  BY <1>1, <1>2, FailKeeps
<1>3. CASE ~Fail(c)
  <2>1. PICK j, locals : Begin(c, j, locals) /\ locals.product = NoArtifact
    BY <1>3, BeginsUnsealed
  <2>2. work'[c] = locals /\ at'[c] = 1 /\ held' = held
    BY <2>1 DEF Begin, TypeOK, CallsTyped
  <2>3. ~Sealed(c)' /\ ~Passed(c, "new_key")'
    BY <2>1, <2>2 DEF Sealed, Passed
  <2>4. KeptOK(c)'
    BY <2>3 DEF KeptOK
  <2>5. CustodyRecorded'
    BY <1>1, <2>2, RecordedForGood DEF KeptInv
  <2> QED BY <1>1, <2>1, <2>4, <2>5, OthersKept
<1> QED BY <1>2, <1>3

\* A step of a call that runs.
LEMMA CallKeeps ==
    ASSUME TypeOK, KeptInv, NEW c \in Calls, AskPlatform(c) \/ ComputeLocally(c)
    PROVE  KeptInv'
<1>1. CASE Fail(c)
  <2>1. catalog \subseteq catalog' /\ ledger \subseteq ledger'
    BY DEF AskPlatform, Bootstrap, PolicyResolve, ProtectionPlan, KeyAccessPlan, Answered,
       Register, Evidence, ComputeLocally, ResolveCurrentKey, ResolveNewKey, ProviderFails,
       OpenManifest, OpenContent, Seal, Verify, platformVars
  <2> QED BY <1>1, <2>1, FailKeeps
<1>2. CASE ~Fail(c)
  <2>1. PICK step, locals : Goes(c, step, locals)
    BY <1>2, AskPlatformGoesOn, ComputeLocallyGoesOn DEF GoesOn
  <2>2. Records(c, step, locals)
    BY <2>1, AskPlatformRecords, ComputeLocallyRecords
  <2>3. KeptOK(c)' /\ CustodyRecorded'
    BY <2>2, KeptGoesOn, CustodyGoesOn DEF KeptInv
  <2>4. catalog \subseteq catalog' /\ Proceed(c, locals)
    BY <2>2 DEF Records, Goes
  <2> QED BY <2>3, <2>4, OthersKept
<1> QED BY <1>1, <1>2

\* Every step keeps the invariant.
LEMMA KeptStep == TypeOK /\ KeptInv /\ [Next]_vars => KeptInv'
<1> SUFFICES ASSUME TypeOK, KeptInv, [Next]_vars PROVE KeptInv'
  OBVIOUS
<1>1. ASSUME NEW c \in Calls, ConnectionFails(c) PROVE KeptInv'
  BY <1>1, FailKeeps DEF ConnectionFails, platformVars
<1>2. ASSUME UNCHANGED <<callVars, platformVars>> PROVE KeptInv'
  <2>1. CustodyRecorded'
    BY <1>2, RecordedForGood DEF callVars, platformVars, KeptInv
  <2>2. ASSUME NEW c \in Calls PROVE KeptOK(c)'
    BY <1>2, OtherKept DEF callVars, platformVars, KeptInv
  <2> QED BY <2>1, <2>2 DEF KeptInv
<1>3. CASE UNCHANGED vars
  BY <1>2, <1>3 DEF vars, callVars, platformVars
<1>4. ASSUME NEW ref \in ManagedRefs, RotateKey(ref) PROVE KeptInv'
  BY <1>2, <1>4 DEF RotateKey
<1> QED BY <1>1, <1>3, <1>4, BeginKeeps, CallKeeps DEF Next

\* CustodyRecorded, for every platform, any keys and rotations and any number of calls:
\* what callers hold is in the catalog under the reference of the key that seals it, and
\* evidenced as what it is.
THEOREM ArtifactsAreRecorded == Spec => []CustodyRecorded
<1>1. Init => KeptInv
  BY DEF Init, KeptInv, CustodyRecorded, KeptOK
<1>2. KeptInv => CustodyRecorded
  BY DEF KeptInv
<1> QED BY <1>1, <1>2, KeptStep, TypeCorrect, PTL DEF Spec

-----------------------------------------------------------------------------
(***************************************************************************)
(* Routes: which step checks what a call was handed, and that a call which *)
(* seals anew has opened the old artifact before.                          *)
(***************************************************************************)

CheckingStep(op) ==
    CASE op = "verify" -> "verify"
      [] op \in {"access_envelope", "rewrap_envelope"} -> "open"
      [] OTHER -> "manifest"

Has(r, n, step) == \E i \in 1..n : r[i] = step

TrustRoute(j, r) ==
    /\ j.op \in Makers => ~Has(r, Len(r), "manifest") /\ ~Has(r, Len(r), "open")
    /\ j.op \notin Makers => Has(r, Len(r), CheckingStep(j.op))
    /\ j.op \notin Makers /\ CheckingStep(j.op) = "manifest" => Has(r, Len(r), "open")
    /\ CheckingStep(j.op) # "manifest" => ~Has(r, Len(r), "manifest")
    /\ j.op \in Rewriters =>
          /\ Has(r, Len(r), "seal")
          /\ \A p \in 1..Len(r) : r[p] = "seal" =>
                /\ Has(r, p - 1, "open")
                /\ CheckingStep(j.op) = "manifest" => Has(r, p - 1, "manifest")

LEMMA CheckingSteps ==
    /\ CheckingStep("verify") = "verify"
    /\ \A op \in {"access_envelope", "rewrap_envelope"} : CheckingStep(op) = "open"
    /\ \A op \in Makers \cup Editors \cup {"access_tdf", "rewrap_tdf"} :
          CheckingStep(op) = "manifest"
<1> DEFINE openers == {"access_envelope", "rewrap_envelope"}
<1>1. \A op \in Makers \cup Editors \cup {"access_tdf", "rewrap_tdf"} :
          op # "verify" /\ op \notin openers
  BY DEF Makers, Editors
<1>2. \A op \in openers : op # "verify"
  OBVIOUS
<1> QED BY <1>1, <1>2, Zenon DEF CheckingStep

LEMMA MakersTrustRoute ==
    ASSUME NEW j, j.op \in Makers
    PROVE  TrustRoute(j, Route(j))
<1>0. j.op \notin Rewriters /\ CheckingStep(j.op) = "manifest"
  BY OperationKinds, CheckingSteps
<1>1. CASE j.op = "prepare"
  <2>1. TrustRoute(j, PrepareRoute)
    BY <1>0, <1>1 DEF PrepareRoute, TrustRoute, Has, Makers
  <2> QED BY <1>1, <2>1, RouteOfOperation, Zenon
<1>2. CASE j.op = "protect_envelope"
  <2>1. TrustRoute(j, EnvelopeProtectRoute)
    BY <1>0, <1>2 DEF EnvelopeProtectRoute, TrustRoute, Has, Makers
  <2> QED BY <1>2, <2>1, RouteOfOperation, Zenon
<1>3. CASE j.op = "protect_tdf"
  <2>1. TrustRoute(j, TdfProtectRoute)
    BY <1>0, <1>3 DEF TdfProtectRoute, TrustRoute, Has, Makers
  <2> QED BY <1>3, <2>1, RouteOfOperation, Zenon
<1>4. CASE j.op = "sign"
  <2>1. TrustRoute(j, SignRoute)
    BY <1>0, <1>4 DEF SignRoute, TrustRoute, Has, Makers
  <2> QED BY <1>4, <2>1, RouteOfOperation, Zenon
<1> QED BY <1>1, <1>2, <1>3, <1>4 DEF Makers

LEMMA ReadersTrustRoute ==
    ASSUME NEW j, j.op \in Readers
    PROVE  TrustRoute(j, Route(j))
<1>0. j.op \notin Makers /\ j.op \notin Rewriters
  BY OperationKinds
<1>1. CASE j.op = "access_envelope"
  <2>1. CheckingStep(j.op) = "open"
    BY <1>1, CheckingSteps
  <2>2. TrustRoute(j, EnvelopeAccessRoute)
    BY <1>0, <2>1 DEF EnvelopeAccessRoute, TrustRoute, Has
  <2> QED BY <1>1, <2>2, RouteOfOperation, Zenon
<1>2. CASE j.op = "verify"
  <2>1. CheckingStep(j.op) = "verify"
    BY <1>2, CheckingSteps
  <2>2. TrustRoute(j, VerifyRoute)
    BY <1>0, <2>1 DEF VerifyRoute, TrustRoute, Has
  <2> QED BY <1>2, <2>2, RouteOfOperation, Zenon
<1>3. CASE j.op = "access_tdf"
  <2>0. CheckingStep(j.op) = "manifest"
    BY <1>3, CheckingSteps
  <2>1. TrustRoute(j, <<"policy", "key_plan", "current_key", "manifest", "open", "evidence">>)
    BY <1>0, <2>0 DEF TrustRoute, Has
  <2>2. TrustRoute(j, <<"manifest", "policy", "key_plan", "current_key", "open", "evidence">>)
    BY <1>0, <2>0 DEF TrustRoute, Has
  <2>3. TrustRoute(j, TdfAccessRoute(j.source))
    BY <2>1, <2>2, Zenon DEF TdfAccessRoute
  <2> QED BY <1>3, <2>3, RouteOfOperation, Zenon
<1> QED BY <1>1, <1>2, <1>3 DEF Readers

LEMMA RewritersTrustRoute ==
    ASSUME NEW j, j.op \in Rewriters
    PROVE  TrustRoute(j, Route(j))
<1>0. j.op \notin Makers
  BY OperationKinds
<1>1. CASE j.op = "rewrap_envelope"
  <2>1. CheckingStep(j.op) = "open"
    BY <1>1, CheckingSteps
  <2>2. TrustRoute(j, EnvelopeRewrapRoute)
    BY <1>0, <2>1 DEF EnvelopeRewrapRoute, TrustRoute, Has
  <2> QED BY <1>1, <2>2, RouteOfOperation, Zenon
<1>2. CASE j.op \in {"rewrap_tdf", "set_tdf_attributes", "edit_tdf_attributes"}
  <2>0. CheckingStep(j.op) = "manifest"
    BY <1>2, CheckingSteps DEF Editors
  <2>1. TrustRoute(j, <<"policy", "key_plan", "current_key", "manifest",
                        "bootstrap", "policy", "plan", "key_plan", "current_key", "new_key",
                        "open", "seal", "register", "evidence">>)
    BY <1>0, <2>0 DEF TrustRoute, Has
  <2>2. TrustRoute(j, <<"manifest",
                        "bootstrap", "policy", "plan", "key_plan", "current_key", "new_key",
                        "open", "seal", "register", "evidence">>)
    BY <1>0, <2>0 DEF TrustRoute, Has
  <2>3. TrustRoute(j, TdfRewriteRoute(j.current))
    BY <2>1, <2>2, Zenon DEF TdfRewriteRoute
  <2> QED BY <1>2, <2>3, RouteOfOperation, Zenon
<1> QED BY <1>1, <1>2 DEF Rewriters, Editors

LEMMA TrustRoutes ==
    ASSUME NEW j, j.op \in AllOperations
    PROVE  TrustRoute(j, Route(j))
BY MakersTrustRoute, ReadersTrustRoute, RewritersTrustRoute, OperationKinds

-----------------------------------------------------------------------------
(***************************************************************************)
(* The inductive invariant: what callers hold was sealed by the library,   *)
(* and each call knows no more of its source than it has checked.          *)
(***************************************************************************)

\* What the checks of each kind of artifact establish: it opens, or verifies, under
\* the key it names itself.
ManifestTrusted(a)  == TdfManifestTrusted(a.manifest.key, a)
ContentTrusted(a)   == Opens(Ciphertext(a).key, a) /\ Sha256(Ciphertext(a).msg) = a.content_digest
SignatureTrusted(a) == SignatureVerifies(a.signer, a)

\* The bytes of a call are an artifact a caller holds, or a damaged copy of one.
SourceKnown(c) ==
    /\ \E a \in held : job[c].source = a \/ job[c].source \in DamagedCopies(a)
    /\ job[c].source.artifact_profile = Profile(job[c].op)

SourceTrusted(c) ==
    /\ Passed(c, "manifest") => ManifestTrusted(job[c].source)
    /\ Passed(c, "open")     => /\ ContentTrusted(job[c].source)
                                /\ work[c].plaintext = Ciphertext(job[c].source).msg
    /\ Passed(c, "verify")   => SignatureTrusted(job[c].source)

\* A rewriting call carries over what it does not edit.
CarriedOver(c) ==
    /\ work[c].digest = job[c].source.content_digest
    /\ work[c].tenant = job[c].source.tenant_id
    /\ work[c].desc = IF Passed(c, "manifest")
                      THEN EditedManifest(job[c], job[c].source.manifest.msg)
                      ELSE InitialDescription(job[c].source)

MadeAsAsked(c) == work[c].digest = Sha256(work[c].plaintext) /\ work[c].desc \in Descriptions

\* What an artifact hands down to the one sealed in its place.
HandsDown(j, a, b) ==
    /\ b.artifact_profile = a.artifact_profile
    /\ b.tenant_id = a.tenant_id
    /\ b.content_digest = a.content_digest
    /\ Ciphertext(b).msg = Ciphertext(a).msg
    /\ Description(b).resource = Description(a).resource
    /\ a.artifact_profile = "tdf" =>
          /\ a.meta_version \in 0..MaxMetaVersion
          /\ b.meta_version = MetaVersion(j)
          /\ j.op \notin Editors => Description(b) = Description(a)

SealOK(c) ==
    /\ WellSealed(work[c].product)
    /\ job[c].op \in Rewriters => HandsDown(job[c], job[c].source, work[c].product)

TrustOK(c) ==
    status[c] \in {"running", "returned"} =>
        /\ job[c].op \in Makers => MadeAsAsked(c)
        /\ job[c].op \notin Makers => SourceKnown(c) /\ SourceTrusted(c)
        /\ job[c].op \in Rewriters /\ ~Passed(c, "seal") => CarriedOver(c)
        /\ IF Passed(c, "seal") THEN SealOK(c) ELSE ~Sealed(c)

TrustInv == (\A a \in held : WellSealed(a)) /\ \A c \in Calls : TrustOK(c)

-----------------------------------------------------------------------------
(***************************************************************************)
(* Artifacts.                                                              *)
(***************************************************************************)

\* The cases of WellSealed.
LEMMA SealedCases ==
    ASSUME NEW a, WellSealed(a)
    PROVE  /\ a.artifact_profile \in {"envelope", "tdf", "detached_signature"}
           /\ a.artifact_profile = "envelope" =>
                a = SealEnvelope(a.ciphertext.key, a.ciphertext.nonce, a.ciphertext.msg,
                                 a.tenant_id, Sha256(a.ciphertext.msg), a.desc,
                                 a.binding_targets)
           /\ a.artifact_profile = "tdf" =>
                /\ a = [SealTdf(a.payload.key, a.payload.nonce, a.payload.msg, a.tenant_id,
                                Sha256(a.payload.msg), a.manifest.msg, a.binding_targets,
                                a.meta_version)
                            EXCEPT !.policy_context = a.policy_context]
                /\ a.policy_context \subseteq {a.manifest.msg}
                /\ a.meta_version \in 0..MaxMetaVersion
                /\ IsDescription(a.manifest.msg)
           /\ a.artifact_profile = "detached_signature" =>
                a = SignDetached(a.signer, a.tenant_id, a.content_digest, a.desc,
                                 a.binding_targets)
BY Zenon DEF WellSealed

\* The fields storage may change, and those it does not.
EnvelopeShape(a) ==
    a = [artifact_profile |-> "envelope", tenant_id |-> a.tenant_id,
         content_digest |-> a.content_digest, desc |-> a.desc,
         binding_targets |-> a.binding_targets, binding_hash |-> a.binding_hash,
         aad_hash |-> a.aad_hash, ciphertext |-> a.ciphertext]

TdfShape(a) ==
    a = [artifact_profile |-> "tdf", meta_version |-> a.meta_version,
         tenant_id |-> a.tenant_id, content_digest |-> a.content_digest,
         manifest_digest |-> a.manifest_digest, binding_targets |-> a.binding_targets,
         binding_hash |-> a.binding_hash, policy_context |-> a.policy_context,
         manifest |-> a.manifest, payload |-> a.payload, aad_hash |-> a.aad_hash]

SignatureShape(a) ==
    a = [artifact_profile |-> "detached_signature", tenant_id |-> a.tenant_id,
         content_digest |-> a.content_digest, desc |-> a.desc,
         binding_targets |-> a.binding_targets, binding_hash |-> a.binding_hash,
         signer |-> a.signer, signature |-> a.signature]

\* What is inside an envelope as it was sealed.
LEMMA EnvelopeInside ==
    ASSUME NEW a, WellSealed(a), a.artifact_profile = "envelope"
    PROVE  /\ EnvelopeShape(a)
           /\ a.binding_hash = BindingHash(a.tenant_id, a.content_digest, a.desc,
                                           a.binding_targets)
           /\ a.ciphertext.aad = EnvelopeAad(a.tenant_id, a.content_digest, a.desc,
                                             a.binding_targets, a.binding_hash)
           /\ a.aad_hash = Sha256(a.ciphertext.aad)
           /\ a.content_digest = Sha256(a.ciphertext.msg)
<1> DEFINE box == a.ciphertext
           digest == Sha256(box.msg)
           hash == BindingHash(a.tenant_id, digest, a.desc, a.binding_targets)
           aad == EnvelopeAad(a.tenant_id, digest, a.desc, a.binding_targets, hash)
           sealed == Aes256Gcm(box.key, box.nonce, aad, box.msg)
           aadHash == Sha256(aad)
<1>1. a = [artifact_profile |-> "envelope", tenant_id |-> a.tenant_id,
           content_digest |-> digest, desc |-> a.desc,
           binding_targets |-> a.binding_targets, binding_hash |-> hash,
           aad_hash |-> aadHash, ciphertext |-> sealed]
  BY SealedCases DEF SealEnvelope
<1>2. sealed.aad = aad
  BY DEF Aes256Gcm
<1> HIDE DEF digest, hash, aad, sealed, aadHash
<1>3. /\ a.content_digest = digest /\ a.binding_hash = hash
      /\ a.aad_hash = aadHash /\ a.ciphertext = sealed
  BY <1>1
<1>4. EnvelopeShape(a)
  BY <1>1, <1>3 DEF EnvelopeShape
<1> QED BY <1>2, <1>3, <1>4 DEF digest, hash, aad, aadHash

LEMMA TdfInside ==
    ASSUME NEW a, WellSealed(a), a.artifact_profile = "tdf"
    PROVE  /\ TdfShape(a)
           /\ a.binding_hash = BindingHash(a.tenant_id, a.content_digest, a.manifest.msg,
                                           a.binding_targets)
           /\ a.payload.aad = TdfAadOf(a) /\ a.manifest.aad = TdfAadOf(a)
           /\ a.manifest.key = a.payload.key
           /\ a.aad_hash = Sha256(TdfAadOf(a))
           /\ a.manifest_digest = Sha256(a.manifest.msg)
           /\ a.content_digest = Sha256(a.payload.msg)
           /\ a.policy_context \subseteq {a.manifest.msg}
           /\ a.meta_version \in 0..MaxMetaVersion
           /\ IsDescription(a.manifest.msg)
<1> DEFINE box == a.payload
           manifest == a.manifest.msg
           digest == Sha256(box.msg)
           hash == BindingHash(a.tenant_id, digest, manifest, a.binding_targets)
           manifestHash == Sha256(manifest)
           aad == TdfAad(a.tenant_id, digest, manifestHash, hash)
           sealedManifest == Aes256Gcm(box.key, box.nonce, aad, manifest)
           sealedPayload == Aes256Gcm(box.key, box.nonce, aad, box.msg)
           aadHash == Sha256(aad)
<1>1. a = [SealTdf(box.key, box.nonce, box.msg, a.tenant_id, digest, manifest,
                   a.binding_targets, a.meta_version)
              EXCEPT !.policy_context = a.policy_context]
  BY SealedCases
<1>2. SealTdf(box.key, box.nonce, box.msg, a.tenant_id, digest, manifest,
              a.binding_targets, a.meta_version)
        = [artifact_profile |-> "tdf", meta_version |-> a.meta_version,
           tenant_id |-> a.tenant_id, content_digest |-> digest,
           manifest_digest |-> manifestHash, binding_targets |-> a.binding_targets,
           binding_hash |-> hash, policy_context |-> {manifest},
           manifest |-> sealedManifest, payload |-> sealedPayload, aad_hash |-> aadHash]
  BY DEF SealTdf
<1>3. /\ sealedManifest.aad = aad /\ sealedPayload.aad = aad
      /\ sealedManifest.key = box.key /\ sealedPayload.key = box.key
  BY DEF Aes256Gcm
<1>4. /\ a.policy_context \subseteq {manifest}
      /\ a.meta_version \in 0..MaxMetaVersion
      /\ IsDescription(manifest)
  BY SealedCases
<1> DEFINE context == a.policy_context
           clear == {manifest}
<1> HIDE DEF digest, hash, manifestHash, aad, sealedManifest, sealedPayload, aadHash, clear
<1>5. a = [artifact_profile |-> "tdf", meta_version |-> a.meta_version,
           tenant_id |-> a.tenant_id, content_digest |-> digest,
           manifest_digest |-> manifestHash, binding_targets |-> a.binding_targets,
           binding_hash |-> hash, policy_context |-> context,
           manifest |-> sealedManifest, payload |-> sealedPayload, aad_hash |-> aadHash]
  BY <1>1, <1>2 DEF clear
<1>6. /\ a.content_digest = digest /\ a.binding_hash = hash /\ a.manifest_digest = manifestHash
      /\ a.aad_hash = aadHash /\ a.manifest = sealedManifest /\ a.payload = sealedPayload
  BY <1>5
<1>7. TdfShape(a)
  BY <1>5, <1>6 DEF TdfShape
<1>8. TdfAadOf(a) = aad
  BY <1>6 DEF TdfAadOf, aad
<1> QED BY <1>3, <1>4, <1>6, <1>7, <1>8 DEF digest, hash, manifestHash, aadHash

LEMMA SignatureInside ==
    ASSUME NEW a, WellSealed(a), a.artifact_profile = "detached_signature"
    PROVE  /\ SignatureShape(a)
           /\ a.binding_hash = BindingHash(a.tenant_id, a.content_digest, a.desc,
                                           a.binding_targets)
           /\ a.signature.by = a.signer
           /\ a.signature.over = ArtifactBinding(a.tenant_id, a.content_digest, a.desc,
                                                 a.binding_targets)
<1> DEFINE hash == BindingHash(a.tenant_id, a.content_digest, a.desc, a.binding_targets)
           signed == [by |-> a.signer,
                      over |-> ArtifactBinding(a.tenant_id, a.content_digest, a.desc,
                                               a.binding_targets)]
<1>1. a = [artifact_profile |-> "detached_signature", tenant_id |-> a.tenant_id,
           content_digest |-> a.content_digest, desc |-> a.desc,
           binding_targets |-> a.binding_targets, binding_hash |-> hash,
           signer |-> a.signer, signature |-> signed]
  BY SealedCases DEF SignDetached
<1> HIDE DEF hash, signed
<1>2. a.binding_hash = hash /\ a.signature = signed
  BY <1>1
<1>3. SignatureShape(a)
  BY <1>1, <1>2 DEF SignatureShape
<1> QED BY <1>2, <1>3 DEF hash, signed

\* Storage changes a field every artifact has, or one of its profile's.
Touched(a, b, x) ==
    \/ b = [a EXCEPT !.tenant_id = x]
    \/ b = [a EXCEPT !.binding_targets = x]
    \/ b = [a EXCEPT !.content_digest = x]
    \/ b = [a EXCEPT !.binding_hash = x]

LEMMA DamagedField ==
    ASSUME NEW a, NEW b \in DamagedCopies(a)
    PROVE  \/ \E x : Touched(a, b, x)
           \/ a.artifact_profile = "envelope" /\ b \in DamagedEnvelopes(a)
           \/ a.artifact_profile = "tdf" /\ b \in DamagedTdfs(a)
           \/ a.artifact_profile = "detached_signature" /\ b \in DamagedSignatures(a)
           \/ a.artifact_profile \notin {"envelope", "tdf", "detached_signature"}
<1> DEFINE tenants == {[a EXCEPT !.tenant_id = t] : t \in Tenants}
           targets == {[a EXCEPT !.binding_targets = l] : l \in TargetLists}
           digests == {[a EXCEPT !.content_digest = Sha256(content)] :
                           content \in Contents \cup {"none"}}
           hashes == {[a EXCEPT !.binding_hash = Sha256(Noise)]}
           others == CASE a.artifact_profile = "envelope"           -> DamagedEnvelopes(a)
                       [] a.artifact_profile = "tdf"                -> DamagedTdfs(a)
                       [] a.artifact_profile = "detached_signature" -> DamagedSignatures(a)
<1>1. b \in UNION {tenants, targets, digests, hashes, others}
  BY DEF DamagedCopies
<1>2. CASE b \in tenants
  BY <1>2, Zenon DEF Touched
<1>3. CASE b \in targets
  BY <1>3, Zenon DEF Touched
<1>4. CASE b \in digests
  <2>1. PICK content \in Contents \cup {"none"} :
          b = [a EXCEPT !.content_digest = Sha256(content)]
    BY <1>4, Zenon
  <2> QED BY <2>1, Zenon DEF Touched
<1>5. CASE b \in hashes
  <2>1. b = [a EXCEPT !.binding_hash = Sha256(Noise)]
    BY <1>5, Zenon
  <2> QED BY <2>1, Zenon DEF Touched
<1>6. CASE b \in others
  <2>1. CASE a.artifact_profile = "envelope"
    BY <1>6, <2>1
  <2>2. CASE a.artifact_profile = "tdf"
    BY <1>6, <2>2
  <2>3. CASE a.artifact_profile = "detached_signature"
    BY <1>6, <2>3
  <2> QED BY <2>1, <2>2, <2>3
<1> HIDE DEF tenants, targets, digests, hashes, others
<1> QED BY <1>1, <1>2, <1>3, <1>4, <1>5, <1>6

\* What damage leaves of an artifact: each box as it was, or spoilt.
EnvelopeKept(a, b) ==
    EnvelopeShape(b) /\ b.ciphertext \in {a.ciphertext, Corrupted(a.ciphertext)}

TdfKept(a, b) ==
    /\ TdfShape(b)
    /\ b.manifest \in {a.manifest, Corrupted(a.manifest)}
    /\ b.payload \in {a.payload, Corrupted(a.payload)}
    /\ b.meta_version \in {a.meta_version} \cup 0..MaxMetaVersion

BrokenSignature(a) == [by |-> a.signer, over |-> Noise]

SignatureKept(a, b) ==
    SignatureShape(b) /\ b.signature \in {a.signature, BrokenSignature(a)}

LEMMA EnvelopeDamage ==
    ASSUME NEW a, EnvelopeShape(a), NEW b, b = a \/ b \in DamagedCopies(a)
    PROVE  EnvelopeKept(a, b)
<1>1. a.artifact_profile = "envelope"
  BY DEF EnvelopeShape
<1>2. CASE b = a
  BY <1>2 DEF EnvelopeKept
<1>3. CASE \E x : Touched(a, b, x)
  <2>1. PICK x : Touched(a, b, x)
    BY <1>3
  <2>2. CASE b = [a EXCEPT !.tenant_id = x]
    BY <2>2 DEF EnvelopeKept, EnvelopeShape
  <2>3. CASE b = [a EXCEPT !.binding_targets = x]
    BY <2>3 DEF EnvelopeKept, EnvelopeShape
  <2>4. CASE b = [a EXCEPT !.content_digest = x]
    BY <2>4 DEF EnvelopeKept, EnvelopeShape
  <2>5. CASE b = [a EXCEPT !.binding_hash = x]
    BY <2>5 DEF EnvelopeKept, EnvelopeShape
  <2> QED BY <2>1, <2>2, <2>3, <2>4, <2>5 DEF Touched
<1>4. CASE b \in DamagedEnvelopes(a)
  <2> DEFINE hash == Sha256(Noise)
             box == Corrupted(a.ciphertext)
  <2>1. \/ \E d \in Descriptions : b = [a EXCEPT !.desc = d]
        \/ b = [a EXCEPT !.aad_hash = hash]
        \/ b = [a EXCEPT !.ciphertext = box]
    BY <1>4, Zenon DEF DamagedEnvelopes
  <2> HIDE DEF hash
  <2>2. CASE \E d \in Descriptions : b = [a EXCEPT !.desc = d]
    BY <2>2 DEF EnvelopeKept, EnvelopeShape
  <2>3. CASE b = [a EXCEPT !.aad_hash = hash]
    BY <2>3 DEF EnvelopeKept, EnvelopeShape
  <2>4. CASE b = [a EXCEPT !.ciphertext = box]
    <3> HIDE DEF box
    <3>1. EnvelopeShape(b) /\ b.ciphertext = box
      BY <2>4 DEF EnvelopeShape
    <3> QED BY <3>1 DEF EnvelopeKept, box
  <2> QED BY <2>1, <2>2, <2>3, <2>4
<1> QED BY <1>1, <1>2, <1>3, <1>4, DamagedField

LEMMA TdfDamage ==
    ASSUME NEW a, TdfShape(a), NEW b, b = a \/ b \in DamagedCopies(a)
    PROVE  TdfKept(a, b)
<1>1. a.artifact_profile = "tdf"
  BY DEF TdfShape
<1>2. CASE b = a
  BY <1>2 DEF TdfKept
<1>3. CASE \E x : Touched(a, b, x)
  <2>1. PICK x : Touched(a, b, x)
    BY <1>3
  <2>2. CASE b = [a EXCEPT !.tenant_id = x]
    BY <2>2 DEF TdfKept, TdfShape
  <2>3. CASE b = [a EXCEPT !.binding_targets = x]
    BY <2>3 DEF TdfKept, TdfShape
  <2>4. CASE b = [a EXCEPT !.content_digest = x]
    BY <2>4 DEF TdfKept, TdfShape
  <2>5. CASE b = [a EXCEPT !.binding_hash = x]
    BY <2>5 DEF TdfKept, TdfShape
  <2> QED BY <2>1, <2>2, <2>3, <2>4, <2>5 DEF Touched
<1>4. CASE b \in DamagedTdfs(a)
  <2> DEFINE hash == Sha256(Noise)
             manifest == Corrupted(a.manifest)
             payload == Corrupted(a.payload)
             contexts == {[a EXCEPT !.policy_context = p] :
                              p \in {{}} \cup {{d} : d \in Descriptions}}
             versions == {[a EXCEPT !.meta_version = v] : v \in 0..MaxMetaVersion}
             others == {[a EXCEPT !.manifest_digest = hash], [a EXCEPT !.aad_hash = hash],
                        [a EXCEPT !.manifest = manifest], [a EXCEPT !.payload = payload]}
  <2>1. b \in contexts \/ b \in versions \/ b \in others
    BY <1>4, Zenon DEF DamagedTdfs
  <2>2. CASE b \in contexts
    <3>1. \E p : b = [a EXCEPT !.policy_context = p]
      BY <2>2, Zenon
    <3> QED BY <3>1 DEF TdfKept, TdfShape
  <2>3. CASE b \in versions
    <3>1. PICK v \in 0..MaxMetaVersion : b = [a EXCEPT !.meta_version = v]
      BY <2>3, Zenon
    <3> QED BY <3>1 DEF TdfKept, TdfShape
  <2>4. CASE b \in others
    <3>1. \/ b = [a EXCEPT !.manifest_digest = hash]
          \/ b = [a EXCEPT !.aad_hash = hash]
          \/ b = [a EXCEPT !.manifest = manifest]
          \/ b = [a EXCEPT !.payload = payload]
      BY <2>4, Zenon
    <3> HIDE DEF hash
    <3>2. CASE b = [a EXCEPT !.manifest_digest = hash]
      BY <3>2 DEF TdfKept, TdfShape
    <3>3. CASE b = [a EXCEPT !.aad_hash = hash]
      BY <3>3 DEF TdfKept, TdfShape
    <3>4. CASE b = [a EXCEPT !.manifest = manifest]
      <4> HIDE DEF manifest
      <4>1. /\ TdfShape(b) /\ b.manifest = manifest /\ b.payload = a.payload
            /\ b.meta_version = a.meta_version
        BY <3>4 DEF TdfShape
      <4> QED BY <4>1 DEF TdfKept, manifest
    <3>5. CASE b = [a EXCEPT !.payload = payload]
      <4> HIDE DEF payload
      <4>1. /\ TdfShape(b) /\ b.payload = payload /\ b.manifest = a.manifest
            /\ b.meta_version = a.meta_version
        BY <3>5 DEF TdfShape
      <4> QED BY <4>1 DEF TdfKept, payload
    <3> QED BY <3>1, <3>2, <3>3, <3>4, <3>5
  <2> QED BY <2>1, <2>2, <2>3, <2>4
<1> QED BY <1>1, <1>2, <1>3, <1>4, DamagedField

LEMMA SignatureDamage ==
    ASSUME NEW a, SignatureShape(a), NEW b, b = a \/ b \in DamagedCopies(a)
    PROVE  SignatureKept(a, b)
<1>1. a.artifact_profile = "detached_signature"
  BY DEF SignatureShape
<1>2. CASE b = a
  BY <1>2 DEF SignatureKept
<1>3. CASE \E x : Touched(a, b, x)
  <2>1. PICK x : Touched(a, b, x)
    BY <1>3
  <2>2. CASE b = [a EXCEPT !.tenant_id = x]
    BY <2>2 DEF SignatureKept, SignatureShape
  <2>3. CASE b = [a EXCEPT !.binding_targets = x]
    BY <2>3 DEF SignatureKept, SignatureShape
  <2>4. CASE b = [a EXCEPT !.content_digest = x]
    BY <2>4 DEF SignatureKept, SignatureShape
  <2>5. CASE b = [a EXCEPT !.binding_hash = x]
    BY <2>5 DEF SignatureKept, SignatureShape
  <2> QED BY <2>1, <2>2, <2>3, <2>4, <2>5 DEF Touched
<1>4. CASE b \in DamagedSignatures(a)
  <2> DEFINE broken == BrokenSignature(a)
  <2>1. \/ \E d \in Descriptions : b = [a EXCEPT !.desc = d]
        \/ \E k \in InlineKeys : b = [a EXCEPT !.signer = k]
        \/ b = [a EXCEPT !.signature = broken]
    BY <1>4, Zenon DEF DamagedSignatures, BrokenSignature
  <2> HIDE DEF broken
  <2>2. CASE \E d \in Descriptions : b = [a EXCEPT !.desc = d]
    BY <2>2 DEF SignatureKept, SignatureShape
  <2>3. CASE \E k \in InlineKeys : b = [a EXCEPT !.signer = k]
    BY <2>3 DEF SignatureKept, SignatureShape
  <2>4. CASE b = [a EXCEPT !.signature = broken]
    <3>1. SignatureShape(b) /\ b.signature = broken
      BY <2>4 DEF SignatureShape
    <3> QED BY <3>1 DEF SignatureKept, broken
  <2> QED BY <2>1, <2>2, <2>3, <2>4
<1> QED BY <1>1, <1>2, <1>3, <1>4, DamagedField

\* What a binding hash and the associated data say, nothing else says.
LEMMA BindingsDiffer ==
    ASSUME NEW t, NEW g, NEW d, NEW l, NEW tt, NEW gg, NEW dd, NEW ll,
           BindingHash(t, g, d, l) = BindingHash(tt, gg, dd, ll)
    PROVE  t = tt /\ g = gg /\ d = dd /\ l = ll
BY DEF BindingHash, Sha256, ArtifactBinding

\* Nothing the library binds or signs is noise.
LEMMA NoiseIsNothing ==
    /\ \A t, g, d, l, h : EnvelopeAad(t, g, d, l, h) # Noise
    /\ \A t, g, m, h : TdfAad(t, g, m, h) # Noise
    /\ \A t, g, d, l : ArtifactBinding(t, g, d, l) # Noise
<1>1. "noise" \in DOMAIN Noise
  BY DEF Noise
<1>2. \A t, g, d, l, h : "noise" \notin DOMAIN EnvelopeAad(t, g, d, l, h)
  BY DEF EnvelopeAad
<1>3. \A t, g, m, h : "noise" \notin DOMAIN TdfAad(t, g, m, h)
  BY DEF TdfAad
<1>4. \A t, g, d, l : "noise" \notin DOMAIN ArtifactBinding(t, g, d, l)
  BY DEF ArtifactBinding
<1> QED BY <1>1, <1>2, <1>3, <1>4, Zenon

LEMMA CorruptedInside ==
    ASSUME NEW box
    PROVE  Corrupted(box).aad = Noise /\ Corrupted(box).msg = box.msg
BY DEF Corrupted, Aes256Gcm

\* Damage does not pass the checks: what they accept is what was sealed.
LEMMA EnvelopeDamageShows ==
    ASSUME NEW a, WellSealed(a), NEW b, b = a \/ b \in DamagedCopies(a),
           a.artifact_profile = "envelope", NEW key, EnvelopeOpens(key, b)
    PROVE  b = a
<1>1. /\ EnvelopeShape(a) /\ EnvelopeShape(b)
      /\ b.ciphertext \in {a.ciphertext, Corrupted(a.ciphertext)}
  BY EnvelopeInside, EnvelopeDamage DEF EnvelopeKept
<1>2. b.ciphertext.aad = EnvelopeAad(b.tenant_id, b.content_digest, b.desc,
                                     b.binding_targets, b.binding_hash)
  BY DEF EnvelopeOpens, Decrypts
<1>3. a.ciphertext.aad = EnvelopeAad(a.tenant_id, a.content_digest, a.desc,
                                     a.binding_targets, a.binding_hash)
  BY EnvelopeInside
<1>4. b.ciphertext = a.ciphertext
  BY <1>1, <1>2, CorruptedInside, NoiseIsNothing
<1>5. /\ a.tenant_id = b.tenant_id /\ a.content_digest = b.content_digest
      /\ a.desc = b.desc /\ a.binding_targets = b.binding_targets
      /\ a.binding_hash = b.binding_hash
  BY <1>2, <1>3, <1>4 DEF EnvelopeAad
<1>6. a.aad_hash = b.aad_hash
  BY <1>5, EnvelopeInside DEF EnvelopeOpens
<1> QED BY <1>1, <1>4, <1>5, <1>6 DEF EnvelopeShape

TdfFields ==
    {"artifact_profile", "meta_version", "tenant_id", "content_digest", "manifest_digest",
     "binding_targets", "binding_hash", "policy_context", "manifest", "payload", "aad_hash"}

LEMMA TdfDomain ==
    ASSUME NEW a, TdfShape(a)
    PROVE  DOMAIN a = TdfFields
BY DEF TdfShape, TdfFields

LEMMA TdfDamageShows ==
    ASSUME NEW a, WellSealed(a), NEW b, b = a \/ b \in DamagedCopies(a),
           a.artifact_profile = "tdf",
           NEW key, TdfManifestTrusted(key, b), NEW other, TdfPayloadOpens(other, b)
    PROVE  AsSealed(a, b)
<1>1. TdfShape(a) /\ TdfKept(a, b)
  BY TdfInside, TdfDamage
<1>2. b.manifest.aad = TdfAadOf(b) /\ b.payload.aad = TdfAadOf(b)
  BY DEF TdfManifestTrusted, TdfManifestOpens, TdfPayloadOpens, Decrypts
<1>3. b.manifest = a.manifest /\ b.payload = a.payload
  BY <1>1, <1>2, CorruptedInside, NoiseIsNothing DEF TdfKept, TdfAadOf
<1>4. a.manifest.aad = TdfAadOf(a)
  BY TdfInside
<1>5. /\ a.tenant_id = b.tenant_id /\ a.content_digest = b.content_digest
      /\ a.manifest_digest = b.manifest_digest /\ a.binding_hash = b.binding_hash
  BY <1>2, <1>3, <1>4 DEF TdfAad, TdfAadOf
<1>6. b.binding_hash = BindingHash(b.tenant_id, b.content_digest, b.manifest.msg,
                                   b.binding_targets)
  BY DEF TdfManifestTrusted, BindingMatches
<1>7. a.binding_targets = b.binding_targets
  <2>1. BindingHash(a.tenant_id, a.content_digest, a.manifest.msg, a.binding_targets)
          = BindingHash(b.tenant_id, b.content_digest, b.manifest.msg, b.binding_targets)
    BY <1>5, <1>6, TdfInside, Zenon
  <2> QED BY <2>1, BindingsDiffer
<1>8. a.aad_hash = b.aad_hash
  BY <1>5, TdfInside DEF TdfManifestTrusted, TdfManifestOpens, TdfAadOf
<1>9. /\ b.policy_context \subseteq {Description(a)}
      /\ b.meta_version \in 0..MaxMetaVersion
  BY <1>1, <1>3, TdfInside DEF TdfManifestTrusted, Description, TdfKept
<1>10. TdfShape(b)
  BY <1>1 DEF TdfKept
<1>11. DOMAIN a = TdfFields /\ DOMAIN b = TdfFields
  BY <1>1, <1>10, TdfDomain
<1>12. \A field \in TdfFields \ {"meta_version", "policy_context"} : b[field] = a[field]
  <2>1. a.artifact_profile = b.artifact_profile
    BY <1>1, <1>10 DEF TdfShape
  <2> QED BY <2>1, <1>3, <1>5, <1>7, <1>8 DEF TdfFields
<1> QED BY <1>9, <1>11, <1>12, Zenon DEF AsSealed

LEMMA SignatureDamageShows ==
    ASSUME NEW a, WellSealed(a), NEW b, b = a \/ b \in DamagedCopies(a),
           a.artifact_profile = "detached_signature", NEW key, SignatureVerifies(key, b)
    PROVE  b = a
<1>1. SignatureShape(a) /\ SignatureShape(b) /\ b.signature \in {a.signature, BrokenSignature(a)}
  BY SignatureInside, SignatureDamage DEF SignatureKept
<1>2. /\ b.signature.over = ArtifactBinding(b.tenant_id, b.content_digest, b.desc,
                                            b.binding_targets)
      /\ b.signature.by = b.signer
      /\ b.binding_hash = BindingHash(b.tenant_id, b.content_digest, b.desc,
                                      b.binding_targets)
  BY DEF SignatureVerifies, BindingMatches
<1>3. /\ a.signature.over = ArtifactBinding(a.tenant_id, a.content_digest, a.desc,
                                            a.binding_targets)
      /\ a.signature.by = a.signer
      /\ a.binding_hash = BindingHash(a.tenant_id, a.content_digest, a.desc,
                                      a.binding_targets)
  BY SignatureInside
<1>4. b.signature = a.signature
  BY <1>1, <1>2, NoiseIsNothing DEF BrokenSignature
<1>5. /\ a.tenant_id = b.tenant_id /\ a.content_digest = b.content_digest
      /\ a.desc = b.desc /\ a.binding_targets = b.binding_targets
  BY <1>2, <1>3, <1>4 DEF ArtifactBinding
<1>6. a.signer = b.signer /\ a.binding_hash = b.binding_hash
  BY <1>2, <1>3, <1>4, <1>5
<1> QED BY <1>1, <1>4, <1>5, <1>6 DEF SignatureShape

-----------------------------------------------------------------------------
(***************************************************************************)
(* What a step does, as far as integrity is concerned.                     *)
(***************************************************************************)

Trusts(c, step, locals) ==
    /\ Goes(c, step, locals)
    /\ job[c].op \notin Makers => locals.tenant = work[c].tenant
    /\ IF step = "open"
       THEN ContentTrusted(job[c].source) /\ locals.plaintext = Ciphertext(job[c].source).msg
       ELSE locals.plaintext = work[c].plaintext
    /\ step = "verify" => SignatureTrusted(job[c].source)

\* Tenant and plaintext among the locals.
LEMMA ContentAssigned ==
    ASSUME NEW w, WorkOK(w), NEW x
    PROVE  /\ \A v \in {[w EXCEPT !.desc = x], [w EXCEPT !.targets = x], [w EXCEPT !.mode = x],
                       [w EXCEPT !.current = x], [w EXCEPT !.new = x],
                       [w EXCEPT !.product = x]} :
                 v.tenant = w.tenant /\ v.plaintext = w.plaintext
           /\ [w EXCEPT !.tenant = x].tenant = x
           /\ [w EXCEPT !.tenant = x].plaintext = w.plaintext
           /\ [w EXCEPT !.plaintext = x].plaintext = x
           /\ [w EXCEPT !.plaintext = x].tenant = w.tenant
BY DEF WorkOK

\* A key that opens is the key the artifact names.
LEMMA OpensUnderItsKey ==
    ASSUME NEW key, NEW a
    PROVE  /\ TdfManifestTrusted(key, a) => ManifestTrusted(a)
           /\ Opens(key, a) => Opens(Ciphertext(a).key, a)
           /\ SignatureVerifies(key, a) => SignatureTrusted(a)
<1>1. TdfManifestTrusted(key, a) => a.manifest.key = key
  BY DEF TdfManifestTrusted, TdfManifestOpens, Decrypts
<1>2. Opens(key, a) => Ciphertext(a).key = key
  <2>1. CASE a.artifact_profile = "tdf"
    BY <2>1 DEF Opens, Ciphertext, TdfPayloadOpens, Decrypts
  <2>2. CASE a.artifact_profile # "tdf"
    BY <2>2 DEF Opens, Ciphertext, EnvelopeOpens, Decrypts
  <2> QED BY <2>1, <2>2
<1>3. SignatureVerifies(key, a) => a.signer = key
  BY DEF SignatureVerifies
<1> QED BY <1>1, <1>2, <1>3 DEF ManifestTrusted, SignatureTrusted

LEMMA AskPlatformTrusts ==
    ASSUME TypeOK, NEW c \in Calls, AskPlatform(c), NEW step, NEW locals, Goes(c, step, locals)
    PROVE  Trusts(c, step, locals)
<1>1. ~Fail(c) /\ work'[c] = locals /\ Running(c, step) /\ WorkOK(work[c])
  BY GoesNotFails
<1>2. ASSUME NEW s, Running(c, s), s \notin {"open", "verify"},
             work'[c].plaintext = work[c].plaintext,
             job[c].op \notin Makers => work'[c].tenant = work[c].tenant
      PROVE  Trusts(c, step, locals)
  BY <1>1, <1>2 DEF Trusts, Running
<1>3. CASE Bootstrap(c)
  BY <1>1, <1>2, <1>3, ProceedsWith DEF Bootstrap
<1>4. CASE PolicyResolve(c)
  <2>1. PICK r \in PolicyResponses :
          Running(c, "policy") /\ Proceed(c, [work[c] EXCEPT !.targets = r.bind_policy_to])
    BY <1>1, <1>4 DEF PolicyResolve, Answered
  <2> DEFINE after == [work[c] EXCEPT !.targets = r.bind_policy_to]
  <2>2. after.tenant = work[c].tenant /\ after.plaintext = work[c].plaintext
    BY <1>1, ContentAssigned
  <2> QED BY <1>2, <2>1, <2>2, ProceedsWith
<1>5. CASE ProtectionPlan(c)
  <2>1. PICK r \in PlanResponses :
          Running(c, "plan") /\ Proceed(c, [work[c] EXCEPT !.tenant = BoundTenant(c, r)])
    BY <1>1, <1>5 DEF ProtectionPlan, Answered
  <2> DEFINE after == [work[c] EXCEPT !.tenant = BoundTenant(c, r)]
  <2>2. after.tenant = BoundTenant(c, r) /\ after.plaintext = work[c].plaintext
    BY <1>1, ContentAssigned
  <2>3. job[c].op \notin Makers => BoundTenant(c, r) = work[c].tenant
    BY DEF BoundTenant
  <2> QED BY <1>2, <2>1, <2>2, <2>3, ProceedsWith
<1>6. CASE KeyAccessPlan(c)
  <2>1. PICK r \in KeyPlanResponses :
          Running(c, "key_plan") /\ Proceed(c, [work[c] EXCEPT !.mode = r.key_transport.mode])
    BY <1>1, <1>6 DEF KeyAccessPlan, Answered
  <2> DEFINE after == [work[c] EXCEPT !.mode = r.key_transport.mode]
  <2>2. after.tenant = work[c].tenant /\ after.plaintext = work[c].plaintext
    BY <1>1, ContentAssigned
  <2> QED BY <1>2, <2>1, <2>2, ProceedsWith
<1>7. CASE Register(c)
  BY <1>1, <1>2, <1>7, ProceedsWith DEF Register
<1>8. CASE Evidence(c)
  BY <1>1, <1>2, <1>8, ProceedsWith DEF Evidence
<1> QED BY <1>3, <1>4, <1>5, <1>6, <1>7, <1>8 DEF AskPlatform

LEMMA ComputeLocallyTrusts ==
    ASSUME TypeOK, NEW c \in Calls, ComputeLocally(c), NEW step, NEW locals,
           Goes(c, step, locals)
    PROVE  Trusts(c, step, locals)
<1>1. ~Fail(c) /\ work'[c] = locals /\ Running(c, step) /\ WorkOK(work[c])
  BY GoesNotFails
<1>2. ASSUME NEW s, Running(c, s), s \notin {"open", "verify"},
             work'[c].plaintext = work[c].plaintext, work'[c].tenant = work[c].tenant
      PROVE  Trusts(c, step, locals)
  BY <1>1, <1>2 DEF Trusts, Running
<1>3. CASE ResolveCurrentKey(c)
  <2> DEFINE after == [work[c] EXCEPT !.current = ResolvedKey(job[c].current)]
  <2>1. Running(c, "current_key") /\ Proceed(c, after)
    BY <1>1, <1>3 DEF ResolveCurrentKey
  <2>2. after.tenant = work[c].tenant /\ after.plaintext = work[c].plaintext
    BY <1>1, ContentAssigned
  <2> QED BY <1>2, <2>1, <2>2, ProceedsWith
<1>4. CASE ResolveNewKey(c)
  <2> DEFINE after == [work[c] EXCEPT !.new = ResolvedKey(job[c].new)]
  <2>1. Running(c, "new_key") /\ Proceed(c, after)
    BY <1>1, <1>4 DEF ResolveNewKey
  <2>2. after.tenant = work[c].tenant /\ after.plaintext = work[c].plaintext
    BY <1>1, ContentAssigned
  <2> QED BY <1>2, <2>1, <2>2, ProceedsWith
<1>5. CASE ProviderFails(c)
  BY <1>1, <1>5 DEF ProviderFails
<1>6. CASE OpenManifest(c)
  <2> DEFINE after == [work[c] EXCEPT !.desc = EditedManifest(job[c], job[c].source.manifest.msg)]
  <2>1. Running(c, "manifest") /\ Proceed(c, after)
    BY <1>1, <1>6 DEF OpenManifest
  <2>2. after.tenant = work[c].tenant /\ after.plaintext = work[c].plaintext
    BY <1>1, ContentAssigned
  <2> QED BY <1>2, <2>1, <2>2, ProceedsWith
<1>7. CASE OpenContent(c)
  <2> DEFINE a == job[c].source
             after == [work[c] EXCEPT !.plaintext = Ciphertext(a).msg]
  <2>1. /\ Running(c, "open") /\ Proceed(c, after)
        /\ Opens(work[c].current, a) /\ Sha256(Ciphertext(a).msg) = a.content_digest
    BY <1>1, <1>7 DEF OpenContent
  <2>2. after.tenant = work[c].tenant /\ after.plaintext = Ciphertext(a).msg
    BY <1>1, ContentAssigned
  <2>3. ContentTrusted(a)
    BY <2>1, OpensUnderItsKey DEF ContentTrusted
  <2>4. step = "open" /\ locals = after
    BY <1>1, <2>1, ProceedsWith DEF Running
  <2> QED BY <2>2, <2>3, <2>4 DEF Trusts
<1>8. CASE Seal(c)
  <2> DEFINE after == [work[c] EXCEPT !.product = Product(c)]
  <2>1. Running(c, "seal") /\ Proceed(c, after)
    BY <1>1, <1>8 DEF Seal
  <2>2. after.tenant = work[c].tenant /\ after.plaintext = work[c].plaintext
    BY <1>1, ContentAssigned
  <2> QED BY <1>2, <2>1, <2>2, ProceedsWith
<1>9. CASE Verify(c)
  <2>1. /\ Running(c, "verify") /\ Proceed(c, work[c])
        /\ SignatureVerifies(job[c].current.name, job[c].source)
    BY <1>1, <1>9 DEF Verify
  <2>2. step = "verify" /\ locals = work[c]
    BY <1>1, <2>1, ProceedsWith DEF Running
  <2> QED BY <2>1, <2>2, OpensUnderItsKey DEF Trusts
<1> QED BY <1>3, <1>4, <1>5, <1>6, <1>7, <1>8, <1>9 DEF ComputeLocally

-----------------------------------------------------------------------------
(***************************************************************************)
(* What is sealed.                                                         *)
(***************************************************************************)

\* The artifact has what it was made from.
MadeOf(a, profile, content, tenant, digest, desc) ==
    /\ WellSealed(a)
    /\ a.artifact_profile = profile /\ a.tenant_id = tenant
    /\ a.content_digest = digest /\ Ciphertext(a).msg = content /\ Description(a) = desc

LEMMA EnvelopeProduct ==
    ASSUME NEW key, NEW nonce, NEW content, NEW tenant, NEW digest, NEW desc, NEW targets,
           digest = Sha256(content)
    PROVE  MadeOf(SealEnvelope(key, nonce, content, tenant, digest, desc, targets),
                  "envelope", content, tenant, digest, desc)
<1> DEFINE a == SealEnvelope(key, nonce, content, tenant, digest, desc, targets)
           hash == BindingHash(tenant, digest, desc, targets)
           aad == EnvelopeAad(tenant, digest, desc, targets, hash)
           aadHash == Sha256(aad)
           box == Aes256Gcm(key, nonce, aad, content)
<1>1. a = [artifact_profile |-> "envelope", tenant_id |-> tenant,
           content_digest |-> digest, desc |-> desc,
           binding_targets |-> targets, binding_hash |-> hash,
           aad_hash |-> aadHash, ciphertext |-> box]
  BY DEF SealEnvelope
<1>2. box.key = key /\ box.nonce = nonce /\ box.msg = content
  BY DEF Aes256Gcm
<1> HIDE DEF hash, aad, aadHash, box, a
<1>3. /\ a.artifact_profile = "envelope" /\ a.tenant_id = tenant
      /\ a.content_digest = digest /\ a.desc = desc /\ a.binding_targets = targets
      /\ a.ciphertext = box
  BY <1>1
<1>4. a = SealEnvelope(a.ciphertext.key, a.ciphertext.nonce, a.ciphertext.msg, a.tenant_id,
                       Sha256(a.ciphertext.msg), a.desc, a.binding_targets)
  BY <1>2, <1>3, Zenon DEF a
<1>5. WellSealed(a)
  BY <1>3, <1>4, Zenon DEF WellSealed
<1>6. Ciphertext(a).msg = content /\ Description(a) = desc
  BY <1>2, <1>3 DEF Ciphertext, Description
<1>7. MadeOf(a, "envelope", content, tenant, digest, desc)
  BY <1>3, <1>5, <1>6 DEF MadeOf
<1> QED BY <1>7 DEF a

LEMMA TdfProduct ==
    ASSUME NEW key, NEW nonce, NEW content, NEW tenant, NEW digest, NEW manifest, NEW targets,
           NEW version \in 0..MaxMetaVersion, digest = Sha256(content), IsDescription(manifest)
    PROVE  /\ MadeOf(SealTdf(key, nonce, content, tenant, digest, manifest, targets, version),
                     "tdf", content, tenant, digest, manifest)
           /\ SealTdf(key, nonce, content, tenant, digest, manifest, targets,
                      version).meta_version = version
<1> DEFINE a == SealTdf(key, nonce, content, tenant, digest, manifest, targets, version)
           hash == BindingHash(tenant, digest, manifest, targets)
           manifestHash == Sha256(manifest)
           aad == TdfAad(tenant, digest, manifestHash, hash)
           aadHash == Sha256(aad)
           clear == {manifest}
           sealedManifest == Aes256Gcm(key, nonce, aad, manifest)
           sealedPayload == Aes256Gcm(key, nonce, aad, content)
<1>1. a = [artifact_profile |-> "tdf", meta_version |-> version, tenant_id |-> tenant,
           content_digest |-> digest, manifest_digest |-> manifestHash,
           binding_targets |-> targets, binding_hash |-> hash, policy_context |-> clear,
           manifest |-> sealedManifest, payload |-> sealedPayload, aad_hash |-> aadHash]
  BY DEF SealTdf
<1>2. /\ sealedPayload.key = key /\ sealedPayload.nonce = nonce /\ sealedPayload.msg = content
      /\ sealedManifest.msg = manifest
  BY DEF Aes256Gcm
<1> HIDE DEF hash, manifestHash, aad, aadHash, clear, sealedManifest, sealedPayload, a
<1>3. /\ a.artifact_profile = "tdf" /\ a.tenant_id = tenant /\ a.meta_version = version
      /\ a.content_digest = digest /\ a.binding_targets = targets
      /\ a.policy_context = clear /\ a.manifest = sealedManifest /\ a.payload = sealedPayload
  BY <1>1
<1>4. a = [a EXCEPT !.policy_context = a.policy_context]
  BY <1>1, <1>3
<1>5. a = SealTdf(a.payload.key, a.payload.nonce, a.payload.msg, a.tenant_id,
                  Sha256(a.payload.msg), a.manifest.msg, a.binding_targets, a.meta_version)
  BY <1>2, <1>3, Zenon DEF a
<1>6. a.policy_context \subseteq {a.manifest.msg}
  BY <1>2, <1>3 DEF clear
<1>7. WellSealed(a)
  <2>1. a.artifact_profile # "envelope"
    BY <1>3
  <2>2. a = [SealTdf(a.payload.key, a.payload.nonce, a.payload.msg, a.tenant_id,
                     Sha256(a.payload.msg), a.manifest.msg, a.binding_targets,
                     a.meta_version)
                EXCEPT !.policy_context = a.policy_context]
    BY <1>4, <1>5, Zenon
  <2>3. a.meta_version \in 0..MaxMetaVersion /\ IsDescription(a.manifest.msg)
    BY <1>2, <1>3
  <2> QED BY <1>3, <1>6, <2>1, <2>2, <2>3, Zenon DEF WellSealed
<1>8. Ciphertext(a).msg = content /\ Description(a) = manifest
  BY <1>2, <1>3 DEF Ciphertext, Description
<1>9. MadeOf(a, "tdf", content, tenant, digest, manifest) /\ a.meta_version = version
  BY <1>3, <1>7, <1>8 DEF MadeOf
<1> QED BY <1>9 DEF a

LEMMA SignatureProduct ==
    ASSUME NEW signer, NEW tenant, NEW digest, NEW desc, NEW targets
    PROVE  WellSealed(SignDetached(signer, tenant, digest, desc, targets))
<1> DEFINE a == SignDetached(signer, tenant, digest, desc, targets)
           hash == BindingHash(tenant, digest, desc, targets)
           signed == [by |-> signer, over |-> ArtifactBinding(tenant, digest, desc, targets)]
<1>1. a = [artifact_profile |-> "detached_signature", tenant_id |-> tenant,
           content_digest |-> digest, desc |-> desc, binding_targets |-> targets,
           binding_hash |-> hash, signer |-> signer, signature |-> signed]
  BY DEF SignDetached
<1> HIDE DEF hash, signed, a
<1>2. /\ a.artifact_profile = "detached_signature" /\ a.signer = signer
      /\ a.tenant_id = tenant /\ a.content_digest = digest /\ a.desc = desc
      /\ a.binding_targets = targets
  BY <1>1
<1>3. a = SignDetached(a.signer, a.tenant_id, a.content_digest, a.desc, a.binding_targets)
  BY <1>2, Zenon DEF a
<1>4. a.artifact_profile # "envelope" /\ a.artifact_profile # "tdf"
  BY <1>2
<1>5. WellSealed(a)
  BY <1>2, <1>3, <1>4, Zenon DEF WellSealed
<1> QED BY <1>5, Zenon DEF a

\* An edit leaves the resource alone.
LEMMA EditsKeepResource ==
    ASSUME NEW j, NEW manifest, IsDescription(manifest)
    PROVE  /\ IsDescription(EditedManifest(j, manifest))
           /\ EditedManifest(j, manifest).resource = manifest.resource
           /\ j.op \notin Editors => EditedManifest(j, manifest) = manifest
<1>1. ASSUME NEW x PROVE /\ IsDescription([manifest EXCEPT !.attributes = x])
                         /\ [manifest EXCEPT !.attributes = x].resource = manifest.resource
  BY DEF IsDescription
<1>2. CASE j.op = "set_tdf_attributes"
  <2>1. EditedManifest(j, manifest) = [manifest EXCEPT !.attributes = j.edit.set]
    BY <1>2, Zenon DEF EditedManifest
  <2> QED BY <1>1, <1>2, <2>1 DEF Editors
<1>3. CASE j.op = "edit_tdf_attributes"
  <2>1. EditedManifest(j, manifest)
          = [manifest EXCEPT !.attributes = ApplyAttributeEdit(manifest.attributes, j.edit)]
    BY <1>3 DEF EditedManifest
  <2> QED BY <1>1, <1>3, <2>1 DEF Editors
<1>4. CASE j.op \notin Editors
  <2>1. EditedManifest(j, manifest) = manifest
    BY <1>4 DEF EditedManifest, Editors
  <2> QED BY <2>1
<1> QED BY <1>2, <1>3, <1>4 DEF Editors

\* The bytes of a call have the profile of what they are a copy of, and a TDF the
\* manifest it was sealed with.
LEMMA SourceInside ==
    ASSUME NEW c, SourceKnown(c), \A a \in held : WellSealed(a)
    PROVE  \E a \in held :
             /\ WellSealed(a)
             /\ job[c].source = a \/ job[c].source \in DamagedCopies(a)
             /\ a.artifact_profile = job[c].source.artifact_profile
             /\ a.artifact_profile \in {"envelope", "tdf", "detached_signature"}
             /\ a.artifact_profile = "tdf" => TdfKept(a, job[c].source)
<1> DEFINE b == job[c].source
<1>1. PICK a \in held : b = a \/ b \in DamagedCopies(a)
  BY DEF SourceKnown
<1>2. a.artifact_profile \in {"envelope", "tdf", "detached_signature"} /\ WellSealed(a)
  BY SealedCases
<1>3. CASE a.artifact_profile = "envelope"
  BY <1>1, <1>2, <1>3, EnvelopeInside, EnvelopeDamage DEF EnvelopeKept, EnvelopeShape
<1>4. CASE a.artifact_profile = "tdf"
  BY <1>1, <1>2, <1>4, TdfInside, TdfDamage DEF TdfKept, TdfShape
<1>5. CASE a.artifact_profile = "detached_signature"
  BY <1>1, <1>2, <1>5, SignatureInside, SignatureDamage DEF SignatureKept, SignatureShape
<1> QED BY <1>2, <1>3, <1>4, <1>5

LEMMA TdfSource ==
    ASSUME NEW c, SourceKnown(c), \A a \in held : WellSealed(a),
           job[c].source.artifact_profile = "tdf"
    PROVE  /\ IsDescription(job[c].source.manifest.msg)
           /\ job[c].source.meta_version \in 0..MaxMetaVersion
<1> DEFINE b == job[c].source
<1>1. PICK a \in held :
        /\ WellSealed(a) /\ a.artifact_profile = "tdf" /\ TdfKept(a, b)
  BY SourceInside
<1>2. /\ b.manifest.msg = a.manifest.msg
      /\ b.meta_version \in {a.meta_version} \cup 0..MaxMetaVersion
  BY <1>1, CorruptedInside DEF TdfKept
<1> QED BY <1>1, <1>2, TdfInside

\* The product of each profile.
LEMMA ProductCases ==
    ASSUME NEW c
    PROVE  LET w == work[c] IN
           /\ Profile(job[c].op) = "envelope" =>
                Product(c) = SealEnvelope(w.new, c, w.plaintext, w.tenant, w.digest, w.desc,
                                          w.targets)
           /\ Profile(job[c].op) = "tdf" =>
                Product(c) = SealTdf(w.new, c, w.plaintext, w.tenant, w.digest, w.desc,
                                     w.targets, MetaVersion(job[c]))
           /\ Profile(job[c].op) \notin {"envelope", "tdf"} =>
                Product(c) = SignDetached(job[c].new.name, w.tenant, w.digest, w.desc, w.targets)
<1>1. CASE Profile(job[c].op) = "envelope"
  BY <1>1 DEF Product
<1>2. CASE Profile(job[c].op) = "tdf"
  BY <1>2 DEF Product
<1>3. CASE Profile(job[c].op) \notin {"envelope", "tdf"}
  BY <1>3 DEF Product
<1> QED BY <1>1, <1>2, <1>3

LEMMA MadeWell ==
    ASSUME NEW c, job[c].op \in Makers, MadeAsAsked(c)
    PROVE  WellSealed(Product(c))
<1>1. work[c].digest = Sha256(work[c].plaintext) /\ IsDescription(work[c].desc)
  BY ContentAssumption DEF MadeAsAsked
<1>2. CASE Profile(job[c].op) = "envelope"
  BY <1>1, <1>2, ProductCases, EnvelopeProduct DEF MadeOf
<1>3. CASE Profile(job[c].op) = "tdf"
  <2>1. job[c].op = "protect_tdf"
    <3>1. job[c].op # "protect_envelope" /\ job[c].op # "sign"
      BY <1>3, Profiles
    <3>2. job[c].op # "prepare"
      <4>1. Profile("prepare") = "none"
        BY DEF Profile
      <4> QED BY <1>3, <4>1
    <3> QED BY <3>1, <3>2 DEF Makers
  <2>2. MetaVersion(job[c]) = 1
    BY <2>1 DEF MetaVersion, Editors
  <2>3. MetaVersion(job[c]) \in 0..MaxMetaVersion
    BY <2>2, MetaVersionAssumption
  <2> QED BY <1>1, <1>3, <2>3, ProductCases, TdfProduct DEF MadeOf
<1>4. CASE Profile(job[c].op) \notin {"envelope", "tdf"}
  BY <1>4, ProductCases, SignatureProduct
<1> QED BY <1>2, <1>3, <1>4

\* The call has opened what it seals anew.
LEMMA RewrittenWell ==
    ASSUME NEW c, job[c].op \in Rewriters, \A a \in held : WellSealed(a),
           SourceKnown(c), CarriedOver(c),
           ContentTrusted(job[c].source), work[c].plaintext = Ciphertext(job[c].source).msg,
           CheckingStep(job[c].op) = "manifest" => Passed(c, "manifest"),
           CheckingStep(job[c].op) # "manifest" => ~Passed(c, "manifest")
    PROVE  WellSealed(Product(c)) /\ HandsDown(job[c], job[c].source, Product(c))
<1> DEFINE w == work[c]
           a == job[c].source
<1>1. /\ w.digest = Sha256(w.plaintext) /\ w.digest = a.content_digest
      /\ w.tenant = a.tenant_id /\ a.artifact_profile = Profile(job[c].op)
  BY DEF ContentTrusted, CarriedOver, SourceKnown
<1>2. CASE job[c].op = "rewrap_envelope"
  <2>1. Profile(job[c].op) = "envelope" /\ CheckingStep(job[c].op) = "open"
    BY <1>2, Profiles, CheckingSteps
  <2>2. w.desc = Description(a)
    BY <1>1, <2>1 DEF CarriedOver, InitialDescription, Description
  <2>3. Product(c) = SealEnvelope(w.new, c, w.plaintext, w.tenant, w.digest, w.desc, w.targets)
    BY <2>1, ProductCases
  <2>4. MadeOf(Product(c), "envelope", w.plaintext, w.tenant, w.digest, w.desc)
    BY <1>1, <2>3, EnvelopeProduct
  <2> QED BY <1>1, <2>1, <2>2, <2>4 DEF HandsDown, MadeOf
<1>3. CASE job[c].op \in {"rewrap_tdf", "set_tdf_attributes", "edit_tdf_attributes"}
  <2>1. Profile(job[c].op) = "tdf" /\ CheckingStep(job[c].op) = "manifest"
    BY <1>3, Profiles, CheckingSteps DEF Editors
  <2>2. IsDescription(a.manifest.msg) /\ a.meta_version \in 0..MaxMetaVersion
    BY <1>1, <2>1, TdfSource
  <2>3. w.desc = EditedManifest(job[c], a.manifest.msg)
    BY <2>1 DEF CarriedOver
  <2>4. /\ IsDescription(w.desc) /\ w.desc.resource = a.manifest.msg.resource
        /\ job[c].op \notin Editors => w.desc = a.manifest.msg
    BY <2>2, <2>3, EditsKeepResource
  <2>5. MetaVersion(job[c]) \in 0..MaxMetaVersion
    BY <1>3, <2>2, MetaVersionAssumption DEF MetaVersion, SaturatingIncrement, Editors
  <2>6. Product(c) = SealTdf(w.new, c, w.plaintext, w.tenant, w.digest, w.desc, w.targets,
                             MetaVersion(job[c]))
    BY <2>1, ProductCases
  <2>7. /\ MadeOf(Product(c), "tdf", w.plaintext, w.tenant, w.digest, w.desc)
        /\ Product(c).meta_version = MetaVersion(job[c])
    <3> DEFINE version == MetaVersion(job[c])
           sealed == SealTdf(w.new, c, w.plaintext, w.tenant, w.digest, w.desc, w.targets,
                             version)
    <3>1. w.digest = Sha256(w.plaintext)
      BY <1>1
    <3>2. version \in 0..MaxMetaVersion
      BY <2>5
    <3>3. Product(c) = sealed
      BY <2>6
    <3>4. /\ MadeOf(sealed, "tdf", w.plaintext, w.tenant, w.digest, w.desc)
          /\ sealed.meta_version = version
      <4> HIDE DEF w, version
      <4> QED BY <2>4, <3>1, <3>2, TdfProduct
    <3> QED BY <3>3, <3>4
  <2>8. Description(a) = a.manifest.msg
    BY <1>1, <2>1 DEF Description
  <2> QED BY <1>1, <2>1, <2>2, <2>4, <2>7, <2>8 DEF HandsDown, MadeOf
<1> QED BY <1>2, <1>3 DEF Rewriters, Editors

LEMMA SealsWell ==
    ASSUME TypeOK, NEW c \in Calls, NEW locals, Goes(c, "seal", locals),
           TrustOK(c), \A a \in held : WellSealed(a)
    PROVE  /\ ~Passed(c, "seal") /\ WellSealed(Product(c))
           /\ job[c].op \in Rewriters => HandsDown(job[c], job[c].source, Product(c))
<1> DEFINE r == Route(job[c])
           n == at[c]
<1>1. /\ n \in 1..Len(r) /\ Len(r) \in Nat /\ r[n] = "seal" /\ RecordRoute(job[c], r)
      /\ status[c] = "running" /\ job[c].op \in AllOperations
  BY MovedRecording, WorkflowAssumption DEF JobOK
<1>2. job[c].op \notin Readers /\ n + 2 = Len(r)
  BY <1>1 DEF RecordRoute
<1>3. ~Passed(c, "seal")
  <2>1. \A i \in 1..(n - 1) : i \in 1..Len(r) /\ i + 2 # Len(r)
    BY <1>1, <1>2
  <2> QED BY <1>1, <2>1 DEF Passed, RecordRoute
<1>4. CASE job[c].op \in Makers
  BY <1>1, <1>3, <1>4, MadeWell, OperationKinds DEF TrustOK
<1>5. CASE job[c].op \in Rewriters
  <2>1. TrustRoute(job[c], r)
    BY <1>1, TrustRoutes
  <2>2. job[c].op \notin Makers
    BY <1>5, OperationKinds
  <2>3. Passed(c, "open")
    BY <1>1, <1>5, <2>1 DEF TrustRoute, Has, Passed
  <2>4. CheckingStep(job[c].op) = "manifest" => Passed(c, "manifest")
    BY <1>1, <1>5, <2>1 DEF TrustRoute, Has, Passed
  <2>5. CheckingStep(job[c].op) # "manifest" => ~Passed(c, "manifest")
    BY <1>1, <2>1 DEF TrustRoute, Has, Passed
  <2>6. SourceKnown(c) /\ SourceTrusted(c) /\ CarriedOver(c)
    BY <1>1, <1>3, <1>5, <2>2 DEF TrustOK
  <2>7. ContentTrusted(job[c].source) /\ work[c].plaintext = Ciphertext(job[c].source).msg
    BY <2>3, <2>6 DEF SourceTrusted
  <2> QED BY <1>3, <1>5, <2>4, <2>5, <2>6, <2>7, RewrittenWell
<1> QED BY <1>1, <1>2, <1>4, <1>5, OperationKinds

-----------------------------------------------------------------------------
(***************************************************************************)
(* Every step keeps the trust.                                             *)
(***************************************************************************)

\* Where a call stands, with what its route says of checking and sealing.
LEMMA MovedTrusting ==
    ASSUME TypeOK, NEW c \in Calls, NEW step, NEW locals, Trusts(c, step, locals)
    PROVE  /\ Goes(c, step, locals)
           /\ job' = job /\ work'[c] = locals /\ at'[c] = at[c] + 1
           /\ status[c] = "running" /\ held \subseteq held'
           /\ \A s : Passed(c, s)' <=> Passed(c, s) \/ step = s
           /\ job[c].op \in Makers => step # "manifest" /\ step # "open"
<1> DEFINE r == Route(job[c])
           n == at[c]
<1>1. Goes(c, step, locals)
  BY DEF Trusts
<1>2. /\ job' = job /\ work'[c] = locals /\ at'[c] = n + 1
      /\ n \in 1..Len(r) /\ Len(r) \in Nat /\ r[n] = step
      /\ status[c] = "running" /\ job[c].op \in AllOperations
  BY <1>1, MovedRecording, WorkflowAssumption DEF JobOK
<1>3. \A s : Passed(c, s)' <=> Passed(c, s) \/ step = s
  <2>1. 1..(n + 1 - 1) = 1..(n - 1) \cup {n}
    BY <1>2
  <2> QED BY <1>2, <2>1 DEF Passed
<1>4. job[c].op \in Makers => step # "manifest" /\ step # "open"
  BY <1>2, TrustRoutes DEF TrustRoute, Has
<1>5. held \subseteq held'
  BY <1>1 DEF Goes, Proceed
<1> QED BY <1>1, <1>2, <1>3, <1>4, <1>5

LEMMA SourceStaysTrusted ==
    ASSUME TypeOK, NEW c \in Calls, NEW step, NEW locals, Trusts(c, step, locals),
           SourceKnown(c), SourceTrusted(c), job[c].op \notin Makers
    PROVE  SourceKnown(c)' /\ SourceTrusted(c)'
<1> DEFINE a == job[c].source
<1>1. /\ Goes(c, step, locals)
      /\ job' = job /\ work'[c] = locals /\ held \subseteq held'
      /\ \A s : Passed(c, s)' <=> Passed(c, s) \/ step = s
  BY MovedTrusting
<1>2. SourceKnown(c)'
  BY <1>1 DEF SourceKnown
<1>3. Passed(c, "manifest")' => ManifestTrusted(a)
  <2>1. step = "manifest" => TdfManifestTrusted(ManifestKey(c), a)
    BY <1>1 DEF Goes
  <2> QED BY <1>1, <2>1, OpensUnderItsKey DEF SourceTrusted
<1>4. Passed(c, "open")' => ContentTrusted(a) /\ work'[c].plaintext = Ciphertext(a).msg
  <2>1. CASE step = "open"
    BY <1>1, <2>1 DEF Trusts
  <2>2. CASE step # "open"
    BY <1>1, <2>2 DEF Trusts, SourceTrusted
  <2> QED BY <2>1, <2>2
<1>5. Passed(c, "verify")' => SignatureTrusted(a)
  BY <1>1 DEF Trusts, SourceTrusted
<1> QED BY <1>1, <1>2, <1>3, <1>4, <1>5 DEF SourceTrusted

LEMMA CarriedOn ==
    ASSUME TypeOK, NEW c \in Calls, NEW step, NEW locals, Trusts(c, step, locals),
           CarriedOver(c), job[c].op \notin Makers
    PROVE  CarriedOver(c)'
<1>1. /\ Goes(c, step, locals)
      /\ job' = job /\ work'[c] = locals
      /\ \A s : Passed(c, s)' <=> Passed(c, s) \/ step = s
  BY MovedTrusting
<1>2. locals.digest = work[c].digest /\ locals.tenant = work[c].tenant
  BY <1>1 DEF Goes, Trusts
<1>3. CASE step = "manifest"
  <2>1. locals.desc = EditedManifest(job[c], job[c].source.manifest.msg)
    BY <1>1, <1>3 DEF Goes
  <2> QED BY <1>1, <1>2, <1>3, <2>1 DEF CarriedOver
<1>4. CASE step # "manifest"
  <2>1. locals.desc = work[c].desc
    BY <1>1, <1>4 DEF Goes
  <2>2. Passed(c, "manifest")' <=> Passed(c, "manifest")
    BY <1>1, <1>4
  <2> QED BY <1>1, <1>2, <2>1, <2>2 DEF CarriedOver
<1> QED BY <1>3, <1>4

LEMMA SealStays ==
    ASSUME TypeOK, NEW c \in Calls, NEW step, NEW locals, Trusts(c, step, locals),
           TrustOK(c), \A a \in held : WellSealed(a)
    PROVE  IF Passed(c, "seal")' THEN SealOK(c)' ELSE ~Sealed(c)'
<1>1. /\ Goes(c, step, locals)
      /\ job' = job /\ work'[c] = locals /\ status[c] = "running"
      /\ \A s : Passed(c, s)' <=> Passed(c, s) \/ step = s
  BY MovedTrusting
<1>2. CASE step = "seal"
  <2>1. locals.product = Product(c)
    BY <1>1, <1>2 DEF Goes
  <2>2. /\ WellSealed(Product(c))
        /\ job[c].op \in Rewriters => HandsDown(job[c], job[c].source, Product(c))
    BY <1>1, <1>2, SealsWell
  <2> QED BY <1>1, <1>2, <2>1, <2>2 DEF SealOK
<1>3. CASE step # "seal"
  <2>1. locals.product = work[c].product
    BY <1>1, <1>3 DEF Goes
  <2>2. IF Passed(c, "seal") THEN SealOK(c) ELSE ~Sealed(c)
    BY <1>1 DEF TrustOK
  <2>3. Passed(c, "seal")' <=> Passed(c, "seal")
    BY <1>1, <1>3
  <2> QED BY <1>1, <2>1, <2>2, <2>3 DEF SealOK, Sealed
<1> QED BY <1>2, <1>3

LEMMA TrustGoesOn ==
    ASSUME TypeOK, TrustInv, NEW c \in Calls, NEW step, NEW locals, Trusts(c, step, locals)
    PROVE  TrustOK(c)' /\ \A a \in held' : WellSealed(a)
<1>0. TrustOK(c) /\ \A a \in held : WellSealed(a)
  BY DEF TrustInv
<1>1. /\ Goes(c, step, locals)
      /\ job' = job /\ work'[c] = locals /\ status[c] = "running"
      /\ \A s : Passed(c, s)' <=> Passed(c, s) \/ step = s
      /\ job[c].op \in Makers => step # "manifest" /\ step # "open"
  BY MovedTrusting
<1>2. IF Passed(c, "seal")' THEN SealOK(c)' ELSE ~Sealed(c)'
  BY <1>0, SealStays
<1>3. job[c].op \in Makers => MadeAsAsked(c)'
  <2> SUFFICES ASSUME job[c].op \in Makers PROVE MadeAsAsked(c)'
    OBVIOUS
  <2>1. MadeAsAsked(c)
    BY <1>0, <1>1 DEF TrustOK
  <2>2. /\ locals.digest = work[c].digest /\ locals.desc = work[c].desc
        /\ locals.plaintext = work[c].plaintext
    BY <1>1 DEF Goes, Trusts
  <2> QED BY <1>1, <2>1, <2>2 DEF MadeAsAsked
<1>4. job[c].op \notin Makers => SourceKnown(c)' /\ SourceTrusted(c)'
  BY <1>0, <1>1, SourceStaysTrusted DEF TrustOK
<1>5. job[c].op \in Rewriters /\ ~Passed(c, "seal")' => CarriedOver(c)'
  BY <1>0, <1>1, CarriedOn, OperationKinds DEF TrustOK
<1>6. TrustOK(c)'
  BY <1>1, <1>2, <1>3, <1>4, <1>5 DEF TrustOK
<1>7. \A a \in held' : WellSealed(a)
  <2>1. held' \subseteq held \cup {locals.product}
    BY <1>1 DEF Goes, Proceed
  <2>2. held' = held \/ locals.product # NoArtifact
    BY <1>1 DEF Goes, Proceed
  <2>3. locals.product # NoArtifact => WellSealed(locals.product)
    BY <1>1, <1>2 DEF Sealed, SealOK
  <2> QED BY <1>0, <2>1, <2>2, <2>3
<1> QED BY <1>6, <1>7

\* A call that a step does not touch.
LEMMA OtherTrusted ==
    ASSUME NEW d, TrustOK(d), held \subseteq held',
           UNCHANGED <<status[d], job[d], at[d], work[d]>>
    PROVE  TrustOK(d)'
<1>1. \A s : Passed(d, s)' <=> Passed(d, s)
  BY DEF Passed
<1>2. SourceKnown(d) => SourceKnown(d)'
  BY DEF SourceKnown
<1>3. SourceTrusted(d) => SourceTrusted(d)'
  BY <1>1 DEF SourceTrusted
<1>4. CarriedOver(d) => CarriedOver(d)'
  BY <1>1 DEF CarriedOver
<1>5. (MadeAsAsked(d) => MadeAsAsked(d)') /\ (SealOK(d) => SealOK(d)') /\ (Sealed(d)' <=> Sealed(d))
  BY DEF MadeAsAsked, SealOK, Sealed
<1> QED BY <1>1, <1>2, <1>3, <1>4, <1>5 DEF TrustOK

LEMMA OthersTrusted ==
    ASSUME TypeOK, TrustInv, NEW c \in Calls,
           Fail(c) \/ (\E j, locals : Begin(c, j, locals)) \/ (\E locals : Proceed(c, locals)),
           TrustOK(c)', \A a \in held' : WellSealed(a)
    PROVE  TrustInv'
<1>1. held \subseteq held'
  BY DEF Fail, Begin, Proceed
<1>2. ASSUME NEW d \in Calls \ {c} PROVE TrustOK(d)'
  <2>1. UNCHANGED <<status[d], job[d], at[d], work[d]>>
    BY OthersUntouched
  <2> QED BY <1>1, <2>1, OtherTrusted DEF TrustInv
<1> QED BY <1>2 DEF TrustInv

LEMMA FailTrusted ==
    ASSUME TypeOK, TrustInv, NEW c \in Calls, Fail(c)
    PROVE  TrustInv'
<1>1. status'[c] = "failed" /\ held' = held
  BY DEF Fail, TypeOK, CallsTyped
<1>2. TrustOK(c)'
  BY <1>1 DEF TrustOK
<1> QED BY <1>1, <1>2, OthersTrusted DEF TrustInv

\* A call that begins has checked nothing.
LEMMA BeginTrusted ==
    ASSUME TypeOK, TrustInv, NEW c \in Calls, NEW j, NEW locals, Begin(c, j, locals),
           locals.product = NoArtifact,
           j.op \in Makers => locals.digest = Sha256(locals.plaintext)
                              /\ locals.desc \in Descriptions,
           j.op \notin Makers =>
               /\ \E a \in held : j.source = a \/ j.source \in DamagedCopies(a)
               /\ j.source.artifact_profile = Profile(j.op)
               /\ locals.digest = j.source.content_digest
               /\ locals.tenant = j.source.tenant_id
               /\ locals.desc = InitialDescription(j.source)
    PROVE  TrustInv'
<1>1. job'[c] = j /\ work'[c] = locals /\ at'[c] = 1 /\ held' = held
  BY DEF Begin, TypeOK, CallsTyped
<1>2. \A s : ~Passed(c, s)'
  BY <1>1 DEF Passed
<1>3. ~Sealed(c)'
  BY <1>1 DEF Sealed
<1>4. j.op \in Makers => MadeAsAsked(c)'
  BY <1>1 DEF MadeAsAsked
<1>5. j.op \notin Makers => SourceKnown(c)' /\ SourceTrusted(c)' /\ CarriedOver(c)'
  BY <1>1, <1>2 DEF SourceKnown, SourceTrusted, CarriedOver
<1>6. TrustOK(c)'
  BY <1>1, <1>2, <1>3, <1>4, <1>5, OperationKinds DEF TrustOK
<1> QED BY <1>1, <1>6, OthersTrusted DEF TrustInv

LEMMA StoredIsKnown ==
    ASSUME NEW a \in Stored
    PROVE  \E b \in held : a = b \/ a \in DamagedCopies(b)
BY DEF Stored

\* What a reading or rewriting call starts from.
LEMMA OpeningFields ==
    ASSUME NEW a, NEW content
    PROVE  /\ OpeningLocals(a).digest = a.content_digest
           /\ OpeningLocals(a).tenant = a.tenant_id
           /\ OpeningLocals(a).desc = InitialDescription(a)
           /\ OpeningLocals(a).product = NoArtifact
           /\ [OpeningLocals(a) EXCEPT !.plaintext = content].digest = a.content_digest
           /\ [OpeningLocals(a) EXCEPT !.plaintext = content].tenant = a.tenant_id
           /\ [OpeningLocals(a) EXCEPT !.plaintext = content].desc = InitialDescription(a)
           /\ [OpeningLocals(a) EXCEPT !.plaintext = content].product = NoArtifact
<1>1. NoWork.product = NoArtifact
  BY DEF NoWork
<1> DEFINE first == InitialDescription(a)
<1> HIDE DEF first
<1>2. OpeningLocals(a) = [NoWork EXCEPT !.desc = first, !.tenant = a.tenant_id,
                                        !.digest = a.content_digest]
  BY DEF OpeningLocals, first
<1> QED BY <1>1, <1>2 DEF NoWork, first

LEMMA BeginCallTrusted ==
    ASSUME TypeOK, TrustInv, NEW c \in Calls, BeginCall(c)
    PROVE  TrustInv'
<1>1. CASE BeginMaking(c)
  <2>1. PICK op \in Operations \cap Makers, content \in Contents, desc \in Descriptions,
             key \in KeySource :
          Begin(c, [op |-> op, new |-> key],
                [NoWork EXCEPT !.desc = desc, !.digest = Sha256(content), !.plaintext = content])
    BY <1>1 DEF BeginMaking
  <2> DEFINE j == [op |-> op, new |-> key]
             digest == Sha256(content)
             locals == [NoWork EXCEPT !.desc = desc, !.digest = digest, !.plaintext = content]
  <2>2. /\ locals.product = NoArtifact /\ locals.digest = digest
        /\ locals.plaintext = content /\ locals.desc = desc
    <3> HIDE DEF digest
    <3> QED BY DEF NoWork
  <2>3. j.op \in Makers
    OBVIOUS
  <2>4. Begin(c, j, locals)
    BY <2>1
  <2> HIDE DEF j, locals
  <2> QED BY <2>2, <2>3, <2>4, BeginTrusted
<1>2. CASE BeginReading(c)
  <2>0. PICK op \in Operations \cap Readers, a \in Stored, key \in KeySource :
          \E content :
            /\ SourceAccepted(op, key, content, a)
            /\ Begin(c, [op |-> op, source |-> a, current |-> key],
                     [OpeningLocals(a) EXCEPT !.plaintext = content])
    BY <1>2 DEF BeginReading
  <2>1. PICK content :
          /\ SourceAccepted(op, key, content, a)
          /\ Begin(c, [op |-> op, source |-> a, current |-> key],
                   [OpeningLocals(a) EXCEPT !.plaintext = content])
    BY <2>0
  <2> DEFINE j == [op |-> op, source |-> a, current |-> key]
             locals == [OpeningLocals(a) EXCEPT !.plaintext = content]
  <2>2. /\ j.op \notin Makers /\ j.source = a
        /\ a.artifact_profile = Profile(j.op)
    BY <2>1, OperationKinds DEF SourceAccepted
  <2>3. /\ locals.product = NoArtifact /\ locals.digest = a.content_digest
        /\ locals.tenant = a.tenant_id /\ locals.desc = InitialDescription(a)
    BY OpeningFields
  <2>4. Begin(c, j, locals)
    BY <2>1
  <2>5. \E b \in held : a = b \/ a \in DamagedCopies(b)
    BY StoredIsKnown
  <2> HIDE DEF j, locals
  <2> QED BY <2>2, <2>3, <2>4, <2>5, BeginTrusted
<1>3. CASE BeginRewriting(c)
  <2>0. PICK op \in Operations \cap Rewriters, a \in Stored, current \in KeySource :
          \E new, edit :
            /\ SourceAccepted(op, current, "none", a)
            /\ Begin(c, [op |-> op, source |-> a, current |-> current,
                         new |-> new, edit |-> edit], OpeningLocals(a))
    BY <1>3 DEF BeginRewriting
  <2>1. PICK new, edit :
          /\ SourceAccepted(op, current, "none", a)
          /\ Begin(c, [op |-> op, source |-> a, current |-> current,
                       new |-> new, edit |-> edit], OpeningLocals(a))
    BY <2>0
  <2> DEFINE j == [op |-> op, source |-> a, current |-> current, new |-> new, edit |-> edit]
             locals == OpeningLocals(a)
  <2>2. /\ j.op \notin Makers /\ j.source = a
        /\ a.artifact_profile = Profile(j.op)
    BY <2>1, OperationKinds DEF SourceAccepted
  <2>3. /\ locals.product = NoArtifact /\ locals.digest = a.content_digest
        /\ locals.tenant = a.tenant_id /\ locals.desc = InitialDescription(a)
    BY OpeningFields
  <2>4. Begin(c, j, locals)
    BY <2>1
  <2>5. \E b \in held : a = b \/ a \in DamagedCopies(b)
    BY StoredIsKnown
  <2> HIDE DEF j, locals
  <2> QED BY <2>2, <2>3, <2>4, <2>5, BeginTrusted
<1>4. CASE RejectSource(c)
  BY <1>4, FailTrusted DEF RejectSource
<1> QED BY <1>1, <1>2, <1>3, <1>4 DEF BeginCall

LEMMA CallTrusted ==
    ASSUME TypeOK, TrustInv, NEW c \in Calls, AskPlatform(c) \/ ComputeLocally(c)
    PROVE  TrustInv'
<1>1. CASE Fail(c)
  BY <1>1, FailTrusted
<1>2. CASE ~Fail(c)
  <2>1. PICK step, locals : Goes(c, step, locals)
    BY <1>2, AskPlatformGoesOn, ComputeLocallyGoesOn DEF GoesOn
  <2>2. Trusts(c, step, locals)
    BY <2>1, AskPlatformTrusts, ComputeLocallyTrusts
  <2>3. TrustOK(c)' /\ \A a \in held' : WellSealed(a)
    BY <2>2, TrustGoesOn
  <2>4. Proceed(c, locals)
    BY <2>1 DEF Goes
  <2> QED BY <2>3, <2>4, OthersTrusted
<1> QED BY <1>1, <1>2

LEMMA TrustStep == TypeOK /\ TrustInv /\ [Next]_vars => TrustInv'
<1> SUFFICES ASSUME TypeOK, TrustInv, [Next]_vars PROVE TrustInv'
  OBVIOUS
<1>1. ASSUME NEW c \in Calls, ConnectionFails(c) PROVE TrustInv'
  BY <1>1, FailTrusted DEF ConnectionFails
<1>2. ASSUME UNCHANGED callVars PROVE TrustInv'
  <2>1. ASSUME NEW c \in Calls PROVE TrustOK(c)'
    BY <1>2, OtherTrusted DEF callVars, TrustInv
  <2> QED BY <1>2, <2>1 DEF callVars, TrustInv
<1>3. CASE UNCHANGED vars
  BY <1>2, <1>3 DEF vars, callVars
<1>4. ASSUME NEW ref \in ManagedRefs, RotateKey(ref) PROVE TrustInv'
  BY <1>2, <1>4 DEF RotateKey
<1> QED BY <1>1, <1>3, <1>4, BeginCallTrusted, CallTrusted DEF Next

LEMMA TrustInit == Init => TrustInv
BY ContentAssumption DEF Init, TrustInv, TrustOK

LEMMA TrustAlways == Spec => [](TypeOK /\ TrustInv)
<1>1. Init => TypeOK /\ TrustInv
  BY TypeInit, TrustInit
<1>2. TypeOK /\ TrustInv /\ [Next]_vars => TypeOK' /\ TrustInv'
  BY TypeStep, TrustStep
<1> QED BY <1>1, <1>2, PTL DEF Spec

-----------------------------------------------------------------------------
(***************************************************************************)
(* What callers can rely on.                                               *)
(***************************************************************************)

\* An artifact as it was sealed passes every check under the key that seals it.
LEMMA WellSealedOpens ==
    ASSUME NEW a, WellSealed(a)
    PROVE  IF a.artifact_profile = "detached_signature"
           THEN SignatureVerifies(a.signer, a)
           ELSE /\ Opens(SealingKey(a), a)
                /\ Sha256(Ciphertext(a).msg) = a.content_digest
                /\ a.artifact_profile = "tdf" => TdfManifestTrusted(SealingKey(a), a)
<1>1. CASE a.artifact_profile = "envelope"
  <2>1. Ciphertext(a) = a.ciphertext /\ SealingKey(a) = a.ciphertext.key
    BY <1>1 DEF Ciphertext, SealingKey
  <2>2. EnvelopeOpens(a.ciphertext.key, a)
    BY <1>1, EnvelopeInside DEF EnvelopeOpens, BindingMatches, Decrypts
  <2> QED BY <1>1, <2>1, <2>2, EnvelopeInside DEF Opens
<1>2. CASE a.artifact_profile = "tdf"
  <2>1. Ciphertext(a) = a.payload /\ SealingKey(a) = a.payload.key
    BY <1>2 DEF Ciphertext, SealingKey
  <2>2. TdfPayloadOpens(a.payload.key, a)
    BY <1>2, TdfInside DEF TdfPayloadOpens, Decrypts
  <2>3. TdfManifestTrusted(a.payload.key, a)
    BY <1>2, TdfInside DEF TdfManifestTrusted, TdfManifestOpens, BindingMatches, Decrypts
  <2> QED BY <1>2, <2>1, <2>2, <2>3, TdfInside DEF Opens
<1>3. CASE a.artifact_profile = "detached_signature"
  BY <1>3, SignatureInside DEF SignatureVerifies, BindingMatches
<1> QED BY <1>1, <1>2, <1>3, SealedCases

\* ReturnedArtifactsOpen, whatever tenants, targets, modes and rotations the calls met:
\* an artifact the SDK returned opens under its sealing key and yields the content it is
\* named after.
THEOREM ReturnsOpen == Spec => []ReturnedArtifactsOpen
<1>1. TrustInv => ReturnedArtifactsOpen
  <2> SUFFICES ASSUME TrustInv, NEW a \in held
               PROVE  IF a.artifact_profile = "detached_signature"
                      THEN SignatureVerifies(a.signer, a)
                      ELSE /\ Opens(SealingKey(a), a)
                           /\ Sha256(Ciphertext(a).msg) = a.content_digest
                           /\ a.artifact_profile = "tdf" => TdfManifestTrusted(SealingKey(a), a)
    BY DEF ReturnedArtifactsOpen
  <2> QED BY WellSealedOpens DEF TrustInv
<1> QED BY <1>1, TrustAlways, PTL

\* A call that returned has been down its whole route.
LEMMA ReturnedPassed ==
    ASSUME TypeOK, NEW c \in Calls, Returned(c)
    PROVE  /\ JobOK(job[c]) /\ job[c].op \in AllOperations
           /\ \A step : Has(Route(job[c]), Len(Route(job[c])), step) => Passed(c, step)
<1>1. /\ JobOK(job[c]) /\ at[c] = Len(Route(job[c])) + 1 /\ at[c] \in Nat
  BY DEF TypeOK, CallsTyped, CallOK, Returned
<1>2. job[c].op \in AllOperations
  BY <1>1, WorkflowAssumption DEF JobOK
<1>3. Len(Route(job[c])) \in Nat
  BY <1>1, <1>2, RouteFacts DEF JobOK, RouteOK
<1>4. at[c] - 1 = Len(Route(job[c]))
  BY <1>1, <1>3
<1> QED BY <1>1, <1>2, <1>4 DEF Has, Passed

LEMMA ReturnsChecked ==
    ASSUME TypeOK, TrustInv, NEW c \in Calls, Returned(c), job[c].op \notin Makers
    PROVE  \E b \in held : AsSealed(b, job[c].source)
<1> DEFINE a == job[c].source
<1>1. SourceKnown(c) /\ SourceTrusted(c) /\ (\A b \in held : WellSealed(b))
  BY DEF TrustInv, TrustOK, Returned
<1>2. PICK b \in held :
        /\ WellSealed(b) /\ (a = b \/ a \in DamagedCopies(b))
        /\ b.artifact_profile = a.artifact_profile
        /\ b.artifact_profile \in {"envelope", "tdf", "detached_signature"}
  BY <1>1, SourceInside
<1>3. Passed(c, CheckingStep(job[c].op)) /\ job[c].op \in AllOperations
  BY ReturnedPassed, TrustRoutes DEF TrustRoute
<1>4. a.artifact_profile = Profile(job[c].op)
  BY <1>1 DEF SourceKnown
<1>5. CASE job[c].op \in {"access_envelope", "rewrap_envelope"}
  <2>1. Profile(job[c].op) = "envelope"
    BY <1>5, ProfilesOfReaders, Profiles
  <2>2. Opens(Ciphertext(a).key, a)
    BY <1>1, <1>3, <1>5, CheckingSteps DEF SourceTrusted, ContentTrusted
  <2>3. EnvelopeOpens(Ciphertext(a).key, a)
    BY <1>4, <2>1, <2>2 DEF Opens
  <2>4. a = b /\ b.artifact_profile # "tdf"
    BY <1>2, <1>4, <2>1, <2>3, EnvelopeDamageShows
  <2> QED BY <2>4 DEF AsSealed
<1>6. CASE job[c].op = "verify"
  <2>1. Profile(job[c].op) = "detached_signature"
    BY <1>6, ProfilesOfReaders
  <2>2. SignatureVerifies(a.signer, a)
    BY <1>1, <1>3, <1>6, CheckingSteps DEF SourceTrusted, SignatureTrusted
  <2>3. a = b /\ b.artifact_profile # "tdf"
    BY <1>2, <1>4, <2>1, <2>2, SignatureDamageShows
  <2> QED BY <2>3 DEF AsSealed
<1>7. CASE job[c].op \in Editors \cup {"access_tdf", "rewrap_tdf"}
  <2>1. Profile(job[c].op) = "tdf"
    BY <1>7, ProfilesOfReaders, Profiles DEF Editors
  <2>2. TdfManifestTrusted(a.manifest.key, a)
    BY <1>1, <1>3, <1>7, CheckingSteps DEF SourceTrusted, ManifestTrusted
  <2>3. Passed(c, "open")
    BY <1>3, <1>7, ReturnedPassed, TrustRoutes, CheckingSteps DEF TrustRoute
  <2>4. TdfPayloadOpens(Ciphertext(a).key, a)
    BY <1>1, <1>4, <2>1, <2>3 DEF SourceTrusted, ContentTrusted, Opens
  <2> QED BY <1>2, <1>4, <2>1, <2>2, <2>4, TdfDamageShows
<1> QED BY <1>3, <1>5, <1>6, <1>7, OperationKinds DEF Readers, Rewriters

\* DamageIsDetected, whichever field storage changed and whatever the platform answered:
\* what a call opened, verified or rewrapped is an artifact as it was sealed, a TDF's
\* meta_version and the presence of its policy context apart.
THEOREM DamagedArtifactsAreRefused == Spec => []DamageIsDetected
<1>1. TypeOK /\ TrustInv => DamageIsDetected
  BY ReturnsChecked DEF DamageIsDetected
<1> QED BY <1>1, TrustAlways, PTL

\* What a rewriting call returned was handed down.
LEMMA ReturnsHandedDown ==
    ASSUME TypeOK, TrustInv, NEW c \in Calls, Returned(c), job[c].op \in Rewriters
    PROVE  HandsDown(job[c], job[c].source, work[c].product)
<1>1. Passed(c, "seal")
  BY ReturnedPassed, TrustRoutes DEF TrustRoute
<1> QED BY <1>1 DEF TrustInv, TrustOK, SealOK, Returned

\* LineageKept, for any number of rewraps and edits: tenant, content and resource are
\* handed down.
THEOREM LineagesAreKept == Spec => []LineageKept
<1>1. TypeOK /\ TrustInv => LineageKept
  BY ReturnsHandedDown DEF LineageKept, Derived, HandsDown
<1> QED BY <1>1, TrustAlways, PTL

-----------------------------------------------------------------------------
(***************************************************************************)
(* Versions along a lineage, however long.                                 *)
(***************************************************************************)

\* A set of naturals has a least member.
LEMMA LeastNatural ==
    ASSUME NEW T, T \subseteq Nat, T # {}
    PROVE  \E m \in T : \A k \in T : m <= k
<1> DEFINE R == {ss \in Nat \X Nat : ss[1] < ss[2]}
<1>1. R = OpToRel(<, Nat)
  BY DEF OpToRel
<1>2. IsWellFoundedOn(R, Nat)
  BY <1>1, NatLessThanWellFounded
<1>3. ASSUME NEW i \in Nat, NEW j \in Nat, i < j PROVE <<i, j>> \in R
  BY <1>3
<1> HIDE DEF R
<1>4. PICK m \in T : \A k \in T : <<k, m>> \notin R
  BY <1>2, WFMin
<1>5. ASSUME NEW k \in T PROVE m <= k
  <2>1. k \in Nat /\ m \in Nat
    OBVIOUS
  <2>2. ~(k < m)
    BY <1>3, <1>4, <2>1
  <2> QED BY <2>1, <2>2
<1> QED BY <1>5

\* A version never falls, and rises below the limit when the manifest may change.
Inherits(a, b) ==
    a.artifact_profile = "tdf" =>
        /\ b.artifact_profile = "tdf"
        /\ a.meta_version \in Nat /\ b.meta_version \in Nat
        /\ a.meta_version <= b.meta_version
        /\ a.meta_version = b.meta_version /\ a.meta_version < MaxMetaVersion =>
              Description(a) = Description(b)

LEMMA InheritsOn ==
    ASSUME NEW a, NEW b, NEW d, Inherits(a, b), Inherits(b, d)
    PROVE  Inherits(a, d)
BY MetaVersionAssumption DEF Inherits

LEMMA HandedDownInherits ==
    ASSUME NEW j, NEW a, NEW b, HandsDown(j, a, b), j.op \in Rewriters,
           a.artifact_profile = "tdf" => j.op # "rewrap_envelope", j.source = a
    PROVE  Inherits(a, b)
<1> SUFFICES ASSUME a.artifact_profile = "tdf" PROVE Inherits(a, b)
  BY DEF Inherits
<1>1. /\ b.artifact_profile = "tdf" /\ a.meta_version \in 0..MaxMetaVersion
      /\ b.meta_version = MetaVersion(j)
      /\ j.op \notin Editors => Description(b) = Description(a)
  BY DEF HandsDown
<1>2. CASE j.op \in Editors
  <2>1. MetaVersion(j) = SaturatingIncrement(a.meta_version)
    BY <1>2 DEF MetaVersion, Editors
  <2> QED BY <1>1, <2>1, MetaVersionAssumption DEF Inherits, SaturatingIncrement
<1>3. CASE j.op = "rewrap_tdf"
  <2>1. MetaVersion(j) = a.meta_version
    BY <1>3 DEF MetaVersion, Editors
  <2>2. j.op \notin Editors
    BY <1>3 DEF Editors
  <2> QED BY <1>1, <2>1, <2>2, MetaVersionAssumption DEF Inherits
<1> QED BY <1>2, <1>3 DEF Rewriters, Editors

LEMMA DerivedInherits ==
    ASSUME TypeOK, TrustInv, NEW a, NEW b, <<a, b>> \in Derived
    PROVE  Inherits(a, b)
<1>1. PICK c \in Calls : /\ Returned(c) /\ job[c].op \in Rewriters
                         /\ a = job[c].source /\ b = work[c].product
  BY DEF Derived
<1>2. HandsDown(job[c], a, b)
  BY <1>1, ReturnsHandedDown
<1>3. a.artifact_profile = Profile(job[c].op)
  BY <1>1, OperationKinds DEF TrustInv, TrustOK, Returned, SourceKnown
<1>4. a.artifact_profile = "tdf" => job[c].op # "rewrap_envelope"
  BY <1>3, Profiles
<1> QED BY <1>1, <1>2, <1>4, HandedDownInherits

\* By the shortest part of a chain that does not inherit.
LEMMA ChainsInherit ==
    ASSUME TypeOK, TrustInv, NEW n \in Nat, n >= 2, NEW p, Chain(p, n)
    PROVE  Inherits(p[1], p[n])
<1> DEFINE T == {k \in Nat : k \in 2..n /\ ~Inherits(p[1], p[k])}
<1> SUFFICES ASSUME T # {} PROVE FALSE
  OBVIOUS
<1>1. PICK m \in T : \A k \in T : m <= k
  BY LeastNatural
<1>2. m \in 2..n /\ ~Inherits(p[1], p[m])
  BY <1>1
<1>3. \A i \in 1..(n - 1) : Inherits(p[i], p[i + 1])
  BY DerivedInherits DEF Chain
<1>4. m - 1 \in 1..(n - 1) /\ m - 1 + 1 = m
  BY <1>2
<1>5. Inherits(p[m - 1], p[m])
  BY <1>3, <1>4
<1>6. CASE m = 2
  BY <1>2, <1>5, <1>6
<1>7. CASE m # 2
  <2>1. m - 1 \in Nat /\ m - 1 \in 2..n /\ ~(m <= m - 1)
    BY <1>2, <1>7
  <2>2. Inherits(p[1], p[m - 1])
    BY <1>1, <2>1
  <2> QED BY <1>2, <1>5, <2>2, InheritsOn
<1> QED BY <1>6, <1>7

\* MetaVersionNamesManifest, along lineages of any length: below saturation an artifact
\* and a descendant with the same meta_version have the same manifest.
THEOREM VersionsNameManifests == Spec => []MetaVersionNamesManifest
<1>1. TypeOK /\ TrustInv => MetaVersionNamesManifest
  <2> SUFFICES ASSUME TypeOK, TrustInv, NEW n \in 2..(Cardinality(Calls) + 1),
                      NEW p \in [1..n -> Relatives], Chain(p, n)
               PROVE  VersionNamesManifest(p[1], p[n])
    BY DEF MetaVersionNamesManifest
  <2>1. n \in Nat /\ n >= 2
    OBVIOUS
  <2>2. Inherits(p[1], p[n])
    BY <2>1, ChainsInherit
  <2> QED BY <2>2 DEF Inherits, VersionNamesManifest
<1> QED BY <1>1, TrustAlways, PTL

=============================================================================
