-------------------------- MODULE LocalProperties --------------------------
(***************************************************************************)
(* What the local workflows promise their callers and the platform.        *)
(***************************************************************************)
EXTENDS LocalWorkflow, FiniteSets

Returned(c) == status[c] = "returned"
Sealed(c)   == work[c].product # NoArtifact

-----------------------------------------------------------------------------
(***************************************************************************)
(* Types.                                                                  *)
(***************************************************************************)

WorkOK(w) ==
    /\ w = [desc |-> w.desc, tenant |-> w.tenant, digest |-> w.digest,
            targets |-> w.targets, mode |-> w.mode, current |-> w.current,
            new |-> w.new, plaintext |-> w.plaintext, product |-> w.product]
    /\ w.mode \in KeyTransportMode \cup {"absent"}
    /\ w.current \in Key \cup {NoKey}
    /\ w.new \in Key \cup {NoKey}

JobOK(j) ==
    /\ j.op \in Operations
    /\ j.op \in Makers \cup Rewriters  => j.new \in KeySource
    /\ j.op \in Readers \cup Rewriters => j.current \in KeySource

CallOK(c) ==
    /\ WorkOK(work[c])
    /\ IF status[c] \in {"running", "returned"} THEN JobOK(job[c])
                                               ELSE job[c] = NoJob /\ work[c] = NoWork
    /\ status[c] = "running"  => at[c] \in 1..Len(Route(job[c]))
    /\ status[c] = "returned" => at[c] = Len(Route(job[c])) + 1

CallsTyped ==
    /\ status \in [Calls -> {"idle", "running", "returned", "failed"}]
    /\ at \in [Calls -> Nat]
    /\ DOMAIN job = Calls
    /\ DOMAIN work = Calls
    /\ \A c \in Calls : CallOK(c)

PlatformTyped ==
    /\ keystore \in [ManagedRefs -> 0..MaxRotations]
    /\ \A g \in grants : g.call \in Calls
    /\ objected \subseteq Calls

\* The type invariant: a call that runs or returned has the keys its operation
\* takes and a position on its route (one past the end once it returned), any
\* other call has dropped its arguments, keys and plaintext, and the provider's
\* versions stay within the bound.
TypeOK == CallsTyped /\ PlatformTyped

-----------------------------------------------------------------------------
(***************************************************************************)
(* Safety.                                                                 *)
(***************************************************************************)

Granted(c, kind, operation, desc, digest) ==
    \E g \in grants :
        /\ g.call = c /\ g.ask = kind /\ g.operation = operation
        /\ g.about = desc /\ g.digest = digest

\* Plaintext, or the verdict on a signature, is handed to a caller only if for
\* this very call the platform allowed the access and the key operation for the
\* description that is really bound to the artifact, and holds evidence of the
\* access to exactly these bytes.  (access_* and verify_*.)
ReleaseIsAuthorised ==
    \A c \in Calls : Returned(c) /\ job[c].op \in Readers =>
        LET a == job[c].source IN
        /\ Granted(c, "policy", "access", Description(a), a.content_digest)
        /\ Granted(c, "key_plan", "unwrap", Description(a), a.content_digest)
        /\ [event |-> "access", digest |-> Sha256(a), about |-> Description(a)] \in ledger

\* Whatever a call seals, the platform allowed in that call under exactly the
\* description and content digest that are sealed: after an attribute edit, the
\* edited manifest.  (protect_*, rewrap_*, *_tdf_attributes, sign_*.)
SealedAsAuthorised ==
    \A c \in Calls : Sealed(c) =>
        LET a  == work[c].product
            op == job[c].op
        IN  /\ Granted(c, "policy", PolicyOperation(op), Description(a), a.content_digest)
            /\ Granted(c, "plan", PolicyOperation(op), Description(a), a.content_digest)
            /\ Granted(c, "key_plan", KeyOperation(op), Description(a), a.content_digest)

SealingKey(a) ==
    IF a.artifact_profile = "detached_signature" THEN InlineKey(a.signer)
                                                 ELSE Ciphertext(a).key

\* An artifact in a caller's hands is in the catalog under the reference of the
\* key that seals it (after a rewrap the new one) and evidenced as what it is.
CustodyRecorded ==
    \A a \in held \ InitialArtifacts :
        \E r \in catalog, e \in ledger :
            /\ r.digest = Sha256(a) /\ e.digest = Sha256(a)
            /\ r.operation = e.event
            /\ r.about = Description(a) /\ e.about = Description(a)
            /\ r.key_reference = IF SealingKey(a).name \in ManagedRefs
                                 THEN SealingKey(a).name
                                 ELSE DefaultKeyReference(a.artifact_profile)

\* Evidence that something was protected or rewrapped never precedes, nor
\* outlives, its registration: a call that fails in between leaves an artifact
\* registered and unevidenced, never the reverse.
EvidenceFollowsRegistration ==
    \A e \in ledger : e.event \in {"protect", "rewrap"} =>
        \E r \in catalog : r.digest = e.digest /\ r.operation = e.event

\* Every artifact the SDK returned passes the SDK's own checks under its sealing
\* key and yields the content it is named after, whatever tenant, targets,
\* transport mode and key rotation its call met.
ReturnedArtifactsOpen ==
    \A a \in held :
        IF a.artifact_profile = "detached_signature"
        THEN SignatureVerifies(a.signer, a)
        ELSE /\ Opens(SealingKey(a), a)
             /\ Sha256(Ciphertext(a).msg) = a.content_digest
             /\ a.artifact_profile = "tdf" => TdfManifestTrusted(SealingKey(a), a)

\* Every field is authenticated but two of a TDF's: neither its associated data
\* (TdfAadBinding) nor its binding hash (LocalArtifactBindingPayload) covers
\* meta_version, and a policy context is compared with the manifest only where there
\* is one.
AsSealed(a, b) ==
    /\ DOMAIN b = DOMAIN a
    /\ \A field \in DOMAIN a \ {"meta_version", "policy_context"} : b[field] = a[field]
    /\ a.artifact_profile = "tdf" => b.policy_context \subseteq {Description(a)}

\* What a call opened, verified or rewrapped is, field by field, an artifact that was
\* sealed: a changed one is never served, except for a TDF's meta_version, which nothing
\* authenticates, and for a policy context that is missing or given again.
DamageIsDetected ==
    \A c \in Calls : Returned(c) /\ job[c].op \notin Makers =>
        \E a \in held : AsSealed(a, job[c].source)

\* The artifacts a caller derives from one another.
Derived ==
    {<<job[c].source, work[c].product>> :
        c \in {d \in Calls : Returned(d) /\ job[d].op \in Rewriters}}

\* Along any chain of rewraps and edits the tenant, the content and everything
\* an attribute edit does not name stay those of the first artifact, even if the
\* platform reports another tenant for the caller that rewraps.
LineageKept ==
    \A d \in Derived :
        /\ d[2].tenant_id = d[1].tenant_id
        /\ d[2].content_digest = d[1].content_digest
        /\ Ciphertext(d[2]).msg = Ciphertext(d[1]).msg
        /\ Description(d[2]).resource = Description(d[1]).resource

\* A path of n artifacts, each derived from the one before it.
Chain(p, n) == \A i \in 1..(n - 1) : <<p[i], p[i + 1]>> \in Derived

Relatives == {d[1] : d \in Derived} \cup {d[2] : d \in Derived}

VersionNamesManifest(a, descendant) ==
    /\ a.artifact_profile = "tdf"
    /\ a.meta_version = descendant.meta_version
    /\ a.meta_version < MaxMetaVersion
    => Description(a) = Description(descendant)

\* Below saturation meta_version tells the manifests of one lineage apart: an
\* artifact and a descendant with the same meta_version have the same manifest.
\* (Two edits of the same artifact are siblings and may share a meta_version.)
MetaVersionNamesManifest ==
    \A n \in 2..(Cardinality(Calls) + 1) : \A p \in [1..n -> Relatives] :
        Chain(p, n) => VersionNamesManifest(p[1], p[n])

\* A call that got an answer under which plaintext or raw keys could leave, or
\* enforcement would not be local, ends with an error (README.md:45).
FailsClosed == \A c \in objected : status[c] = "failed"

-----------------------------------------------------------------------------
(***************************************************************************)
(* Liveness.                                                               *)
(***************************************************************************)

\* ClientBuilder::with_timeout_secs: a remote step is answered or fails.  Local
\* steps run on the caller's thread, and a key provider returns (the in-memory one
\* does; nothing bounds the time a provider command takes).
FairSpec ==
    Spec /\ \A c \in Calls : WF_vars(ComputeLocally(c)) /\ WF_vars(ConnectionFails(c))

\* No call hangs: whatever the platform does, each ends with Ok or Err.
CallsEnd == \A c \in Calls : status[c] = "running" ~> status[c] \in {"returned", "failed"}

=============================================================================
