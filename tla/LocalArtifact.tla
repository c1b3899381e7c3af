--------------------------- MODULE LocalArtifact ---------------------------
(***************************************************************************)
(* The protected artifacts of src/src/local.rs: how an envelope, a TDF and *)
(* a detached signature are built from a content binding, a description    *)
(* and a key, and under which conditions the SDK opens or verifies one.    *)
(*                                                                         *)
(* Cryptography is symbolic.  SHA-256 is injective, a ciphertext records   *)
(* the key, nonce, associated data and message it was made from and opens  *)
(* only under that key and that associated data, a signature records its   *)
(* signer and the bytes it covers.                                         *)
(*                                                                         *)
(* A description (a record with a resource and attributes) stands for the  *)
(* workload, resource, purpose, labels and attributes of a                 *)
(* LocalProtectionRequest: `resource' is everything an attribute edit      *)
(* leaves alone.  raw_cid and content_size_bytes are functions of the      *)
(* content, as content_digest is, and are represented by it.               *)
(***************************************************************************)
EXTENDS Naturals

CONSTANT MaxMetaVersion      \* u64::MAX, where saturating_add stops

ASSUME MetaVersionAssumption == MaxMetaVersion \in Nat \ {0}

(***************************************************************************)
(* Primitives.                                                             *)
(***************************************************************************)

Sha256(bytes) == <<"sha256", bytes>>

\* Aes256Gcm::encrypt and what Aes256Gcm::decrypt requires.
Aes256Gcm(key, nonce, aad, msg) ==
    [key |-> key, nonce |-> nonce, aad |-> aad, msg |-> msg]

Decrypts(key, aad, ciphertext) ==
    /\ ciphertext.key = key
    /\ ciphertext.aad = aad

\* Bytes that are no record this library writes.
Noise == [noise |-> TRUE]

\* A changed ciphertext or nonce: its tag fits no associated data.
Corrupted(ciphertext) ==
    Aes256Gcm(ciphertext.key, ciphertext.nonce, Noise, ciphertext.msg)

(***************************************************************************)
(* The portable binding of a content to its tenant, description and policy *)
(* targets; its hash is written into every artifact and recomputed when    *)
(* the artifact is used.                                                   *)
(***************************************************************************)

ArtifactBinding(tenant, digest, desc, targets) ==
    [tenant_id |-> tenant, content_digest |-> digest,
     desc |-> desc, binding_targets |-> targets]

BindingHash(tenant, digest, desc, targets) ==
    Sha256(ArtifactBinding(tenant, digest, desc, targets))

\* build_local_artifact_binding over the fields an artifact carries.
BindingMatches(artifact, desc) ==
    artifact.binding_hash = BindingHash(artifact.tenant_id, artifact.content_digest,
                                        desc, artifact.binding_targets)

(***************************************************************************)
(* Envelopes.                                                              *)
(***************************************************************************)

EnvelopeAad(tenant, digest, desc, targets, hash) ==
    [tenant_id |-> tenant, content_digest |-> digest, desc |-> desc,
     binding_targets |-> targets, binding_hash |-> hash]

\* A sealing whose binding hash is computed before the policy's targets are known.
SealEnvelopeEarly(key, nonce, content, tenant, digest, desc, targets) ==
    LET hash == BindingHash(tenant, digest, desc, "")
        aad  == EnvelopeAad(tenant, digest, desc, targets, hash)
    IN  [artifact_profile |-> "envelope",
         tenant_id        |-> tenant,
         content_digest   |-> digest,
         desc             |-> desc,
         binding_targets  |-> targets,
         binding_hash     |-> hash,
         aad_hash         |-> Sha256(aad),
         ciphertext       |-> Aes256Gcm(key, nonce, aad, content)]

SealEnvelope(key, nonce, content, tenant, digest, desc, targets) ==
    LET hash == BindingHash(tenant, digest, desc, targets)
        aad  == EnvelopeAad(tenant, digest, desc, targets, hash)
    IN  [artifact_profile |-> "envelope",
         tenant_id        |-> tenant,
         content_digest   |-> digest,
         desc             |-> desc,
         binding_targets  |-> targets,
         binding_hash     |-> hash,
         aad_hash         |-> Sha256(aad),
         ciphertext       |-> Aes256Gcm(key, nonce, aad, content)]

\* A decryption that forgets the associated data and both hashes.
EnvelopeOpensUnbound(key, a) == a.ciphertext.key = key

EnvelopeOpens(key, a) ==
    LET aad == EnvelopeAad(a.tenant_id, a.content_digest, a.desc,
                           a.binding_targets, a.binding_hash)
    IN  /\ a.aad_hash = Sha256(aad)
        /\ BindingMatches(a, a.desc)
        /\ Decrypts(key, aad, a.ciphertext)

(***************************************************************************)
(* TDF artifacts: manifest and payload are encrypted apart, under one key  *)
(* and one associated data.  policy_context is an Option: {} for artifacts *)
(* written before the field existed, {manifest} for those written now.     *)
(***************************************************************************)

TdfAad(tenant, digest, manifestDigest, hash) ==
    [tenant_id |-> tenant, content_digest |-> digest,
     manifest_digest |-> manifestDigest, binding_hash |-> hash]

SealTdf(key, nonce, content, tenant, digest, manifest, targets, metaVersion) ==
    LET hash == BindingHash(tenant, digest, manifest, targets)
        aad  == TdfAad(tenant, digest, Sha256(manifest), hash)
    IN  [artifact_profile |-> "tdf",
         meta_version     |-> metaVersion,
         tenant_id        |-> tenant,
         content_digest   |-> digest,
         manifest_digest  |-> Sha256(manifest),
         binding_targets  |-> targets,
         binding_hash     |-> hash,
         policy_context   |-> {manifest},
         manifest         |-> Aes256Gcm(key, nonce, aad, manifest),
         payload          |-> Aes256Gcm(key, nonce, aad, content),
         aad_hash         |-> Sha256(aad)]

TdfAadOf(a) == TdfAad(a.tenant_id, a.content_digest, a.manifest_digest, a.binding_hash)

TdfManifestOpens(key, a) ==
    /\ a.aad_hash = Sha256(TdfAadOf(a))
    /\ Decrypts(key, TdfAadOf(a), a.manifest)
    /\ a.manifest_digest = Sha256(a.manifest.msg)

\* The checks around decrypt_tdf_manifest: the binding is recomputed from the
\* decrypted manifest, and the clear policy context, if any, must equal it.
TdfManifestTrusted(key, a) ==
    /\ TdfManifestOpens(key, a)
    /\ BindingMatches(a, a.manifest.msg)
    /\ a.policy_context \subseteq {a.manifest.msg}

TdfPayloadOpens(key, a) ==
    /\ a.aad_hash = Sha256(TdfAadOf(a))
    /\ Decrypts(key, TdfAadOf(a), a.payload)

(***************************************************************************)
(* Detached signatures.  A key name stands for an Ed25519 key pair.        *)
(***************************************************************************)

SignDetached(signer, tenant, digest, desc, targets) ==
    [artifact_profile |-> "detached_signature",
     tenant_id        |-> tenant,
     content_digest   |-> digest,
     desc             |-> desc,
     binding_targets  |-> targets,
     binding_hash     |-> BindingHash(tenant, digest, desc, targets),
     signer           |-> signer,
     signature        |-> [by   |-> signer,
                           over |-> ArtifactBinding(tenant, digest, desc, targets)]]

SignatureVerifies(verifier, a) ==
    /\ a.signer = verifier
    /\ BindingMatches(a, a.desc)
    /\ a.signature.by = verifier
    /\ a.signature.over = ArtifactBinding(a.tenant_id, a.content_digest,
                                          a.desc, a.binding_targets)

(***************************************************************************)
(* Attributes (a function from the present keys to their values), edits    *)
(* and the metadata version.                                               *)
(***************************************************************************)

\* Removals are applied first, so a key that is both removed and set is set.
ApplyAttributeEdit(attributes, edit) ==
    [k \in (DOMAIN attributes \ edit.remove) \cup DOMAIN edit.set |->
        IF k \in DOMAIN edit.set THEN edit.set[k] ELSE attributes[k]]

SaturatingIncrement(metaVersion) ==
    IF metaVersion < MaxMetaVersion THEN metaVersion + 1 ELSE metaVersion

\* The description an artifact was made for.
Description(a) ==
    IF a.artifact_profile = "tdf" THEN a.manifest.msg ELSE a.desc

IsDescription(d) == d = [resource |-> d.resource, attributes |-> d.attributes]

\* An artifact as the sealing functions write it, under whatever key; a TDF may be
\* one written before the policy context existed.
WellSealed(a) ==
    CASE a.artifact_profile = "envelope" ->
            a = SealEnvelope(a.ciphertext.key, a.ciphertext.nonce, a.ciphertext.msg,
                             a.tenant_id, Sha256(a.ciphertext.msg), a.desc,
                             a.binding_targets)
      [] a.artifact_profile = "tdf" ->
            /\ a = [SealTdf(a.payload.key, a.payload.nonce, a.payload.msg, a.tenant_id,
                            Sha256(a.payload.msg), a.manifest.msg, a.binding_targets,
                            a.meta_version)
                        EXCEPT !.policy_context = a.policy_context]
            /\ a.policy_context \subseteq {a.manifest.msg}
            /\ a.meta_version \in 0..MaxMetaVersion
            /\ IsDescription(a.manifest.msg)
      [] a.artifact_profile = "detached_signature" ->
            a = SignDetached(a.signer, a.tenant_id, a.content_digest, a.desc,
                             a.binding_targets)
      [] OTHER -> FALSE

=============================================================================
