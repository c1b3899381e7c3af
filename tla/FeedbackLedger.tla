--------------------------- MODULE FeedbackLedger ---------------------------
(***************************************************************************)
(* CiFeedback implements DefectLedger: what Linear holds is the ledger,    *)
(* also between the requests of an invocation, and each step of the        *)
(* service, of GitHub and of people is a step of the ledger or none.       *)
(***************************************************************************)
EXTENDS CiFeedback

EntryOf(issue) ==
    [fingerprint |-> issue.meta.fingerprint,
     workflow    |-> issue.meta.workflow,
     pr          |-> issue.meta.pr,
     branch      |-> issue.meta.branch,
     origin      |-> issue.meta.origin,
     status      |-> issue.meta.status,
     times       |-> issue.meta.count,
     eligible    |-> "agent:eligible" \in issue.labels]

L == INSTANCE DefectLedger WITH
        completed <- {<<e.run, e.conclusion>> : e \in emitted},
        ledger    <- {EntryOf(defects[i]) : i \in DOMAIN defects},
        in_review <- {o \in OriginIds : origins[o] = "in_review"}

\* Every behaviour of CI feedback, repeated and displaced events, stopped
\* invocations and re-runs included, is a behaviour of the defect ledger.
ImplementsLedger == L!Spec

=============================================================================
