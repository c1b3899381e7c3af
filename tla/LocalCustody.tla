---------------------------- MODULE LocalCustody ----------------------------
(***************************************************************************)
(* The workflows of LocalWorkflow implement Custody: every step of a       *)
(* public function is a custody step of its call or none.                  *)
(***************************************************************************)
EXTENDS LocalProperties

\* What the next step of the code says about the stage a running call has reached.
StageBefore(op, step) ==
    IF step = "seal" /\ op \in Rewriters THEN "opened"
    ELSE IF step = "register" THEN "sealed"
    ELSE IF step = "evidence" THEN IF op \in Readers THEN "opened" ELSE "recorded"
    ELSE "asking"

StageOf(c) ==
    IF status[c] = "running" THEN StageBefore(job[c].op, Route(job[c])[at[c]])
    ELSE IF status[c] = "failed" THEN "refused"
    ELSE status[c]

KindOf(op) ==
    IF op \in {"prepare", "none"} THEN op
    ELSE IF op \in Makers THEN "make"
    ELSE IF op \in Readers THEN "read"
    ELSE "rewrite"

\* Authority counts for the description and the content the call works on now.
AllowedTo(c) ==
    {g.ask : g \in {h \in grants :
        /\ h.call = c /\ status[c] # "failed"
        /\ h.about = work[c].desc
        /\ h.digest = work[c].digest
        /\ h.operation = IF h.ask = "key_plan" THEN KeyOperation(job[c].op)
                                               ELSE PolicyOperation(job[c].op)}}

ArtifactOf(c) ==
    Sha256(IF job[c].op \in Readers THEN job[c].source ELSE work[c].product)

C == INSTANCE Custody WITH
        Nothing  <- Sha256(NoArtifact),
        stage    <- [c \in Calls |-> StageOf(c)],
        kind     <- [c \in Calls |-> KindOf(job[c].op)],
        allowed  <- [c \in Calls |-> AllowedTo(c)],
        artifact <- [c \in Calls |-> ArtifactOf(c)],
        catalog  <- {<<r.operation, r.digest>> : r \in catalog},
        ledger   <- {<<e.event, e.digest>> : e \in ledger}

\* Every behaviour of the workflows, failures and lost answers included, is a
\* behaviour of the custody specification.
ImplementsCustody == C!Spec

=============================================================================
