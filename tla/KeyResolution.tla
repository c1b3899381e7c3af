--------------------------- MODULE KeyResolution ---------------------------
(***************************************************************************)
(* KeyProviders implements KeyService: choosing a provider, running its    *)
(* command, writing, collecting and waiting come to one step, the last,    *)
(* and what was chosen first is still what is designated then.             *)
(***************************************************************************)
EXTENDS KeyProviders

\* A provider in memory has the key; a command can print one and end with success.
HasKey(p, a) ==
    IF p.command
    THEN p.decodes /\ \E i \in DOMAIN p.script : p.script[i] = "succeed"
    ELSE a.reference \in p.keys

OutcomeOf(c) ==
    IF pc[c] = "returned" THEN "key" ELSE IF pc[c] = "failed" THEN "error" ELSE "none"

S == INSTANCE KeyService WITH
        Sources   <- Ask,
        Has       <- HasKey,
        NoSource  <- NoAsk,
        directory <- registry,
        open      <- built,
        outcome   <- [c \in Calls |-> OutcomeOf(c)],
        source    <- [c \in Calls |-> IF Over(c) THEN asked[c] ELSE NoAsk],
        from      <- [c \in Calls |-> IF pc[c] = "returned" THEN server[c] ELSE NoProvider]

\* Every behaviour of the registry, the calling threads and the processes is a
\* behaviour of the key service: a resolution takes effect at once, when it ends.
ImplementsService == S!Spec

=============================================================================
