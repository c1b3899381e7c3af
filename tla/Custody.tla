------------------------------ MODULE Custody ------------------------------
(***************************************************************************)
(* What the local workflows of src/src/local.rs promise, whatever route a  *)
(* call takes through them and wherever it stops:                          *)
(*                                                                         *)
(*   content is opened or sealed only under the authority the platform     *)
(*   gave this call for the description in hand; what is sealed is         *)
(*   registered before it is attested; a result is returned only once it   *)
(*   is attested; a refused call keeps nothing.                            *)
(*                                                                         *)
(* LocalCustody maps the workflows onto this specification.                *)
(***************************************************************************)
CONSTANTS
    Calls,      \* the calls
    Nothing     \* the artifact of a call that has none

Kinds == {"prepare", "make", "read", "rewrite"}

Authority == {"policy", "plan", "key_plan"}

\* The authority a call of each kind has to have.
Needed(k) ==
    IF k = "prepare" THEN {"policy", "plan"}
    ELSE IF k = "read" THEN {"policy", "key_plan"}
    ELSE Authority

Event(k) ==
    IF k = "read" THEN "access" ELSE IF k = "rewrite" THEN "rewrap" ELSE "protect"

VARIABLES
    stage,      \* idle, asking, opened, sealed, recorded, returned or refused
    kind,       \* what the call is for
    allowed,    \* the authority it has for the description in hand
    artifact,   \* the artifact it reads or has made
    catalog,    \* registered <<event, artifact>> pairs
    ledger      \* attested <<event, artifact>> pairs

vars == <<stage, kind, allowed, artifact, catalog, ledger>>

Init ==
    /\ stage = [c \in Calls |-> "idle"]
    /\ kind = [c \in Calls |-> "none"]
    /\ allowed = [c \in Calls |-> {}]
    /\ artifact = [c \in Calls |-> Nothing]
    /\ catalog = {}
    /\ ledger = {}

-----------------------------------------------------------------------------
MoveTo(c, s) == stage' = [stage EXCEPT ![c] = s]

Entry(c) == <<Event(kind[c]), artifact[c]>>

\* Nothing but the artifact of c may change (to anything).
OnlyArtifactOf(c) ==
    /\ DOMAIN artifact' = Calls
    /\ \A d \in Calls \ {c} : artifact'[d] = artifact[d]

Begin(c) ==
    /\ stage[c] = "idle"
    /\ MoveTo(c, "asking")
    /\ \E k \in Kinds : kind' = [kind EXCEPT ![c] = k]
    /\ OnlyArtifactOf(c)
    /\ UNCHANGED <<allowed, catalog, ledger>>

\* A call that only prepares returns with its authority.
Allow(c) ==
    /\ stage[c] = "asking"
    /\ \E a \in Authority : allowed' = [allowed EXCEPT ![c] = @ \cup {a}]
    /\ \/ UNCHANGED stage
       \/ kind[c] = "prepare" /\ Needed("prepare") \subseteq allowed'[c] /\ MoveTo(c, "returned")
    /\ UNCHANGED <<kind, artifact, catalog, ledger>>

\* The description changes: authority for the old one is void.
Redescribe(c) ==
    /\ stage[c] = "asking"
    /\ \E kept \in SUBSET allowed[c] : allowed' = [allowed EXCEPT ![c] = kept]
    /\ UNCHANGED <<stage, kind, artifact, catalog, ledger>>

Open(c) ==
    /\ stage[c] = "asking"
    /\ kind[c] \in {"read", "rewrite"}
    /\ Needed(kind[c]) \subseteq allowed[c]
    /\ MoveTo(c, "opened")
    /\ UNCHANGED <<kind, allowed, artifact, catalog, ledger>>

Seal(c) ==
    /\ \/ stage[c] = "asking" /\ kind[c] = "make"
       \/ stage[c] = "opened" /\ kind[c] = "rewrite"
    /\ Needed(kind[c]) \subseteq allowed[c]
    /\ MoveTo(c, "sealed")
    /\ OnlyArtifactOf(c)
    /\ UNCHANGED <<kind, allowed, catalog, ledger>>

Drop(c) ==
    /\ MoveTo(c, "refused")
    /\ kind' = [kind EXCEPT ![c] = "none"]
    /\ allowed' = [allowed EXCEPT ![c] = {}]
    /\ artifact' = [artifact EXCEPT ![c] = Nothing]

\* A request may take effect although the call is refused: its answer was lost
\* or not acceptable.
Record(c) ==
    /\ stage[c] = "sealed"
    /\ \/ /\ catalog' = catalog \cup {Entry(c)}
          /\ MoveTo(c, "recorded")
          /\ UNCHANGED <<kind, allowed, artifact>>
       \/ catalog' \in {catalog, catalog \cup {Entry(c)}} /\ Drop(c)
    /\ UNCHANGED ledger

Attest(c) ==
    /\ \/ stage[c] = "opened" /\ kind[c] = "read"
       \/ stage[c] = "recorded"
    /\ \/ /\ ledger' = ledger \cup {Entry(c)}
          /\ MoveTo(c, "returned")
          /\ UNCHANGED <<kind, allowed, artifact>>
       \/ ledger' \in {ledger, ledger \cup {Entry(c)}} /\ Drop(c)
    /\ UNCHANGED catalog

Refuse(c) ==
    /\ stage[c] \notin {"returned", "refused"}
    /\ Drop(c)
    /\ UNCHANGED <<catalog, ledger>>

Next ==
    \E c \in Calls :
        Begin(c) \/ Allow(c) \/ Redescribe(c) \/ Open(c) \/ Seal(c)
            \/ Record(c) \/ Attest(c) \/ Refuse(c)

Spec == Init /\ [][Next]_vars

-----------------------------------------------------------------------------
TypeOK ==
    /\ stage \in [Calls -> {"idle", "asking", "opened", "sealed", "recorded",
                            "returned", "refused"}]
    /\ kind \in [Calls -> Kinds \cup {"none"}]
    /\ allowed \in [Calls -> SUBSET Authority]
    /\ DOMAIN artifact = Calls

\* A result reaches a caller only with full authority, attested, and registered
\* if the call made the artifact.
ReturnedInCustody ==
    \A c \in Calls : stage[c] = "returned" =>
        /\ Needed(kind[c]) \subseteq allowed[c]
        /\ kind[c] # "prepare" => Entry(c) \in ledger
        /\ kind[c] \in {"make", "rewrite"} => Entry(c) \in catalog

\* Nothing is attested as made that is not registered as such.
AttestedIsRegistered ==
    \A e \in ledger : e[1] \in {"protect", "rewrap"} => e \in catalog

=============================================================================
