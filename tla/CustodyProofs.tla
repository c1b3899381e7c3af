--------------------------- MODULE CustodyProofs ---------------------------
(***************************************************************************)
(* What every implementation of Custody inherits, for any set of calls.    *)
(***************************************************************************)
EXTENDS Custody, TLAPS

\* Every custody step keeps the types.
LEMMA CustodyTypeStep == TypeOK /\ [Next]_vars => TypeOK'
  <1> SUFFICES ASSUME TypeOK, [Next]_vars PROVE TypeOK'
    OBVIOUS
  <1> USE DEF TypeOK, MoveTo, Authority
  <1>1. ASSUME NEW c \in Calls, Begin(c) PROVE TypeOK'
    BY <1>1 DEF Begin, Kinds, OnlyArtifactOf
  <1>2. ASSUME NEW c \in Calls, Allow(c) PROVE TypeOK'
    BY <1>2 DEF Allow
  <1>3. ASSUME NEW c \in Calls, Redescribe(c) PROVE TypeOK'
    BY <1>3 DEF Redescribe
  <1>4. ASSUME NEW c \in Calls, Open(c) PROVE TypeOK'
    BY <1>4 DEF Open
  <1>5. ASSUME NEW c \in Calls, Seal(c) PROVE TypeOK'
    BY <1>5 DEF Seal, OnlyArtifactOf
  <1>6. ASSUME NEW c \in Calls, Record(c) PROVE TypeOK'
    BY <1>6 DEF Record, Drop
  <1>7. ASSUME NEW c \in Calls, Attest(c) PROVE TypeOK'
    BY <1>7 DEF Attest, Drop
  <1>8. ASSUME NEW c \in Calls, Refuse(c) PROVE TypeOK'
    BY <1>8 DEF Refuse, Drop
  <1>9. CASE UNCHANGED vars
    BY <1>9 DEF vars
  <1>10. QED
    BY <1>1, <1>2, <1>3, <1>4, <1>5, <1>6, <1>7, <1>8, <1>9 DEF Next

\* Custody's type invariant.
THEOREM CustodyTypeCorrect == Spec => []TypeOK
  <1>1. Init => TypeOK
    BY DEF Init, TypeOK, Kinds
  <1>2. QED
    BY <1>1, CustodyTypeStep, PTL DEF Spec

-----------------------------------------------------------------------------
(***************************************************************************)
(* The inductive invariant: what each stage already implies of its call.   *)
(* It is needed because the authority is checked on opening or sealing,    *)
(* stages before a result is returned.                                     *)
(***************************************************************************)

Authorised(c) == Needed(kind[c]) \subseteq allowed[c]

StagedOf(c) ==
    /\ stage[c] = "opened" => Authorised(c) /\ kind[c] \in {"read", "rewrite"}
    /\ stage[c] = "sealed" => Authorised(c) /\ kind[c] \in {"make", "rewrite"}
    /\ stage[c] = "recorded" =>
          Authorised(c) /\ kind[c] \in {"make", "rewrite"} /\ Entry(c) \in catalog
    /\ stage[c] = "returned" =>
          /\ Authorised(c)
          /\ kind[c] # "prepare" => Entry(c) \in ledger
          /\ kind[c] \in {"make", "rewrite"} => Entry(c) \in catalog

CustodyInv == TypeOK /\ AttestedIsRegistered /\ \A c \in Calls : StagedOf(c)

\* A call that is not touched keeps its stage's promise while the platform's
\* records only grow.
LEMMA OthersStay ==
    ASSUME NEW c \in Calls, StagedOf(c), UNCHANGED <<stage[c], kind[c], allowed[c], artifact[c]>>,
           catalog \subseteq catalog', ledger \subseteq ledger'
    PROVE  StagedOf(c)'
  BY DEF StagedOf, Authorised, Entry

\* A dropped call promises nothing.
LEMMA DroppedStays ==
    ASSUME TypeOK, NEW c \in Calls, Drop(c)
    PROVE  StagedOf(c)'
  BY DEF StagedOf, Drop, MoveTo, TypeOK

\* Every custody step keeps the inductive invariant.
LEMMA CustodyInvStep == CustodyInv /\ [Next]_vars => CustodyInv'
  <1> SUFFICES ASSUME CustodyInv, [Next]_vars
               PROVE  AttestedIsRegistered' /\ \A d \in Calls : StagedOf(d)'
    BY CustodyTypeStep DEF CustodyInv
  <1> TypeOK /\ AttestedIsRegistered /\ \A d \in Calls : StagedOf(d)
    BY DEF CustodyInv
  <1>1. ASSUME NEW c \in Calls, Begin(c)
        PROVE  AttestedIsRegistered' /\ \A d \in Calls : StagedOf(d)'
    <2>1. AttestedIsRegistered'
      BY <1>1 DEF Begin, AttestedIsRegistered
    <2>2. StagedOf(c)'
      BY <1>1 DEF Begin, MoveTo, StagedOf, TypeOK
    <2>3. ASSUME NEW d \in Calls \ {c} PROVE StagedOf(d)'
      BY <1>1, <2>3, OthersStay DEF Begin, MoveTo, OnlyArtifactOf, TypeOK
    <2>4. QED
      BY <2>1, <2>2, <2>3
  <1>2. ASSUME NEW c \in Calls, Allow(c)
        PROVE  AttestedIsRegistered' /\ \A d \in Calls : StagedOf(d)'
    <2>1. AttestedIsRegistered'
      BY <1>2 DEF Allow, AttestedIsRegistered
    <2>2. StagedOf(c)'
      BY <1>2 DEF Allow, MoveTo, StagedOf, Authorised, TypeOK
    <2>3. ASSUME NEW d \in Calls \ {c} PROVE StagedOf(d)'
      BY <1>2, <2>3, OthersStay DEF Allow, MoveTo, TypeOK
    <2>4. QED
      BY <2>1, <2>2, <2>3
  <1>3. ASSUME NEW c \in Calls, Redescribe(c)
        PROVE  AttestedIsRegistered' /\ \A d \in Calls : StagedOf(d)'
    <2>1. AttestedIsRegistered'
      BY <1>3 DEF Redescribe, AttestedIsRegistered
    <2>2. StagedOf(c)'
      BY <1>3 DEF Redescribe, StagedOf, TypeOK
    <2>3. ASSUME NEW d \in Calls \ {c} PROVE StagedOf(d)'
      BY <1>3, <2>3, OthersStay DEF Redescribe, TypeOK
    <2>4. QED
      BY <2>1, <2>2, <2>3
  <1>4. ASSUME NEW c \in Calls, Open(c)
        PROVE  AttestedIsRegistered' /\ \A d \in Calls : StagedOf(d)'
    <2>1. AttestedIsRegistered'
      BY <1>4 DEF Open, AttestedIsRegistered
    <2>2. StagedOf(c)'
      BY <1>4 DEF Open, MoveTo, StagedOf, Authorised, TypeOK
    <2>3. ASSUME NEW d \in Calls \ {c} PROVE StagedOf(d)'
      BY <1>4, <2>3, OthersStay DEF Open, MoveTo, TypeOK
    <2>4. QED
      BY <2>1, <2>2, <2>3
  <1>5. ASSUME NEW c \in Calls, Seal(c)
        PROVE  AttestedIsRegistered' /\ \A d \in Calls : StagedOf(d)'
    <2>1. AttestedIsRegistered'
      BY <1>5 DEF Seal, AttestedIsRegistered
    <2>2. StagedOf(c)'
      BY <1>5 DEF Seal, MoveTo, StagedOf, Authorised, TypeOK
    <2>3. ASSUME NEW d \in Calls \ {c} PROVE StagedOf(d)'
      BY <1>5, <2>3, OthersStay DEF Seal, MoveTo, OnlyArtifactOf, TypeOK
    <2>4. QED
      BY <2>1, <2>2, <2>3
  <1>6. ASSUME NEW c \in Calls, Record(c)
        PROVE  AttestedIsRegistered' /\ \A d \in Calls : StagedOf(d)'
    <2>1. AttestedIsRegistered'
      BY <1>6 DEF Record, AttestedIsRegistered
    <2>2. StagedOf(c)'
      <3>1. CASE Drop(c)
        BY <3>1, DroppedStays
      <3>2. CASE catalog' = catalog \cup {Entry(c)} /\ MoveTo(c, "recorded")
                 /\ UNCHANGED <<kind, allowed, artifact>>
        BY <1>6, <3>2 DEF Record, MoveTo, StagedOf, Authorised, Entry, TypeOK
      <3>3. QED
        BY <1>6, <3>1, <3>2 DEF Record
    <2>3. ASSUME NEW d \in Calls \ {c} PROVE StagedOf(d)'
      BY <1>6, <2>3, OthersStay DEF Record, Drop, MoveTo, TypeOK
    <2>4. QED
      BY <2>1, <2>2, <2>3
  <1>7. ASSUME NEW c \in Calls, Attest(c)
        PROVE  AttestedIsRegistered' /\ \A d \in Calls : StagedOf(d)'
    <2>1. Entry(c)[1] \in {"protect", "rewrap"} => Entry(c) \in catalog
      BY <1>7 DEF Attest, StagedOf, Entry, Event
    <2>2. AttestedIsRegistered'
      BY <1>7, <2>1 DEF Attest, AttestedIsRegistered
    <2>3. StagedOf(c)'
      <3>1. CASE Drop(c)
        BY <3>1, DroppedStays
      <3>2. CASE ledger' = ledger \cup {Entry(c)} /\ MoveTo(c, "returned")
                 /\ UNCHANGED <<kind, allowed, artifact>>
        BY <1>7, <3>2 DEF Attest, MoveTo, StagedOf, Authorised, Entry, TypeOK
      <3>3. QED
        BY <1>7, <3>1, <3>2 DEF Attest
    <2>4. ASSUME NEW d \in Calls \ {c} PROVE StagedOf(d)'
      BY <1>7, <2>4, OthersStay DEF Attest, Drop, MoveTo, TypeOK
    <2>5. QED
      BY <2>2, <2>3, <2>4
  <1>8. ASSUME NEW c \in Calls, Refuse(c)
        PROVE  AttestedIsRegistered' /\ \A d \in Calls : StagedOf(d)'
    <2>1. AttestedIsRegistered'
      BY <1>8 DEF Refuse, AttestedIsRegistered
    <2>2. StagedOf(c)'
      BY <1>8, DroppedStays DEF Refuse
    <2>3. ASSUME NEW d \in Calls \ {c} PROVE StagedOf(d)'
      BY <1>8, <2>3, OthersStay DEF Refuse, Drop, MoveTo, TypeOK
    <2>4. QED
      BY <2>1, <2>2, <2>3
  <1>9. CASE UNCHANGED vars
    BY <1>9, OthersStay DEF vars, AttestedIsRegistered
  <1>10. QED
    BY <1>1, <1>2, <1>3, <1>4, <1>5, <1>6, <1>7, <1>8, <1>9 DEF Next

\* The custody promise: a result in a caller's hands was made or opened with full
\* authority, is attested, and is registered if the call made it.
THEOREM ReturnedResultsAreInCustody == Spec => []ReturnedInCustody
  <1>1. Init => CustodyInv
    BY DEF Init, CustodyInv, TypeOK, Kinds, AttestedIsRegistered, StagedOf
  <1>2. CustodyInv => ReturnedInCustody
    BY DEF CustodyInv, StagedOf, Authorised, ReturnedInCustody
  <1>3. QED
    BY <1>1, <1>2, CustodyInvStep, PTL DEF Spec

\* The ledger never runs ahead of the catalog, whatever answers are lost.
THEOREM LedgerFollowsCatalog == Spec => []AttestedIsRegistered
  <1>1. Init => CustodyInv
    BY DEF Init, CustodyInv, TypeOK, Kinds, AttestedIsRegistered, StagedOf
  <1>2. CustodyInv => AttestedIsRegistered
    BY DEF CustodyInv
  <1>3. QED
    BY <1>1, <1>2, CustodyInvStep, PTL DEF Spec

=============================================================================
