---------------------------- MODULE LedgerProofs ----------------------------
(***************************************************************************)
(* What every implementation of DefectLedger inherits, whatever runs,      *)
(* checks and policy there are.                                            *)
(***************************************************************************)
EXTENDS DefectLedger, TLAPS

-----------------------------------------------------------------------------
(***************************************************************************)
(* Entries.                                                                *)
(***************************************************************************)

EntryTyped(d) ==
    /\ d = [fingerprint |-> d.fingerprint, workflow |-> d.workflow, pr |-> d.pr,
            branch |-> d.branch, origin |-> d.origin, status |-> d.status,
            times |-> d.times, eligible |-> d.eligible]
    /\ d.status \in {"open", "resolved"} /\ d.times \in Nat
    /\ \E check \in Checks : d.fingerprint = <<d.workflow, check>>

\* It failed there, and came from there.
FailedThere(d) ==
    \E r \in Runs :
        /\ Failed(r)
        /\ Context[r].workflow = d.workflow
        /\ Context[r].pr = d.pr /\ Context[r].branch = d.branch

CameFrom(d) ==
    d.origin # NoValue =>
        \E r \in Runs :
            Failed(r) /\ Context[r].workflow = d.workflow /\ Context[r].origin = d.origin

RightlyResolved(d) ==
    d.status = "resolved" => \E r \in Runs : Succeeded(r) /\ Covers(r, d)

EntryOK(d) == EntryTyped(d) /\ FailedThere(d) /\ CameFrom(d) /\ RightlyResolved(d)

LedgerInv == OneEntryPerCheck /\ ReviewEarned /\ \A d \in ledger : EntryOK(d)

Closed(d) == [d EXCEPT !.status = "resolved"]

LEMMA ClosedEntry ==
    ASSUME NEW d, EntryTyped(d)
    PROVE  /\ EntryTyped(Closed(d))
           /\ Closed(d).fingerprint = d.fingerprint /\ Closed(d).workflow = d.workflow
           /\ Closed(d).pr = d.pr /\ Closed(d).branch = d.branch
           /\ Closed(d).origin = d.origin /\ Closed(d).times = d.times
           /\ Closed(d).eligible = d.eligible /\ Closed(d).status = "resolved"
<1>1. Closed(d) = [fingerprint |-> d.fingerprint, workflow |-> d.workflow, pr |-> d.pr,
                   branch |-> d.branch, origin |-> d.origin, status |-> "resolved",
                   times |-> d.times, eligible |-> d.eligible]
  BY DEF EntryTyped, Closed
<1> QED BY <1>1 DEF EntryTyped

LEMMA OpenedEntry ==
    ASSUME NEW r \in Runs, NEW check \in Checks
    PROVE  LET e == Opened(r, check) IN
           /\ EntryTyped(e) /\ e.status = "open"
           /\ e.fingerprint = <<Context[r].workflow, check>>
           /\ e.workflow = Context[r].workflow /\ e.pr = Context[r].pr
           /\ e.branch = Context[r].branch /\ e.origin = Context[r].origin
BY DEF Opened, EntryTyped

LEMMA ReopenedEntry ==
    ASSUME NEW r \in Runs, NEW d, EntryTyped(d)
    PROVE  LET e == Reopened(d, r) IN
           /\ EntryTyped(e) /\ e.status = "open"
           /\ e.fingerprint = d.fingerprint /\ e.workflow = d.workflow
           /\ e.pr = Context[r].pr /\ e.branch = Context[r].branch
           /\ e.origin = IF Context[r].origin # NoValue THEN Context[r].origin ELSE d.origin
           /\ e.times = d.times + 1 /\ (e.eligible => d.eligible)
<1>1. PICK e : e = Reopened(d, r)
  OBVIOUS
<1>2. /\ e.status = "open"
      /\ e.fingerprint = d.fingerprint /\ e.workflow = d.workflow
      /\ e.pr = Context[r].pr /\ e.branch = Context[r].branch
      /\ e.origin = IF Context[r].origin # NoValue THEN Context[r].origin ELSE d.origin
      /\ e.times = d.times + 1
  BY <1>1 DEF Reopened
<1>3. e = [fingerprint |-> e.fingerprint, workflow |-> e.workflow, pr |-> e.pr,
           branch |-> e.branch, origin |-> e.origin, status |-> e.status,
           times |-> e.times, eligible |-> e.eligible]
  BY <1>1 DEF Reopened
<1>4. e.eligible => d.eligible
  BY <1>1, Zenon DEF Reopened
<1>5. d.times + 1 \in Nat
  BY DEF EntryTyped
<1>6. \E check \in Checks : e.fingerprint = <<e.workflow, check>>
  BY <1>2 DEF EntryTyped
<1>7. EntryTyped(e)
  BY <1>2, <1>3, <1>5, <1>6 DEF EntryTyped
<1> QED BY <1>1, <1>2, <1>4, <1>7

\* Runs that have completed stay so, and with them what entries say of them.
LEMMA EntryKept ==
    ASSUME NEW d, EntryOK(d), completed \subseteq completed'
    PROVE  EntryOK(d)'
<1>1. \A r : (Failed(r) => Failed(r)') /\ (Succeeded(r) => Succeeded(r)')
  BY DEF Failed, Succeeded
<1>2. \A r : Covers(r, d)' <=> Covers(r, d)
  BY DEF Covers
<1>3. EntryTyped(d)' <=> EntryTyped(d)
  BY DEF EntryTyped
<1> QED BY <1>1, <1>2, <1>3 DEF EntryOK, FailedThere, CameFrom, RightlyResolved

LEMMA ReviewKept ==
    ASSUME ReviewEarned, completed \subseteq completed', in_review' \subseteq in_review
    PROVE  ReviewEarned'
<1>1. \A r : (Failed(r) => Failed(r)') /\ (Succeeded(r) => Succeeded(r)')
  BY DEF Failed, Succeeded
<1> QED BY <1>1 DEF ReviewEarned

LEMMA RememberedSelf ==
    ASSUME NEW d, EntryTyped(d)
    PROVE  Remembered(d, d)
<1>1. d.times >= d.times
  BY DEF EntryTyped
<1> QED BY <1>1 DEF Remembered, EntryTyped

\* One entry takes the place of another.
LEMMA Replaced ==
    ASSUME LedgerInv, NEW d \in ledger, NEW e, EntryOK(e), Remembered(d, e),
           ledger' = (ledger \ {d}) \cup {e}, UNCHANGED <<completed, in_review>>
    PROVE  LedgerInv' /\ Remembering
<1>1. EntryOK(e)' /\ \A x \in ledger : EntryOK(x)'
  BY EntryKept DEF LedgerInv
<1>2. ReviewEarned'
  BY ReviewKept DEF LedgerInv
<1>3. OneEntryPerCheck'
  BY DEF LedgerInv, OneEntryPerCheck, Remembered
<1>4. \A x \in ledger : Remembered(x, x)
  BY RememberedSelf DEF LedgerInv, EntryOK
<1>5. Remembering
  BY <1>4 DEF Remembering
<1> QED BY <1>1, <1>2, <1>3, <1>5 DEF LedgerInv

\* The entries stay as they are.
LEMMA EntriesUntouched ==
    ASSUME LedgerInv, UNCHANGED ledger, completed \subseteq completed', ReviewEarned'
    PROVE  LedgerInv' /\ Remembering
<1>1. \A x \in ledger : EntryOK(x)'
  BY EntryKept DEF LedgerInv
<1>2. \A x \in ledger : Remembered(x, x)
  BY RememberedSelf DEF LedgerInv, EntryOK
<1> QED BY <1>1, <1>2 DEF LedgerInv, OneEntryPerCheck, Remembering

-----------------------------------------------------------------------------
(***************************************************************************)
(* The steps.                                                              *)
(***************************************************************************)

LEMMA ReportStep ==
    ASSUME LedgerInv, NEW r \in Runs, Report(r)
    PROVE  LedgerInv' /\ Remembering
<1>1. PICK check \in Checks :
          \/ /\ \A d \in ledger : d.fingerprint # <<Context[r].workflow, check>>
             /\ ledger' = ledger \cup {Opened(r, check)}
          \/ \E d \in ledger :
                 /\ d.fingerprint = <<Context[r].workflow, check>>
                 /\ ledger' = (ledger \ {d}) \cup {Reopened(d, r)}
  BY DEF Report
<1>2. Failed(r) /\ UNCHANGED <<completed, in_review>>
  BY DEF Report, Failed
<1>3. CASE /\ \A d \in ledger : d.fingerprint # <<Context[r].workflow, check>>
           /\ ledger' = ledger \cup {Opened(r, check)}
  <2>1. PICK e : e = Opened(r, check)
    OBVIOUS
  <2>2. /\ EntryTyped(e) /\ e.status = "open"
        /\ e.fingerprint = <<Context[r].workflow, check>>
        /\ e.workflow = Context[r].workflow /\ e.pr = Context[r].pr
        /\ e.branch = Context[r].branch /\ e.origin = Context[r].origin
    BY <2>1, OpenedEntry
  <2>3. EntryOK(e)
    BY <1>2, <2>2 DEF EntryOK, FailedThere, CameFrom, RightlyResolved
  <2>4. EntryOK(e)' /\ \A x \in ledger : EntryOK(x)'
    BY <1>2, <2>3, EntryKept DEF LedgerInv
  <2>5. OneEntryPerCheck'
    BY <1>3, <2>1, <2>2 DEF LedgerInv, OneEntryPerCheck
  <2>6. ReviewEarned'
    BY <1>2, ReviewKept DEF LedgerInv
  <2>7. Remembering
    BY <1>3, RememberedSelf DEF LedgerInv, EntryOK, Remembering
  <2> QED BY <1>3, <2>1, <2>4, <2>5, <2>6, <2>7 DEF LedgerInv
<1>4. ASSUME NEW d \in ledger, d.fingerprint = <<Context[r].workflow, check>>,
             ledger' = (ledger \ {d}) \cup {Reopened(d, r)}
      PROVE  LedgerInv' /\ Remembering
  <2>1. PICK e : e = Reopened(d, r)
    OBVIOUS
  <2>2. EntryOK(d)
    BY DEF LedgerInv
  <2>3. /\ EntryTyped(e) /\ e.status = "open"
        /\ e.fingerprint = d.fingerprint /\ e.workflow = d.workflow
        /\ e.pr = Context[r].pr /\ e.branch = Context[r].branch
        /\ e.origin = IF Context[r].origin # NoValue THEN Context[r].origin ELSE d.origin
        /\ e.times = d.times + 1 /\ (e.eligible => d.eligible)
    BY <2>1, <2>2, ReopenedEntry DEF EntryOK
  <2>4. d.workflow = Context[r].workflow
    BY <1>4, <2>2 DEF EntryOK, EntryTyped
  <2>5. EntryOK(e)
    <3>1. FailedThere(e)
      BY <1>2, <2>3, <2>4 DEF FailedThere
    <3>2. CameFrom(e)
      BY <1>2, <2>2, <2>3, <2>4 DEF EntryOK, CameFrom
    <3> QED BY <2>3, <3>1, <3>2 DEF EntryOK, RightlyResolved
  <2>6. e.times >= d.times /\ e.times > d.times
    BY <2>2, <2>3 DEF EntryOK, EntryTyped
  <2>7. Remembered(d, e)
    BY <2>3, <2>6 DEF Remembered
  <2> QED BY <1>2, <1>4, <2>1, <2>5, <2>7, Replaced
<1> QED BY <1>1, <1>3, <1>4

LEMMA ResolveStep ==
    ASSUME LedgerInv, NEW r \in Runs, Resolve(r)
    PROVE  LedgerInv' /\ Remembering
<1>1. PICK d \in ledger : Covers(r, d) /\ ledger' = (ledger \ {d}) \cup {Closed(d)}
  BY DEF Resolve, Closed
<1>2. Succeeded(r) /\ UNCHANGED <<completed, in_review>>
  BY DEF Resolve, Succeeded
<1>3. EntryOK(d)
  BY DEF LedgerInv
<1>4. PICK e : e = Closed(d)
  OBVIOUS
<1>5. /\ EntryTyped(e)
      /\ e.fingerprint = d.fingerprint /\ e.workflow = d.workflow
      /\ e.pr = d.pr /\ e.branch = d.branch /\ e.origin = d.origin /\ e.times = d.times
      /\ e.eligible = d.eligible /\ e.status = "resolved"
  BY <1>3, <1>4, ClosedEntry DEF EntryOK
<1>6. EntryOK(e)
  <2>1. FailedThere(e) /\ CameFrom(e)
    BY <1>3, <1>5 DEF EntryOK, FailedThere, CameFrom
  <2>2. Covers(r, e)
    BY <1>1, <1>5 DEF Covers
  <2> QED BY <1>2, <1>5, <2>1, <2>2 DEF EntryOK, RightlyResolved
<1>7. e.times >= d.times
  BY <1>3, <1>5 DEF EntryOK, EntryTyped
<1>8. Remembered(d, e)
  BY <1>5, <1>7 DEF Remembered
<1> QED BY <1>1, <1>2, <1>4, <1>6, <1>8, Replaced

LEMMA ResumeStep ==
    ASSUME LedgerInv, NEW r \in Runs, Resume(r)
    PROVE  LedgerInv' /\ Remembering
<1>1. PICK d \in ledger :
          Covers(r, d) /\ d.origin # NoValue /\ in_review' = in_review \cup {d.origin}
  BY DEF Resume
<1>2. Succeeded(r) /\ UNCHANGED <<completed, ledger>>
  BY DEF Resume, Succeeded
<1>3. EntryOK(d)
  BY DEF LedgerInv
<1>4. PICK last \in Runs : Failed(last) /\ Context[last].workflow = d.workflow
                                        /\ Context[last].pr = d.pr
  BY <1>3 DEF EntryOK, FailedThere
<1>5. PICK first \in Runs : Failed(first) /\ Context[first].workflow = d.workflow
                                          /\ Context[first].origin = d.origin
  BY <1>1, <1>3 DEF EntryOK, CameFrom
<1>6. Context[r].workflow = d.workflow /\ Context[r].pr = d.pr
  BY <1>1 DEF Covers
<1>7. \A x : (Failed(x)' <=> Failed(x)) /\ (Succeeded(x)' <=> Succeeded(x))
  BY <1>2 DEF Failed, Succeeded
<1>8. ReviewEarned'
  BY <1>1, <1>2, <1>4, <1>5, <1>6, <1>7 DEF LedgerInv, ReviewEarned
<1> QED BY <1>2, <1>8, EntriesUntouched

LEMMA LedgerStep == LedgerInv /\ [Next]_vars => LedgerInv' /\ Remembering
<1> SUFFICES ASSUME LedgerInv, [Next]_vars PROVE LedgerInv' /\ Remembering
  OBVIOUS
<1>1. ASSUME NEW r \in Runs, Complete(r) PROVE LedgerInv' /\ Remembering
  <2>1. completed \subseteq completed' /\ UNCHANGED <<ledger, in_review>>
    BY <1>1 DEF Complete
  <2> QED BY <2>1, ReviewKept, EntriesUntouched DEF LedgerInv
<1>2. ASSUME NEW r \in Runs, Report(r) \/ Resolve(r) \/ Resume(r)
      PROVE  LedgerInv' /\ Remembering
  BY <1>2, ReportStep, ResolveStep, ResumeStep
<1>3. ASSUME NEW o \in in_review, Leave(o) PROVE LedgerInv' /\ Remembering
  <2>1. UNCHANGED <<completed, ledger>> /\ in_review' \subseteq in_review
    BY <1>3 DEF Leave
  <2> QED BY <2>1, ReviewKept, EntriesUntouched DEF LedgerInv
<1>4. CASE UNCHANGED vars
  <2>1. UNCHANGED <<completed, ledger, in_review>>
    BY <1>4 DEF vars
  <2> QED BY <2>1, ReviewKept, EntriesUntouched DEF LedgerInv
<1> QED BY <1>1, <1>2, <1>3, <1>4 DEF Next

LEMMA LedgerInitially == Init => LedgerInv
BY DEF Init, LedgerInv, OneEntryPerCheck, ReviewEarned

LEMMA LedgerAlways == Spec => []LedgerInv /\ [][Remembering]_vars
<1>1. LedgerInv /\ [Next]_vars => LedgerInv' /\ Remembering
  BY LedgerStep
<1> QED BY <1>1, LedgerInitially, PTL DEF Spec

-----------------------------------------------------------------------------
(***************************************************************************)
(* What the ledger promises.                                               *)
(***************************************************************************)

\* A failing check has one entry; each entry is of a run that failed there, and what it
\* says of its origin, and of being resolved, such runs have brought about.
THEOREM EntriesAreFounded ==
    Spec => [](OneEntryPerCheck /\ FromFailures /\ ResolvedOnSuccess)
<1>1. LedgerInv => OneEntryPerCheck
  BY DEF LedgerInv
<1>2. LedgerInv => FromFailures
  BY DEF LedgerInv, EntryOK, FailedThere, CameFrom, FromFailures
<1>3. LedgerInv => ResolvedOnSuccess
  BY DEF LedgerInv, EntryOK, RightlyResolved, ResolvedOnSuccess
<1> QED BY <1>1, <1>2, <1>3, LedgerAlways, PTL

\* No issue is in review for which a workflow has not failed, and succeeded where it
\* failed (_process_recovery).
THEOREM ReviewsAreEarned == Spec => []ReviewEarned
<1>1. LedgerInv => ReviewEarned
  BY DEF LedgerInv
<1> QED BY <1>1, LedgerAlways, PTL

\* What was entered is never forgotten, by no step (record_failure, record_recovery).
THEOREM EntriesAreRemembered == Spec => [][Remembering]_vars
BY LedgerAlways, PTL

=============================================================================
