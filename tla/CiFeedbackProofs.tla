-------------------------- MODULE CiFeedbackProofs --------------------------
(***************************************************************************)
(* Proofs about CiFeedback, and that it implements DefectLedger.           *)
(***************************************************************************)
EXTENDS FeedbackLedger, SequenceTheorems, TLAPS

-----------------------------------------------------------------------------
(***************************************************************************)
(* Histories.                                                              *)
(***************************************************************************)

LEMMA Limits ==
    /\ HistoryLimit \in Nat /\ HistoryLimit >= 2
    /\ HumanReviewAfter \in Nat /\ SystemicAfter \in Nat /\ MaxRemediationDepth \in Nat
    /\ HumanReviewAfter < HistoryLimit
    /\ MaxAttempts \in Nat
BY PolicyAssumption

\* What _trim keeps: the latest entries, and all of them as long as they fit.
LEMMA LastNKeeps ==
    ASSUME NEW S, NEW s \in Seq(S), NEW n \in Nat \ {0}
    PROVE  /\ LastN(s, n) \in Seq(S)
           /\ Len(LastN(s, n)) = IF Len(s) <= n THEN Len(s) ELSE n
           /\ Len(s) <= n => LastN(s, n) = s
           /\ Elements(LastN(s, n)) \subseteq Elements(s)
<1>1. Len(s) \in Nat /\ DOMAIN s = 1..Len(s)
  BY LenProperties
<1>2. CASE Len(s) <= n
  BY <1>1, <1>2 DEF LastN
<1>3. CASE ~(Len(s) <= n)
  <2> DEFINE m == Len(s) - n + 1
             t == SubSeq(s, m, Len(s))
  <2>1. m \in Nat /\ m >= 1 /\ m <= Len(s) /\ Len(s) - m + 1 = n
    BY <1>1, <1>3
  <2>2. \A i \in m..Len(s) : s[i] \in S
    BY <1>1, <2>1, ElementOfSeq
  <2> HIDE DEF m
  <2>3. /\ t \in Seq(S) /\ Len(t) = n
        /\ \A i \in 1..n : t[i] = s[m + i - 1]
    BY <1>1, <2>1, <2>2, SubSeqProperties
  <2>4. LastN(s, n) = t
    BY <1>3 DEF LastN, m
  <2>5. DOMAIN t = 1..n
    BY <2>3, LenProperties
  <2>6. \A i \in 1..n : m + i - 1 \in 1..Len(s)
    BY <1>1, <2>1
  <2>7. Elements(t) \subseteq Elements(s)
    BY <1>1, <2>3, <2>5, <2>6 DEF Elements
  <2> QED BY <1>3, <2>3, <2>4, <2>7
<1> QED BY <1>2, <1>3

LEMMA ElementsAppended ==
    ASSUME NEW S, NEW s \in Seq(S), NEW e \in S
    PROVE  /\ Elements(Append(s, e)) = Elements(s) \cup {e}
           /\ Elements(s) \subseteq S
<1>1. Len(s) \in Nat /\ DOMAIN s = 1..Len(s)
  BY LenProperties
<1>2. /\ Append(s, e) \in Seq(S) /\ Len(Append(s, e)) = Len(s) + 1
      /\ \A i \in 1..Len(s) : Append(s, e)[i] = s[i]
      /\ Append(s, e)[Len(s) + 1] = e
  BY AppendProperties
<1>3. DOMAIN Append(s, e) = 1..(Len(s) + 1)
  BY <1>2, LenProperties
<1>4. \A i \in 1..(Len(s) + 1) : i \in 1..Len(s) \/ i = Len(s) + 1
  BY <1>1
<1>5. 1..Len(s) \subseteq 1..(Len(s) + 1) /\ Len(s) + 1 \in 1..(Len(s) + 1)
  BY <1>1
<1>6. Elements(Append(s, e)) \subseteq Elements(s) \cup {e}
  BY <1>1, <1>2, <1>3, <1>4 DEF Elements
<1>7. Elements(s) \cup {e} \subseteq Elements(Append(s, e))
  BY <1>1, <1>2, <1>3, <1>5 DEF Elements
<1>8. Elements(s) \subseteq S
  BY <1>1, ElementOfSeq DEF Elements
<1> QED BY <1>6, <1>7, <1>8

-----------------------------------------------------------------------------
(***************************************************************************)
(* Metadata.                                                               *)
(***************************************************************************)

Distinct(s) == \A a, b \in DOMAIN s : Key(s[a]) = Key(s[b]) => a = b

\* What is true of the metadata of every defect, and of every listing of it.
MetaOK(m) ==
    /\ m \in Metadata
    /\ m.count >= 1
    /\ Len(m.observations) = IF m.count <= HistoryLimit THEN m.count ELSE HistoryLimit
    /\ Len(m.recoveries) <= HistoryLimit
    /\ m.count <= HistoryLimit => Distinct(m.observations)
    /\ \A o \in Elements(m.observations) : Context[o.run].depth <= m.depth

LEMMA ObservationTyped ==
    ASSUME NEW o \in Observations
    PROVE  /\ o.run \in Runs /\ o.check \in Checks
           /\ Fingerprint(o) \in Workflows \X Checks
           /\ Context[o.run].depth \in Nat
           /\ Context[o.run].origin \in OriginIds \cup {NoValue}
           /\ Context[o.run].pr \in PullRequests
           /\ Context[o.run].branch \in Branches
           /\ Context[o.run].workflow \in Workflows
BY ContextAssumption DEF Observations, Fingerprint, Workflows, PullRequests, Branches, OriginIds

LEMMA NewDefect ==
    ASSUME NEW o \in Observations
    PROVE  /\ MetaOK(FromEvent(o))
           /\ FromEvent(o).fingerprint = Fingerprint(o)
           /\ FromEvent(o).status = "open"
           /\ ContainsObservation(FromEvent(o), o)
<1> DEFINE m == FromEvent(o)
<1>1. <<o>> \in Seq(Observations) /\ Len(<<o>>) = 1 /\ Elements(<<o>>) = {o}
  BY DEF Elements
<1>2. <<>> \in Seq(Runs) /\ Len(<<>>) = 0
  BY EmptySeq
<1>3. m \in Metadata
  BY <1>1, <1>2, ObservationTyped DEF FromEvent, Metadata
<1>4. Distinct(<<o>>)
  BY DEF Distinct
<1>5. MetaOK(m)
  BY <1>1, <1>2, <1>3, <1>4, Limits, ObservationTyped DEF MetaOK, FromEvent
<1>6. ContainsObservation(m, o)
  BY <1>1 DEF ContainsObservation, FromEvent
<1> QED BY <1>5, <1>6 DEF FromEvent

\* record_failure of an observation the history does not hold.
LEMMA FailureRecorded ==
    ASSUME NEW m, MetaOK(m), NEW o \in Observations, ~ContainsObservation(m, o)
    PROVE  LET n == RecordFailure(m, o) IN
           /\ MetaOK(n)
           /\ n.fingerprint = m.fingerprint
           /\ n.status = "open"
           /\ n.count = m.count + 1 /\ n.depth \in Nat /\ n.depth >= m.depth
           /\ n.count <= HistoryLimit =>
                  Elements(n.observations) = Elements(m.observations) \cup {o}
<1> DEFINE n == RecordFailure(m, o)
           s == Append(m.observations, o)
           t == LastN(s, HistoryLimit)
<1>0. m \in Metadata /\ m.count \in Nat /\ m.depth \in Nat /\ m.observations \in Seq(Observations)
  BY DEF MetaOK, Metadata
<1>1. /\ s \in Seq(Observations) /\ Len(s) = Len(m.observations) + 1
      /\ \A i \in 1..Len(m.observations) : s[i] = m.observations[i]
      /\ s[Len(m.observations) + 1] = o
  BY <1>0, AppendProperties
<1>2. Elements(s) = Elements(m.observations) \cup {o}
  BY <1>0, ElementsAppended
<1>3. Len(m.observations) \in Nat /\ DOMAIN m.observations = 1..Len(m.observations)
  BY <1>0, LenProperties
<1>4. DOMAIN s = 1..(Len(m.observations) + 1)
  BY <1>1, LenProperties
<1> HIDE DEF s
<1>5. /\ t \in Seq(Observations)
      /\ Len(t) = IF Len(s) <= HistoryLimit THEN Len(s) ELSE HistoryLimit
      /\ Len(s) <= HistoryLimit => t = s
      /\ Elements(t) \subseteq Elements(s)
  BY <1>1, Limits, LastNKeeps
<1>6. /\ n.observations = t /\ n.count = m.count + 1 /\ n.status = "open"
      /\ n.fingerprint = m.fingerprint /\ n.recoveries = m.recoveries
      /\ n.depth = Maximum(m.depth, Context[o.run].depth)
  BY <1>0 DEF RecordFailure, Metadata, s
<1>7. n \in Metadata
  <2>1. Maximum(m.depth, Context[o.run].depth) \in Nat
    BY <1>0, ObservationTyped DEF Maximum
  <2> DEFINE origin == IF Context[o.run].origin # NoValue THEN Context[o.run].origin
                                                          ELSE m.origin
             depth == Maximum(m.depth, Context[o.run].depth)
  <2>2. origin \in OriginIds \cup {NoValue} /\ depth \in Nat
    BY <1>0, <2>1, ObservationTyped DEF Metadata
  <2>3. n = [m EXCEPT !.count = m.count + 1, !.status = "open",
                      !.branch = Context[o.run].branch, !.pr = Context[o.run].pr,
                      !.origin = origin, !.depth = depth, !.observations = t]
    BY DEF RecordFailure, s
  <2> HIDE DEF t, origin, depth, n
  <2>4. /\ m.fingerprint \in Workflows \X Checks /\ m.workflow \in Workflows
        /\ m.recoveries \in Seq(Runs) /\ "open" \in {"open", "resolved"}
        /\ m.count + 1 \in Nat
    BY <1>0 DEF Metadata
  <2>5. n = [fingerprint |-> m.fingerprint, workflow |-> m.workflow,
             pr |-> Context[o.run].pr, branch |-> Context[o.run].branch, origin |-> origin,
             count |-> m.count + 1, depth |-> depth, status |-> "open",
             observations |-> t, recoveries |-> m.recoveries]
    BY <1>0, <2>3 DEF Metadata
  <2> QED BY <1>5, <2>2, <2>4, <2>5, ObservationTyped DEF Metadata
<1>8. n.depth \in Nat /\ n.depth >= m.depth /\ n.depth >= Context[o.run].depth
  BY <1>0, <1>6, ObservationTyped DEF Maximum
<1> HIDE DEF t, n
<1>9. Len(n.observations) = IF n.count <= HistoryLimit THEN n.count ELSE HistoryLimit
  BY <1>0, <1>1, <1>3, <1>5, <1>6, Limits DEF MetaOK
<1>10. ASSUME n.count <= HistoryLimit PROVE t = s /\ Distinct(t)
  <2>1. t = s /\ Distinct(m.observations)
    BY <1>0, <1>1, <1>3, <1>5, <1>6, <1>10, Limits DEF MetaOK
  <2>2. \A i \in 1..Len(m.observations) : Key(m.observations[i]) # Key(o)
    BY <1>3 DEF ContainsObservation, Elements
  <2>3. ASSUME NEW a \in DOMAIN s, NEW b \in DOMAIN s, Key(s[a]) = Key(s[b]) PROVE a = b
    <3>1. /\ a \in 1..Len(m.observations) \/ a = Len(m.observations) + 1
          /\ b \in 1..Len(m.observations) \/ b = Len(m.observations) + 1
      BY <1>3, <1>4
    <3>2. CASE a \in 1..Len(m.observations) /\ b \in 1..Len(m.observations)
      BY <1>1, <1>3, <2>1, <2>3, <3>2 DEF Distinct
    <3> QED BY <1>1, <2>2, <2>3, <3>1, <3>2
  <2> QED BY <2>1, <2>3 DEF Distinct
<1>11. \A x \in Elements(n.observations) : Context[x.run].depth <= n.depth
  <2>1. \A x \in Elements(n.observations) : x \in Elements(m.observations) \/ x = o
    BY <1>2, <1>5, <1>6
  <2>2. \A x \in Elements(m.observations) :
            Context[x.run].depth <= m.depth /\ Context[x.run].depth \in Nat
    BY <1>0, ElementsAppended, ObservationTyped DEF MetaOK
  <2>3. ASSUME NEW x \in Elements(n.observations) PROVE Context[x.run].depth <= n.depth
    BY <1>0, <1>8, <2>1, <2>2, ObservationTyped
  <2> QED BY <2>3
<1>12. MetaOK(n)
  BY <1>0, <1>6, <1>7, <1>9, <1>10, <1>11 DEF MetaOK
<1> QED BY <1>2, <1>6, <1>8, <1>10, <1>12 DEF n

\* record_recovery.
LEMMA RecoveryRecorded ==
    ASSUME NEW m, MetaOK(m), NEW r \in Runs
    PROVE  LET n == RecordRecovery(m, r) IN
           /\ MetaOK(n)
           /\ n.status = "resolved"
           /\ n.fingerprint = m.fingerprint /\ n.workflow = m.workflow
           /\ n.pr = m.pr /\ n.branch = m.branch /\ n.origin = m.origin
           /\ n.count = m.count /\ n.depth = m.depth
           /\ n.observations = m.observations
<1> DEFINE n == RecordRecovery(m, r)
           s == Append(m.recoveries, r)
<1>1. m \in Metadata /\ m.recoveries \in Seq(Runs)
  BY DEF MetaOK, Metadata
<1>2. s \in Seq(Runs) /\ Len(s) = Len(m.recoveries) + 1
  BY <1>1, AppendProperties
<1> HIDE DEF s
<1>3. LastN(s, HistoryLimit) \in Seq(Runs) /\ Len(LastN(s, HistoryLimit)) <= HistoryLimit
  <2>1. Len(s) \in Nat
    BY <1>2, LenProperties
  <2> QED BY <1>2, <2>1, Limits, LastNKeeps
<1>4. /\ n = [m EXCEPT !.status = "resolved", !.recoveries = LastN(s, HistoryLimit)]
      /\ n \in Metadata
  BY <1>1, <1>3 DEF RecordRecovery, Metadata, s
<1>5. /\ n.recoveries = LastN(s, HistoryLimit) /\ n.status = "resolved"
      /\ n.fingerprint = m.fingerprint /\ n.workflow = m.workflow
      /\ n.pr = m.pr /\ n.branch = m.branch /\ n.origin = m.origin
      /\ n.count = m.count /\ n.depth = m.depth /\ n.observations = m.observations
  BY <1>1, <1>4 DEF Metadata
<1> HIDE DEF n
<1> QED BY <1>3, <1>4, <1>5 DEF MetaOK, n

-----------------------------------------------------------------------------
(***************************************************************************)
(* The inductive invariant.                                                *)
(***************************************************************************)

IssuesOK ==
    \A i \in DOMAIN defects :
        /\ MetaOK(defects[i].meta)
        /\ defects[i].labels = DesiredLabels(defects[i].meta)

\* Only one invocation runs, so nobody else has changed a defect since the listing;
\* and what this one changes it remembers.
ListingCurrent == inv.pc \in {"list jobs", "failures"} => inv.view = Metas

\* A recovery does not remember what it writes: what it has resolved differs from its
\* listing by that recovery, everything else is as listed.
RecoveryView ==
    inv.pc \in {"recovery", "resume"} =>
        /\ DOMAIN inv.view = DOMAIN defects
        /\ inv.closing \cup inv.resolved = ToClose(inv.view, inv.event.run)
        /\ inv.closing \cap inv.resolved = {}
        /\ \A i \in DOMAIN defects :
              defects[i].meta = IF i \in inv.resolved
                                THEN RecordRecovery(inv.view[i], inv.event.run)
                                ELSE inv.view[i]

ResumeClear == inv.pc = "resume" => ~StillOpen(inv.origin)

GitHubTyped ==
    /\ ci \in [Runs -> [attempt : 1..MaxAttempts, running : BOOLEAN, outcome : Outcomes]]
    /\ emitted \subseteq [run : Runs, attempt : 1..MaxAttempts, conclusion : Conclusions]
    /\ pending \in emitted \cup {NoValue}

LinearTyped ==
    /\ origins \in [OriginIds -> {"open", "in_review", "closed", "missing"}]
    /\ defects \in Seq(Issues)

FeedbackInv ==
    /\ GitHubTyped /\ LinearTyped /\ InvocationTyped
    /\ IssuesOK
    /\ OneDefectPerFingerprint
    /\ ResolvedByMatchingSuccess
    /\ NoObservationLost
    /\ ListingCurrent /\ RecoveryView /\ ResumeClear

LEMMA TypesFollow == FeedbackInv => TypeOK
<1> SUFFICES ASSUME FeedbackInv PROVE TypeOK
  OBVIOUS
<1>1. ASSUME NEW i \in DOMAIN defects
      PROVE  /\ Len(defects[i].meta.observations) \in 1..HistoryLimit
             /\ Len(defects[i].meta.recoveries) <= HistoryLimit
  BY Limits DEF FeedbackInv, IssuesOK, MetaOK, Metadata
<1> QED BY <1>1 DEF FeedbackInv, GitHubTyped, LinearTyped, TypeOK

\* Where the invocation stands says what it holds.
LEMMA InvocationAt ==
    ASSUME InvocationTyped
    PROVE  /\ inv.pc = "list failures" =>
                  inv \in [pc : {"list failures"}, event : Of("failure")]
           /\ inv.pc = "list jobs" =>
                  inv \in [pc : {"list jobs"}, event : Of("failure"), view : Seq(Metadata)]
           /\ inv.pc = "failures" =>
                  inv \in [pc : {"failures"}, event : Of("failure"), view : Seq(Metadata),
                           todo : SUBSET Observations, done : SUBSET Observations]
           /\ inv.pc = "list recovery" =>
                  inv \in [pc : {"list recovery"}, event : Of("success")]
           /\ inv.pc = "recovery" =>
                  inv \in [pc : {"recovery"}, event : Of("success"), view : Seq(Metadata),
                           closing : SUBSET Nat, resolved : SUBSET Nat,
                           origins : SUBSET OriginIds, origin : {NoValue}]
           /\ inv.pc = "resume" =>
                  inv \in [pc : {"resume"}, event : Of("success"), view : Seq(Metadata),
                           closing : {{}}, resolved : SUBSET Nat,
                           origins : SUBSET OriginIds, origin : OriginIds]
           /\ inv.pc \in {"idle", "list failures", "list jobs", "failures", "list recovery",
                          "recovery", "resume"}
<1>1. CASE inv = Idle
  BY <1>1 DEF Idle
<1>2. CASE inv \in [pc : {"list failures"}, event : Of("failure")]
  BY <1>2
<1>3. CASE inv \in [pc : {"list jobs"}, event : Of("failure"), view : Seq(Metadata)]
  BY <1>3
<1>4. CASE inv \in [pc : {"failures"}, event : Of("failure"), view : Seq(Metadata),
                   todo : SUBSET Observations, done : SUBSET Observations]
  BY <1>4
<1>5. CASE inv \in [pc : {"list recovery"}, event : Of("success")]
  BY <1>5
<1>6. CASE inv \in [pc : {"recovery"}, event : Of("success"), view : Seq(Metadata),
                   closing : SUBSET Nat, resolved : SUBSET Nat,
                   origins : SUBSET OriginIds, origin : {NoValue}]
  BY <1>6
<1>7. CASE inv \in [pc : {"resume"}, event : Of("success"), view : Seq(Metadata),
                   closing : {{}}, resolved : SUBSET Nat,
                   origins : SUBSET OriginIds, origin : OriginIds]
  BY <1>7
<1> QED BY <1>1, <1>2, <1>3, <1>4, <1>5, <1>6, <1>7, Zenon DEF InvocationTyped

LEMMA EventTyped ==
    ASSUME GitHubTyped, InvocationTyped, inv.pc # "idle"
    PROVE  /\ inv.event \in emitted /\ inv.event.run \in Runs
           /\ inv.pc \in {"recovery", "resume"} => inv.event.conclusion = "success"
<1>1. /\ inv.event \in Of("failure") \cup Of("success")
      /\ inv.pc \in {"recovery", "resume"} => inv.event \in Of("success")
  BY InvocationAt
<1> QED BY <1>1 DEF Of, GitHubTyped

LEMMA Listing ==
    ASSUME LinearTyped
    PROVE  /\ Len(defects) \in Nat
           /\ DOMAIN defects = 1..Len(defects)
           /\ DOMAIN Metas = DOMAIN defects
           /\ \A i \in DOMAIN defects :
                 /\ defects[i] \in Issues
                 /\ defects[i].meta \in Metadata /\ Metas[i] = defects[i].meta
           /\ Metas \in Seq(Metadata) /\ Len(Metas) = Len(defects)
<1>1. Len(defects) \in Nat /\ DOMAIN defects = 1..Len(defects)
  BY LenProperties DEF LinearTyped
<1>2. \A i \in 1..Len(defects) : defects[i] \in Issues
  BY ElementOfSeq DEF LinearTyped
<1>3. \A i \in 1..Len(defects) : defects[i].meta \in Metadata
  BY <1>2 DEF Issues
<1>4. Metas = [i \in 1..Len(defects) |-> defects[i].meta]
  BY <1>1 DEF Metas
<1>5. Metas \in [1..Len(defects) -> Metadata]
  BY <1>3, <1>4
<1>6. Metas \in Seq(Metadata)
  BY <1>1, <1>5, SeqDef
<1>7. Len(Metas) = Len(defects)
  BY <1>1, <1>4, <1>6, LenProperties
<1> QED BY <1>1, <1>2, <1>3, <1>4, <1>6, <1>7

LEMMA IssueTyped ==
    ASSUME NEW m \in Metadata
    PROVE  /\ Issue(m) \in Issues
           /\ Issue(m).meta = m /\ Issue(m).labels = DesiredLabels(m)
BY DEF Issue, Issues, StateFor, DesiredLabels

LEMMA FeedbackInitially == Init => FeedbackInv
<1> SUFFICES ASSUME Init PROVE FeedbackInv
  OBVIOUS
<1>1. GitHubTyped
  <2>1. 1 \in 1..MaxAttempts
    BY PolicyAssumption
  <2>2. [attempt : {1}, running : {TRUE}, outcome : Outcomes]
            \subseteq [attempt : 1..MaxAttempts, running : BOOLEAN, outcome : Outcomes]
    BY <2>1
  <2>3. ci \in [Runs -> [attempt : 1..MaxAttempts, running : BOOLEAN, outcome : Outcomes]]
    BY <2>2 DEF Init
  <2> QED BY <2>3 DEF Init, GitHubTyped
<1>2. LinearTyped
  BY EmptySeq DEF Init, LinearTyped
<1>3. InvocationTyped
  BY DEF Init, InvocationTyped
<1>4. DOMAIN defects = {}
  BY EmptySeq DEF Init
<1>5. inv.pc = "idle"
  BY DEF Init, Idle
<1> QED BY <1>1, <1>2, <1>3, <1>4, <1>5
        DEF FeedbackInv, IssuesOK, OneDefectPerFingerprint, ResolvedByMatchingSuccess,
            NoObservationLost, ListingCurrent, RecoveryView, ResumeClear

-----------------------------------------------------------------------------
(***************************************************************************)
(* Steps that leave the defects alone.                                     *)
(***************************************************************************)

LEMMA DefectsUntouched ==
    ASSUME FeedbackInv, UNCHANGED defects, emitted \subseteq emitted'
    PROVE  IssuesOK' /\ OneDefectPerFingerprint' /\ ResolvedByMatchingSuccess'
BY DEF FeedbackInv, IssuesOK, OneDefectPerFingerprint, ResolvedByMatchingSuccess

LEMMA InvocationUntouched ==
    ASSUME FeedbackInv, UNCHANGED <<defects, inv>>, emitted \subseteq emitted'
    PROVE  /\ InvocationTyped' /\ NoObservationLost'
           /\ ListingCurrent' /\ RecoveryView' /\ ResumeClear'
<1>1. InvocationTyped'
  <2> DEFINE event(c) == Of(c)'
  <2>1. \A c : Of(c) \subseteq event(c)
    BY DEF Of
  <2>2. InvocationTyped
    BY DEF FeedbackInv
  <2>3. /\ inv.pc = "list failures" =>
               inv \in [pc : {"list failures"}, event : event("failure")]
        /\ inv.pc = "list jobs" =>
               inv \in [pc : {"list jobs"}, event : event("failure"), view : Seq(Metadata)]
        /\ inv.pc = "failures" =>
               inv \in [pc : {"failures"}, event : event("failure"), view : Seq(Metadata),
                        todo : SUBSET Observations, done : SUBSET Observations]
        /\ inv.pc = "list recovery" =>
               inv \in [pc : {"list recovery"}, event : event("success")]
        /\ inv.pc = "recovery" =>
               inv \in [pc : {"recovery"}, event : event("success"), view : Seq(Metadata),
                        closing : SUBSET Nat, resolved : SUBSET Nat,
                        origins : SUBSET OriginIds, origin : {NoValue}]
        /\ inv.pc = "resume" =>
               inv \in [pc : {"resume"}, event : event("success"), view : Seq(Metadata),
                        closing : {{}}, resolved : SUBSET Nat,
                        origins : SUBSET OriginIds, origin : OriginIds]
        /\ inv = Idle \/ inv.pc # "idle"
    <3> HIDE DEF event
    <3>1. inv = Idle \/ inv.pc # "idle"
      BY <2>2 DEF InvocationTyped
    <3> QED BY <2>1, <2>2, <3>1, InvocationAt
  <2> QED BY <2>2, <2>3, InvocationAt DEF InvocationTyped
<1>2. Metas' = Metas
  BY DEF Metas
<1> QED BY <1>1, <1>2
        DEF FeedbackInv, NoObservationLost, ListingCurrent, RecoveryView, ResumeClear, StillOpen

LEMMA GitHubSteps ==
    ASSUME FeedbackInv,
           \/ \E r \in Runs : FinishRun(r) \/ RerunWorkflow(r)
           \/ \E o \in OriginIds : MoveOrigin(o)
           \/ \E e \in emitted : Redeliver(e)
    PROVE  FeedbackInv'
<1>1. GitHubTyped' /\ LinearTyped' /\ emitted \subseteq emitted' /\ UNCHANGED <<defects, inv>>
  <2>1. ASSUME NEW r \in Runs, FinishRun(r)
        PROVE  GitHubTyped' /\ emitted \subseteq emitted' /\ UNCHANGED <<defects, inv, origins>>
    <3>1. /\ ci[r].attempt \in 1..MaxAttempts /\ ci[r].outcome \in Outcomes
          /\ ci[r].outcome.conclusion \in Conclusions
      BY OutcomeAssumption DEF FeedbackInv, GitHubTyped
    <3>2. Completed(r) \in [run : Runs, attempt : 1..MaxAttempts, conclusion : Conclusions]
      BY <3>1 DEF Completed
    <3> QED BY <2>1, <3>2 DEF FinishRun, FeedbackInv, GitHubTyped
  <2>2. ASSUME NEW r \in Runs, RerunWorkflow(r)
        PROVE  GitHubTyped' /\ UNCHANGED <<defects, inv, origins, emitted>>
    <3>1. ci[r].attempt + 1 \in 1..MaxAttempts
      BY <2>2, Limits DEF RerunWorkflow, FeedbackInv, GitHubTyped
    <3> QED BY <2>2, <3>1 DEF RerunWorkflow, FeedbackInv, GitHubTyped
  <2>3. ASSUME NEW o \in OriginIds, MoveOrigin(o)
        PROVE  LinearTyped' /\ UNCHANGED <<ci, pending, defects, inv, emitted>>
    BY <2>3 DEF MoveOrigin, FeedbackInv, LinearTyped
  <2>4. ASSUME NEW e \in emitted, Redeliver(e)
        PROVE  GitHubTyped' /\ UNCHANGED <<defects, inv, emitted, origins>>
    BY <2>4 DEF Redeliver, FeedbackInv, GitHubTyped
  <2> QED BY <2>1, <2>2, <2>3, <2>4 DEF FeedbackInv, GitHubTyped, LinearTyped
<1> QED BY <1>1, DefectsUntouched, InvocationUntouched DEF FeedbackInv

\* Steps of the invocation that only read, or end it.
LEMMA StartStep ==
    ASSUME FeedbackInv, StartInvocation \/ AbortInvocation \/ FinishFailures \/ FinishRecovery
    PROVE  FeedbackInv'
<1>1. /\ GitHubTyped' /\ LinearTyped' /\ UNCHANGED <<defects, emitted>>
      /\ \/ inv' = Idle
         \/ inv' = [pc |-> "list recovery", event |-> pending] /\ pending \in Of("success")
         \/ inv' = [pc |-> "list failures", event |-> pending] /\ pending \in Of("failure")
  <2>1. CASE StartInvocation
    <3>1. pending \in emitted
      BY <2>1 DEF StartInvocation, FeedbackInv, GitHubTyped
    <3>2. /\ pending.conclusion = "success" => inv' = [pc |-> "list recovery", event |-> pending]
          /\ pending.conclusion = "failure" => inv' = [pc |-> "list failures", event |-> pending]
          /\ pending.conclusion \notin {"success", "failure"} => inv' = Idle
      BY <2>1, Zenon DEF StartInvocation
    <3>3. UNCHANGED <<ci, emitted, defects, origins>> /\ pending' = NoValue
      BY <2>1 DEF StartInvocation
    <3> QED BY <3>1, <3>2, <3>3 DEF FeedbackInv, GitHubTyped, LinearTyped, Of
  <2>2. CASE AbortInvocation \/ FinishFailures \/ FinishRecovery
    <3>1. inv' = Idle /\ UNCHANGED <<ci, emitted, pending, defects, origins>>
      BY <2>2 DEF AbortInvocation, FinishFailures, FinishRecovery
    <3> QED BY <3>1 DEF FeedbackInv, GitHubTyped, LinearTyped
  <2> QED BY <2>1, <2>2
<1>2. InvocationTyped' /\ inv'.pc \in {"idle", "list recovery", "list failures"}
  <2>1. \A c : Of(c)' = Of(c)
    BY <1>1 DEF Of
  <2>2. CASE inv' = Idle
    BY <2>2 DEF InvocationTyped, Idle
  <2>3. CASE inv' = [pc |-> "list recovery", event |-> pending] /\ pending \in Of("success")
    BY <2>1, <2>3 DEF InvocationTyped
  <2>4. CASE inv' = [pc |-> "list failures", event |-> pending] /\ pending \in Of("failure")
    BY <2>1, <2>4 DEF InvocationTyped
  <2> QED BY <1>1, <2>2, <2>3, <2>4
<1> QED BY <1>1, <1>2, DefectsUntouched
        DEF FeedbackInv, NoObservationLost, ListingCurrent, RecoveryView, ResumeClear

LEMMA Unmoved ==
    ASSUME FeedbackInv, UNCHANGED <<ci, emitted, pending, defects, origins>>
    PROVE  /\ GitHubTyped' /\ LinearTyped' /\ IssuesOK' /\ OneDefectPerFingerprint'
           /\ ResolvedByMatchingSuccess'
           /\ Metas' = Metas /\ \A c : Of(c)' = Of(c)
BY DefectsUntouched DEF FeedbackInv, GitHubTyped, LinearTyped, Metas, Of

LEMMA FailuresOfRun ==
    ASSUME GitHubTyped, NEW r \in Runs, NEW jobs \in SUBSET ci[r].outcome.jobs
    PROVE  FailureEvents(r, ci[r].attempt, jobs) \subseteq Observations
<1>1. ci[r].attempt \in 0..MaxAttempts /\ ci[r].outcome \in Outcomes
  BY Limits DEF GitHubTyped
<1>2. ASSUME NEW a \in 0..MaxAttempts, NEW slot \in Nat, NEW check \in Checks
      PROVE  Observation(r, a, slot, check) \in Observations
  BY DEF Observation, Observations
<1>3. CASE jobs = {}
  <2>1. 0 \in 0..MaxAttempts /\ 0 \in Nat /\ Completion \in Checks
    BY Limits DEF Checks
  <2> QED BY <1>2, <1>3, <2>1 DEF FailureEvents
<1>4. CASE jobs # {}
  <2>1. ASSUME NEW j \in jobs PROVE j.slot \in Nat /\ j.check \in Checks
    BY <1>1, OutcomeAssumption DEF Checks
  <2> QED BY <1>1, <1>2, <1>4, <2>1 DEF FailureEvents
<1> QED BY <1>3, <1>4

LEMMA ListingSteps ==
    ASSUME FeedbackInv, ListForFailures \/ ListJobs \/ ListForRecovery
    PROVE  FeedbackInv'
<1>1. UNCHANGED <<ci, emitted, pending, defects, origins>>
  BY DEF ListForFailures, ListJobs, ListForRecovery
<1>2. /\ GitHubTyped /\ LinearTyped /\ InvocationTyped
      /\ Metas \in Seq(Metadata) /\ DOMAIN Metas = DOMAIN defects
      /\ \A i \in DOMAIN defects : Metas[i] = defects[i].meta
      /\ DOMAIN defects \subseteq Nat
  BY Listing DEF FeedbackInv
<1>3. CASE ListForFailures
  <2>1. inv' = [pc |-> "list jobs", event |-> inv.event, view |-> Metas] /\ inv.pc = "list failures"
    BY <1>3 DEF ListForFailures
  <2>2. inv.event \in Of("failure")
    BY <1>2, <2>1, InvocationAt
  <2>3. InvocationTyped'
    BY <1>1, <1>2, <2>1, <2>2, Unmoved DEF InvocationTyped
  <2> QED BY <1>1, <2>1, <2>3, Unmoved
          DEF FeedbackInv, NoObservationLost, ListingCurrent, RecoveryView, ResumeClear
<1>4. CASE ListJobs
  <2>1. /\ inv.pc = "list jobs" /\ inv.event \in Of("failure") /\ inv.event.run \in Runs
        /\ inv.view = Metas
    BY <1>2, <1>4, InvocationAt, EventTyped DEF ListJobs, FeedbackInv, ListingCurrent
  <2>2. PICK jobs \in SUBSET ci[inv.event.run].outcome.jobs :
            inv' = [pc    |-> "failures",
                    event |-> inv.event,
                    view  |-> inv.view,
                    todo  |-> FailureEvents(inv.event.run, ci[inv.event.run].attempt, jobs),
                    done  |-> {}]
    BY <1>4 DEF ListJobs
  <2>3. FailureEvents(inv.event.run, ci[inv.event.run].attempt, jobs) \in SUBSET Observations
    BY <1>2, <2>1, FailuresOfRun
  <2>4. InvocationTyped'
    BY <1>1, <1>2, <2>1, <2>2, <2>3, Unmoved DEF InvocationTyped
  <2> QED BY <1>1, <2>1, <2>2, <2>4, Unmoved
          DEF FeedbackInv, NoObservationLost, ListingCurrent, RecoveryView, ResumeClear
<1>5. CASE ListForRecovery
  <2> DEFINE r == inv.event.run
  <2>1. /\ inv.pc = "list recovery" /\ inv.event \in Of("success")
        /\ inv' = [pc |-> "recovery", event |-> inv.event, view |-> Metas,
                   closing |-> ToClose(Metas, r), resolved |-> {},
                   origins |-> OriginsOf(Metas, ResolvedBefore(Metas, r)),
                   origin |-> NoValue]
    BY <1>2, <1>5, InvocationAt DEF ListForRecovery
  <2>2. ToClose(Metas, r) \in SUBSET Nat
    BY <1>2 DEF ToClose
  <2>3. OriginsOf(Metas, ResolvedBefore(Metas, r)) \in SUBSET OriginIds
    <3>1. ASSUME NEW i \in DOMAIN Metas PROVE Metas[i].origin \in OriginIds \cup {NoValue}
      BY <1>2, Listing DEF Metadata
    <3>2. ResolvedBefore(Metas, r) \subseteq DOMAIN Metas
      BY DEF ResolvedBefore
    <3> QED BY <3>1, <3>2 DEF OriginsOf
  <2>4. InvocationTyped'
    BY <1>1, <1>2, <2>1, <2>2, <2>3, Unmoved DEF InvocationTyped
  <2>5. RecoveryView'
    <3>1. ToClose(Metas, r)' = ToClose(Metas', r')
      BY DEF ToClose
    <3> QED BY <1>1, <1>2, <2>1 DEF RecoveryView
  <2> QED BY <1>1, <2>1, <2>4, <2>5, Unmoved
          DEF FeedbackInv, NoObservationLost, ListingCurrent, ResumeClear
<1> QED BY <1>3, <1>4, <1>5

\* The originating issues.
LEMMA OriginSteps ==
    ASSUME FeedbackInv,
           \/ ResumeOrigin
           \/ inv.pc = "recovery" /\ \E o \in inv.origins : SkipOrigin(o) \/ CheckOrigin(o)
    PROVE  FeedbackInv'
<1>1. UNCHANGED <<ci, emitted, pending, defects>>
  BY DEF ResumeOrigin, SkipOrigin, CheckOrigin
<1>2. GitHubTyped /\ LinearTyped /\ InvocationTyped /\ RecoveryView
  BY DEF FeedbackInv
<1>3. /\ GitHubTyped' /\ IssuesOK' /\ OneDefectPerFingerprint' /\ ResolvedByMatchingSuccess'
      /\ \A c : Of(c)' = Of(c)
  BY <1>1, DefectsUntouched DEF FeedbackInv, GitHubTyped, Of
<1>4. /\ LinearTyped'
      /\ inv'.pc \in {"recovery", "resume"} /\ inv.pc \in {"recovery", "resume"}
      /\ inv'.event = inv.event /\ inv'.view = inv.view
      /\ inv'.closing = inv.closing /\ inv'.resolved = inv.resolved
      /\ InvocationTyped'
      /\ inv'.pc = "resume" => ~StillOpen(inv'.origin)
  <2>1. CASE ResumeOrigin
    <3>1. inv \in [pc : {"resume"}, event : Of("success"), view : Seq(Metadata),
                   closing : {{}}, resolved : SUBSET Nat, origins : SUBSET OriginIds,
                   origin : OriginIds]
      BY <1>2, <2>1, InvocationAt DEF ResumeOrigin
    <3>2. inv' = [inv EXCEPT !.pc = "recovery", !.origin = NoValue]
      BY <2>1 DEF ResumeOrigin
    <3>3. inv' \in [pc : {"recovery"}, event : Of("success"), view : Seq(Metadata),
                    closing : SUBSET Nat, resolved : SUBSET Nat, origins : SUBSET OriginIds,
                    origin : {NoValue}]
      BY <3>1, <3>2
    <3>4. LinearTyped'
      BY <1>1, <1>2, <2>1, <3>1 DEF ResumeOrigin, LinearTyped
    <3>5. InvocationTyped'
      BY <1>3, <3>3 DEF InvocationTyped
    <3> QED BY <3>1, <3>2, <3>4, <3>5
  <2>2. ASSUME inv.pc = "recovery", NEW o \in inv.origins, SkipOrigin(o) \/ CheckOrigin(o)
        PROVE  <1>4!:
    <3>1. inv \in [pc : {"recovery"}, event : Of("success"), view : Seq(Metadata),
                   closing : SUBSET Nat, resolved : SUBSET Nat, origins : SUBSET OriginIds,
                   origin : {NoValue}]
      BY <1>2, <2>2, InvocationAt
    <3>2. LinearTyped'
      BY <1>1, <1>2, <2>2 DEF SkipOrigin, CheckOrigin, LinearTyped
    <3>3. CASE SkipOrigin(o)
      <4>1. inv' = [inv EXCEPT !.origins = @ \ {o}]
        BY <3>3 DEF SkipOrigin
      <4>2. inv' \in [pc : {"recovery"}, event : Of("success"), view : Seq(Metadata),
                      closing : SUBSET Nat, resolved : SUBSET Nat,
                      origins : SUBSET OriginIds, origin : {NoValue}]
        BY <3>1, <4>1
      <4>3. InvocationTyped'
        BY <1>3, <4>2 DEF InvocationTyped
      <4> QED BY <3>1, <3>2, <4>1, <4>3
    <3>4. CASE CheckOrigin(o)
      <4>1. /\ inv' = [inv EXCEPT !.pc = "resume", !.origins = @ \ {o}, !.origin = o]
            /\ inv.closing = {} /\ ~StillOpen(o) /\ o \in OriginIds
        BY <3>1, <3>4 DEF CheckOrigin
      <4>2. inv' \in [pc : {"resume"}, event : Of("success"), view : Seq(Metadata),
                      closing : {{}}, resolved : SUBSET Nat,
                      origins : SUBSET OriginIds, origin : OriginIds]
        BY <3>1, <4>1
      <4>3. InvocationTyped'
        BY <1>3, <4>2 DEF InvocationTyped
      <4> QED BY <3>1, <3>2, <4>1, <4>3
    <3> QED BY <2>2, <3>3, <3>4
  <2> QED BY <2>1, <2>2
<1>5. RecoveryView'
  BY <1>1, <1>2, <1>4 DEF RecoveryView
<1>6. ResumeClear'
  BY <1>4 DEF ResumeClear, StillOpen
<1> QED BY <1>3, <1>4, <1>5, <1>6 DEF FeedbackInv, NoObservationLost, ListingCurrent

-----------------------------------------------------------------------------
(***************************************************************************)
(* Steps on the defects.                                                   *)
(***************************************************************************)

\* While the failures of a run are dealt with, the listing is what Linear holds.
LEMMA AtFailures ==
    ASSUME FeedbackInv, inv.pc = "failures", NEW o \in inv.todo
    PROVE  /\ inv \in [pc : {"failures"}, event : Of("failure"), view : Seq(Metadata),
                       todo : SUBSET Observations, done : SUBSET Observations]
           /\ inv.view = Metas
           /\ o \in Observations
           /\ DOMAIN inv.view = DOMAIN defects
           /\ \A i \in DOMAIN defects : inv.view[i] = defects[i].meta
<1>1. /\ inv \in [pc : {"failures"}, event : Of("failure"), view : Seq(Metadata),
                  todo : SUBSET Observations, done : SUBSET Observations]
      /\ inv.view = Metas
  BY InvocationAt DEF FeedbackInv, ListingCurrent
<1> QED BY <1>1, Listing DEF FeedbackInv

LEMMA HandledTyped ==
    ASSUME InvocationTyped, inv.pc = "failures", NEW o \in Observations, NEW id, NEW m,
           Handled(o, id, m), Remember(inv.view, id, m) \in Seq(Metadata), UNCHANGED emitted
    PROVE  /\ InvocationTyped'
           /\ inv'.pc = "failures" /\ inv'.event = inv.event
           /\ inv'.view = Remember(inv.view, id, m)
           /\ inv'.done = inv.done \cup {o} /\ inv'.todo = inv.todo \ {o}
<1>1. inv \in [pc : {"failures"}, event : Of("failure"), view : Seq(Metadata),
               todo : SUBSET Observations, done : SUBSET Observations]
  BY InvocationAt
<1>2. inv' = [inv EXCEPT !.todo = @ \ {o}, !.done = @ \cup {o}, !.view = Remember(@, id, m)]
  BY DEF Handled
<1>3. inv' \in [pc : {"failures"}, event : Of("failure"), view : Seq(Metadata),
                todo : SUBSET Observations, done : SUBSET Observations]
  BY <1>1, <1>2
<1>4. InvocationTyped'
  <2>1. \A c : Of(c)' = Of(c)
    BY DEF Of
  <2> QED BY <1>3, <2>1 DEF InvocationTyped
<1> QED BY <1>1, <1>2, <1>4

LEMMA ReplayStep ==
    ASSUME FeedbackInv, inv.pc = "failures", NEW o \in inv.todo, ReplayFailure(o)
    PROVE  FeedbackInv'
<1>1. UNCHANGED <<ci, emitted, pending, defects, origins>>
  BY DEF ReplayFailure
<1>2. /\ inv.view = Metas /\ inv.view \in Seq(Metadata) /\ o \in Observations
      /\ DOMAIN inv.view = DOMAIN defects
      /\ \A i \in DOMAIN defects : inv.view[i] = defects[i].meta
  BY AtFailures
<1>3. PICK id \in IndexOf(inv.view, Fingerprint(o)) :
          ContainsObservation(inv.view[id], o) /\ Handled(o, id, inv.view[id])
  BY DEF ReplayFailure
<1>4. id \in DOMAIN inv.view /\ inv.view[id].fingerprint = Fingerprint(o)
  BY <1>3 DEF IndexOf
<1>5. Remember(inv.view, id, inv.view[id]) = inv.view
  <2>1. inv.view \in [1..Len(inv.view) -> Metadata] /\ DOMAIN inv.view = 1..Len(inv.view)
    BY <1>2, LenProperties
  <2> QED BY <1>4, <2>1 DEF Remember
<1>6. /\ InvocationTyped' /\ inv'.pc = "failures" /\ inv'.view = inv.view
      /\ inv'.done = inv.done \cup {o}
  BY <1>1, <1>2, <1>3, <1>5, HandledTyped DEF FeedbackInv
<1>7. NoObservationLost'
  BY <1>1, <1>2, <1>3, <1>4, <1>6 DEF FeedbackInv, NoObservationLost
<1>8. ListingCurrent' /\ RecoveryView' /\ ResumeClear'
  BY <1>1, <1>2, <1>6, Unmoved DEF ListingCurrent, RecoveryView, ResumeClear
<1> QED BY <1>1, <1>6, <1>7, <1>8, Unmoved DEF FeedbackInv

\* create_issue.
LEMMA CreateStep ==
    ASSUME FeedbackInv, inv.pc = "failures", NEW o \in inv.todo, CreateDefect(o)
    PROVE  FeedbackInv'
<1> DEFINE m == FromEvent(o)
           N == Len(defects) + 1
<1>1. /\ UNCHANGED <<ci, emitted, pending, origins>>
      /\ defects' = Append(defects, Issue(m)) /\ Handled(o, N, m)
      /\ IndexOf(inv.view, Fingerprint(o)) = {}
  BY DEF CreateDefect
<1>2. /\ inv.view = Metas /\ inv.view \in Seq(Metadata) /\ o \in Observations
      /\ DOMAIN inv.view = DOMAIN defects
      /\ \A i \in DOMAIN defects : inv.view[i] = defects[i].meta
  BY AtFailures
<1>3. /\ MetaOK(m) /\ m \in Metadata /\ m.fingerprint = Fingerprint(o) /\ m.status = "open"
      /\ ContainsObservation(m, o)
  BY <1>2, NewDefect DEF MetaOK
<1>4. /\ Issue(m) \in Issues /\ Issue(m).meta = m /\ Issue(m).labels = DesiredLabels(m)
  BY <1>3, IssueTyped
<1> HIDE DEF m
<1>5. /\ Len(defects) \in Nat /\ DOMAIN defects = 1..Len(defects)
      /\ Len(Metas) = Len(defects) /\ defects \in Seq(Issues)
  BY Listing DEF FeedbackInv, LinearTyped
<1>6. /\ defects' \in Seq(Issues)
      /\ DOMAIN defects' = 1..N /\ N = Len(defects) + 1 /\ N \notin DOMAIN defects
      /\ \A i \in DOMAIN defects : defects'[i] = defects[i]
      /\ defects'[N] = Issue(m)
  <2>1. /\ defects' \in Seq(Issues) /\ Len(defects') = N
        /\ \A i \in 1..Len(defects) : defects'[i] = defects[i]
        /\ defects'[N] = Issue(m)
    BY <1>1, <1>4, <1>5, AppendProperties
  <2>2. DOMAIN defects' = 1..N
    BY <2>1, LenProperties
  <2> QED BY <1>5, <2>1, <2>2
<1>7. \A i \in DOMAIN defects' : i \in DOMAIN defects \/ i = N
  BY <1>5, <1>6
<1>8. DOMAIN defects \subseteq DOMAIN defects' /\ N \in DOMAIN defects'
  BY <1>5, <1>6
<1> HIDE DEF N
<1>9. GitHubTyped' /\ LinearTyped'
  BY <1>1, <1>6 DEF FeedbackInv, GitHubTyped, LinearTyped
<1>10. Remember(inv.view, N, m) = Append(Metas, m) /\ Append(Metas, m) = Metas'
  <2>1. /\ Append(Metas, m) \in Seq(Metadata) /\ Len(Append(Metas, m)) = N
        /\ \A i \in 1..Len(defects) : Append(Metas, m)[i] = Metas[i]
        /\ Append(Metas, m)[N] = m
    BY <1>2, <1>3, <1>5, <1>6, AppendProperties
  <2>2. Metas' = [i \in 1..N |-> defects'[i].meta]
    BY <1>6 DEF Metas
  <2>3. /\ DOMAIN Append(Metas, m) = 1..N
        /\ Append(Metas, m) \in [1..N -> Metadata]
    BY <2>1, LenProperties
  <2>4. \A i \in 1..N : Append(Metas, m)[i] = defects'[i].meta
    BY <1>2, <1>4, <1>5, <1>6, <1>7, <2>1
  <2>5. Remember(inv.view, N, m) = Append(Metas, m)
    BY <1>2, <1>6 DEF Remember
  <2> QED BY <2>2, <2>3, <2>4, <2>5
<1>11. Append(Metas, m) \in Seq(Metadata)
  BY <1>2, <1>3, AppendProperties
<1>12. /\ InvocationTyped' /\ inv'.pc = "failures" /\ inv'.view = Metas'
       /\ inv'.done = inv.done \cup {o}
  BY <1>1, <1>2, <1>10, <1>11, HandledTyped DEF FeedbackInv
<1>13. IssuesOK'
  BY <1>3, <1>4, <1>6, <1>7 DEF FeedbackInv, IssuesOK
<1>14. OneDefectPerFingerprint'
  <2>1. \A i \in DOMAIN defects : defects[i].meta.fingerprint # Fingerprint(o)
    BY <1>1, <1>2 DEF IndexOf
  <2> QED BY <1>3, <1>4, <1>6, <1>7, <2>1 DEF FeedbackInv, OneDefectPerFingerprint
<1>15. ResolvedByMatchingSuccess'
  BY <1>1, <1>3, <1>4, <1>6, <1>7 DEF FeedbackInv, ResolvedByMatchingSuccess
<1>16. NoObservationLost'
  <2>1. ASSUME NEW x \in inv.done \cup {o}
        PROVE  \E i \in DOMAIN defects' :
                  /\ defects'[i].meta.fingerprint = Fingerprint(x)
                  /\ \/ defects'[i].meta.count > HistoryLimit
                     \/ ContainsObservation(defects'[i].meta, x)
    <3>1. CASE x = o
      BY <1>3, <1>4, <1>6, <1>8, <3>1
    <3>2. CASE x \in inv.done
      <4>1. PICK i \in DOMAIN defects :
                /\ defects[i].meta.fingerprint = Fingerprint(x)
                /\ \/ defects[i].meta.count > HistoryLimit
                   \/ ContainsObservation(defects[i].meta, x)
        BY <3>2 DEF FeedbackInv, NoObservationLost
      <4> QED BY <1>6, <1>8, <4>1
    <3> QED BY <3>1, <3>2
  <2> QED BY <1>12, <2>1 DEF NoObservationLost
<1> QED BY <1>9, <1>12, <1>13, <1>14, <1>15, <1>16
        DEF FeedbackInv, ListingCurrent, RecoveryView, ResumeClear

\* _update_defect.
LEMMA UpdateStep ==
    ASSUME FeedbackInv, inv.pc = "failures", NEW o \in inv.todo, UpdateDefect(o)
    PROVE  FeedbackInv'
<1>1. PICK id \in IndexOf(inv.view, Fingerprint(o)) :
          /\ ~ContainsObservation(inv.view[id], o)
          /\ defects' = [defects EXCEPT ![id] = Issue(RecordFailure(inv.view[id], o))]
          /\ Handled(o, id, RecordFailure(inv.view[id], o))
  BY DEF UpdateDefect
<1> DEFINE old == inv.view[id]
           m == RecordFailure(inv.view[id], o)
<1>2. UNCHANGED <<ci, emitted, pending, origins>>
  BY DEF UpdateDefect
<1>3. /\ inv.view = Metas /\ inv.view \in Seq(Metadata) /\ o \in Observations
      /\ DOMAIN inv.view = DOMAIN defects
      /\ \A i \in DOMAIN defects : inv.view[i] = defects[i].meta
  BY AtFailures
<1>4. /\ id \in DOMAIN defects /\ old.fingerprint = Fingerprint(o) /\ old = defects[id].meta
      /\ MetaOK(old)
  BY <1>1, <1>3 DEF IndexOf, FeedbackInv, IssuesOK
<1>5. /\ MetaOK(m) /\ m \in Metadata /\ m.fingerprint = Fingerprint(o) /\ m.status = "open"
      /\ m.count = old.count + 1 /\ old.count \in Nat
      /\ m.count <= HistoryLimit =>
             Elements(m.observations) = Elements(old.observations) \cup {o}
  <2>1. MetaOK(old) /\ ~ContainsObservation(old, o) /\ o \in Observations
    BY <1>1, <1>3, <1>4
  <2>2. old.count \in Nat
    BY <1>4 DEF MetaOK, Metadata
  <2> HIDE DEF old
  <2>3. m = RecordFailure(old, o)
    BY DEF old
  <2> HIDE DEF m
  <2>4. /\ MetaOK(m) /\ m.fingerprint = old.fingerprint /\ m.status = "open"
        /\ m.count = old.count + 1
        /\ m.count <= HistoryLimit =>
               Elements(m.observations) = Elements(old.observations) \cup {o}
    BY <2>1, <2>3, FailureRecorded
  <2> QED BY <1>4, <2>2, <2>4 DEF MetaOK
<1>6. /\ Issue(m) \in Issues /\ Issue(m).meta = m /\ Issue(m).labels = DesiredLabels(m)
  BY <1>5, IssueTyped
<1> HIDE DEF m
<1>7. /\ Len(defects) \in Nat /\ DOMAIN defects = 1..Len(defects) /\ defects \in Seq(Issues)
  BY Listing DEF FeedbackInv, LinearTyped
<1>8. /\ defects' \in Seq(Issues) /\ DOMAIN defects' = DOMAIN defects
      /\ defects'[id] = Issue(m)
      /\ \A i \in DOMAIN defects : i # id => defects'[i] = defects[i]
  <2>1. defects' = [defects EXCEPT ![id] = Issue(m)]
    BY <1>1 DEF m
  <2> QED BY <1>4, <1>6, <1>7, <2>1, ExceptSeq
<1>9. GitHubTyped' /\ LinearTyped'
  BY <1>2, <1>8 DEF FeedbackInv, GitHubTyped, LinearTyped
<1>10. Remember(inv.view, id, m) = Metas' /\ Remember(inv.view, id, m) \in Seq(Metadata)
  <2>1. Remember(inv.view, id, m) = [Metas EXCEPT ![id] = m]
    BY <1>3, <1>4 DEF Remember
  <2>2. Metas = [i \in DOMAIN defects |-> defects[i].meta]
        /\ Metas' = [i \in DOMAIN defects |-> defects'[i].meta]
    BY <1>8 DEF Metas
  <2>3. Metas' = [Metas EXCEPT ![id] = m]
    BY <1>4, <1>6, <1>8, <2>2
  <2>4. [Metas EXCEPT ![id] = m] \in Seq(Metadata)
    <3>1. id \in 1..Len(Metas)
      BY <1>3, <1>4, LenProperties
    <3> QED BY <1>3, <1>5, <3>1, ExceptSeq
  <2> QED BY <2>1, <2>3, <2>4
<1>11. /\ InvocationTyped' /\ inv'.pc = "failures" /\ inv'.view = Metas'
       /\ inv'.done = inv.done \cup {o}
  BY <1>1, <1>2, <1>3, <1>10, HandledTyped DEF FeedbackInv, m
<1>12. IssuesOK'
  BY <1>5, <1>6, <1>8 DEF FeedbackInv, IssuesOK
<1>13. OneDefectPerFingerprint'
  BY <1>4, <1>5, <1>6, <1>8 DEF FeedbackInv, OneDefectPerFingerprint
<1>14. ResolvedByMatchingSuccess'
  BY <1>2, <1>5, <1>6, <1>8 DEF FeedbackInv, ResolvedByMatchingSuccess
<1>15. NoObservationLost'
  <2>1. ASSUME NEW x \in inv.done \cup {o}, m.count <= HistoryLimit,
               x = o \/ ContainsObservation(old, x)
        PROVE  ContainsObservation(m, x)
    BY <1>5, <2>1 DEF ContainsObservation
  <2>2. \A x \in inv.done : \E i \in DOMAIN defects :
            /\ defects[i].meta.fingerprint = Fingerprint(x)
            /\ \/ defects[i].meta.count > HistoryLimit
               \/ ContainsObservation(defects[i].meta, x)
    BY DEF FeedbackInv, NoObservationLost
  <2>3. m.count > HistoryLimit \/ m.count <= HistoryLimit
    BY <1>5, Limits
  <2>4. old.count > HistoryLimit => m.count > HistoryLimit
    BY <1>5, Limits
  <2>5. ASSUME NEW x \in inv.done \cup {o}
        PROVE  \E i \in DOMAIN defects' :
                  /\ defects'[i].meta.fingerprint = Fingerprint(x)
                  /\ \/ defects'[i].meta.count > HistoryLimit
                     \/ ContainsObservation(defects'[i].meta, x)
    <3>1. CASE x = o
      BY <1>4, <1>5, <1>6, <1>8, <2>1, <2>3, <3>1
    <3>2. CASE x \in inv.done
      <4>1. PICK i \in DOMAIN defects :
                /\ defects[i].meta.fingerprint = Fingerprint(x)
                /\ \/ defects[i].meta.count > HistoryLimit
                   \/ ContainsObservation(defects[i].meta, x)
        BY <2>2, <3>2
      <4>2. CASE i = id
        <5>1. m.fingerprint = Fingerprint(x)
          BY <1>4, <1>5, <4>1, <4>2
        <5>2. m.count > HistoryLimit \/ ContainsObservation(m, x)
          BY <1>4, <2>1, <2>3, <2>4, <4>1, <4>2
        <5> QED BY <1>4, <1>6, <1>8, <5>1, <5>2
      <4>3. CASE i # id
        BY <1>8, <4>1, <4>3
      <4> QED BY <4>2, <4>3
    <3> QED BY <3>1, <3>2
  <2> QED BY <1>11, <2>5 DEF NoObservationLost
<1> QED BY <1>9, <1>11, <1>12, <1>13, <1>14, <1>15
        DEF FeedbackInv, ListingCurrent, RecoveryView, ResumeClear

\* _close_defect.
LEMMA CloseStep ==
    ASSUME FeedbackInv, inv.pc = "recovery", NEW id \in inv.closing, CloseDefect(id)
    PROVE  FeedbackInv'
<1> DEFINE r == inv.event.run
           old == inv.view[id]
           m == RecordRecovery(inv.view[id], r)
<1>1. /\ UNCHANGED <<ci, emitted, pending, origins>>
      /\ defects' = [defects EXCEPT ![id].meta = m, ![id].state = "done"]
      /\ inv' = [inv EXCEPT !.closing  = @ \ {id},
                            !.resolved = @ \cup {id},
                            !.origins  = @ \cup OriginsOf(inv.view, {id})]
  BY DEF CloseDefect
<1>2. /\ inv \in [pc : {"recovery"}, event : Of("success"), view : Seq(Metadata),
                  closing : SUBSET Nat, resolved : SUBSET Nat,
                  origins : SUBSET OriginIds, origin : {NoValue}]
      /\ r \in Runs /\ inv.event \in emitted /\ inv.event.conclusion = "success"
  BY InvocationAt, EventTyped DEF FeedbackInv
<1>3. /\ DOMAIN inv.view = DOMAIN defects
      /\ inv.closing \cup inv.resolved = ToClose(inv.view, r)
      /\ inv.closing \cap inv.resolved = {}
      /\ \A i \in DOMAIN defects :
            defects[i].meta = IF i \in inv.resolved THEN RecordRecovery(inv.view[i], r)
                                                    ELSE inv.view[i]
  BY DEF FeedbackInv, RecoveryView
<1>4. /\ id \in DOMAIN defects /\ id \notin inv.resolved /\ id \in Nat
      /\ defects[id].meta = old /\ MetaOK(old) /\ MatchesRecovery(old, r)
      /\ defects[id].labels = DesiredLabels(old)
  BY <1>2, <1>3 DEF ToClose, FeedbackInv, IssuesOK
<1>5. /\ MetaOK(m) /\ m \in Metadata /\ m.status = "resolved"
      /\ m.fingerprint = old.fingerprint /\ m.workflow = old.workflow
      /\ m.pr = old.pr /\ m.branch = old.branch /\ m.origin = old.origin
      /\ m.count = old.count /\ m.depth = old.depth /\ m.observations = old.observations
  BY <1>2, <1>4, RecoveryRecorded DEF MetaOK
<1> HIDE DEF m
<1>6. /\ Len(defects) \in Nat /\ DOMAIN defects = 1..Len(defects) /\ defects \in Seq(Issues)
      /\ defects[id] \in Issues
  BY <1>4, Listing DEF FeedbackInv, LinearTyped
<1>7. /\ defects' \in Seq(Issues) /\ DOMAIN defects' = DOMAIN defects
      /\ defects'[id].meta = m /\ defects'[id].labels = defects[id].labels
      /\ \A i \in DOMAIN defects : i # id => defects'[i] = defects[i]
  <2> DEFINE d == [defects[id] EXCEPT !.meta = m, !.state = "done"]
  <2>1. d \in Issues /\ d.meta = m /\ d.labels = defects[id].labels
    BY <1>5, <1>6 DEF Issues
  <2>2. defects' = [defects EXCEPT ![id] = d]
    BY <1>1, <1>4, <1>6
  <2> HIDE DEF d
  <2> QED BY <1>4, <1>6, <2>1, <2>2, ExceptSeq
<1>8. GitHubTyped' /\ LinearTyped'
  BY <1>1, <1>7 DEF FeedbackInv, GitHubTyped, LinearTyped
<1>9. /\ inv' \in [pc : {"recovery"}, event : Of("success"), view : Seq(Metadata),
                   closing : SUBSET Nat, resolved : SUBSET Nat,
                   origins : SUBSET OriginIds, origin : {NoValue}]
      /\ inv'.pc = "recovery" /\ inv'.event = inv.event /\ inv'.view = inv.view
      /\ inv'.closing = inv.closing \ {id} /\ inv'.resolved = inv.resolved \cup {id}
  <2>1. OriginsOf(inv.view, {id}) \subseteq OriginIds
    BY <1>4 DEF OriginsOf, MetaOK, Metadata
  <2> QED BY <1>1, <1>2, <1>4, <2>1
<1>10. InvocationTyped'
  <2>1. \A c : Of(c)' = Of(c)
    BY <1>1 DEF Of
  <2> QED BY <1>9, <2>1 DEF InvocationTyped
<1>11. RecoveryView'
  <2>1. inv'.closing \cup inv'.resolved = ToClose(inv'.view, inv'.event.run)
    BY <1>3, <1>9
  <2>2. inv'.closing \cap inv'.resolved = {}
    BY <1>3, <1>9
  <2>3. \A i \in DOMAIN defects' :
            defects'[i].meta = IF i \in inv'.resolved
                               THEN RecordRecovery(inv'.view[i], inv'.event.run)
                               ELSE inv'.view[i]
    BY <1>3, <1>4, <1>7, <1>9 DEF m
  <2> QED BY <1>3, <1>7, <1>9, <2>1, <2>2, <2>3 DEF RecoveryView
<1>12. IssuesOK'
  <2>1. DesiredLabels(m) = DesiredLabels(old)
    BY <1>5 DEF DesiredLabels
  <2> QED BY <1>4, <1>5, <1>7, <2>1 DEF FeedbackInv, IssuesOK
<1>13. OneDefectPerFingerprint'
  BY <1>4, <1>5, <1>7 DEF FeedbackInv, OneDefectPerFingerprint
<1>14. ResolvedByMatchingSuccess'
  <2>1. Covers(Context[r], m)
    BY <1>4, <1>5 DEF Covers, MatchesRecovery
  <2>2. \E e \in emitted' : e.conclusion = "success" /\ Covers(Context[e.run], m)
    BY <1>1, <1>2, <2>1
  <2> QED BY <1>1, <1>7, <2>2 DEF FeedbackInv, ResolvedByMatchingSuccess
<1> QED BY <1>8, <1>9, <1>10, <1>11, <1>12, <1>13, <1>14
        DEF FeedbackInv, NoObservationLost, ListingCurrent, ResumeClear

-----------------------------------------------------------------------------
(***************************************************************************)
(* The theorems.                                                           *)
(***************************************************************************)

LEMMA StepKeepsFeedback ==
    ASSUME FeedbackInv, [Next]_vars
    PROVE  FeedbackInv'
<1>1. CASE UNCHANGED vars
  <2>1. FeedbackInv /\ UNCHANGED <<ci, emitted, pending, defects, origins, inv>>
    BY <1>1 DEF vars
  <2> QED BY <2>1, Unmoved, InvocationUntouched DEF FeedbackInv
<1>2. CASE \/ \E r \in Runs : FinishRun(r) \/ RerunWorkflow(r)
           \/ \E o \in OriginIds : MoveOrigin(o)
           \/ \E e \in emitted : Redeliver(e)
  BY <1>2, GitHubSteps
<1>3. CASE StartInvocation \/ AbortInvocation
  BY <1>3, StartStep
<1>4. CASE Failures
  <2>1. CASE ListForFailures \/ ListJobs
    BY <2>1, ListingSteps
  <2>2. CASE FinishFailures
    BY <2>2, StartStep
  <2>3. ASSUME inv.pc = "failures", NEW o \in inv.todo,
               CreateDefect(o) \/ UpdateDefect(o) \/ ReplayFailure(o)
        PROVE  FeedbackInv'
    BY <2>3, CreateStep, UpdateStep, ReplayStep
  <2> QED BY <1>4, <2>1, <2>2, <2>3 DEF Failures
<1>5. CASE Recovery
  <2>1. CASE ListForRecovery
    BY <2>1, ListingSteps
  <2>2. CASE FinishRecovery
    BY <2>2, StartStep
  <2>3. ASSUME inv.pc = "recovery", NEW id \in inv.closing, CloseDefect(id)
        PROVE  FeedbackInv'
    BY <2>3, CloseStep
  <2>4. CASE \/ ResumeOrigin
             \/ inv.pc = "recovery" /\ \E o \in inv.origins : SkipOrigin(o) \/ CheckOrigin(o)
    BY <2>4, OriginSteps
  <2> QED BY <1>5, <2>1, <2>2, <2>3, <2>4 DEF Recovery
<1> QED BY <1>1, <1>2, <1>3, <1>4, <1>5 DEF Next, NextOnce

LEMMA FeedbackAlways == Spec => []FeedbackInv
BY FeedbackInitially, StepKeepsFeedback, PTL DEF Spec

\* The state has its type, and no metadata outgrows the history limit, for every
\* repository, its outcomes and its policy.
THEOREM TypeCorrect == Spec => []TypeOK
BY FeedbackAlways, TypesFollow, PTL

\* No two issues carry one fingerprint, however runs, repetitions and interrupted
\* invocations follow one another (_index_defects, indexed in _process_failures).
THEOREM FingerprintsAreUnique == Spec => []OneDefectPerFingerprint
<1>1. FeedbackInv => OneDefectPerFingerprint
  BY DEF FeedbackInv
<1> QED BY <1>1, FeedbackAlways, PTL

\* While the history of a defect is complete, its count is the number of distinct
\* failing jobs it was observed in (contains_observation, record_failure).
THEOREM FailuresAreCountedOnce == Spec => []CountedOnce
<1>1. FeedbackInv => CountedOnce
  BY DEF FeedbackInv, CountedOnce, IssuesOK, MetaOK, Distinct
<1> QED BY <1>1, FeedbackAlways, PTL

\* What an invocation has dealt with stays recorded while it deals with the rest
\* (_process_failures).
THEOREM ObservationsAreKept == Spec => []NoObservationLost
<1>1. FeedbackInv => NoObservationLost
  BY DEF FeedbackInv
<1> QED BY <1>1, FeedbackAlways, PTL

\* Only a success of the workflow on the pull request of a defect resolves it
\* (_matches_recovery).
THEOREM ResolutionsAreEarned == Spec => []ResolvedByMatchingSuccess
<1>1. FeedbackInv => ResolvedByMatchingSuccess
  BY DEF FeedbackInv
<1> QED BY <1>1, FeedbackAlways, PTL

\* An agent is never offered a defect seen HumanReviewAfter times or in work
\* MaxRemediationDepth deep (_desired_labels).
THEOREM EligibilityIsWithdrawn == Spec => []EligibilityWithdrawn
<1>1. ASSUME FeedbackInv, NEW i \in DOMAIN defects,
             "agent:eligible" \in defects[i].labels
      PROVE  LET m == defects[i].meta IN
             /\ Len(m.observations) < HumanReviewAfter
             /\ \A o \in Elements(m.observations) : Context[o.run].depth < MaxRemediationDepth
  <2> DEFINE m == defects[i].meta
  <2>1. MetaOK(m) /\ "agent:eligible" \in DesiredLabels(m)
    BY <1>1 DEF FeedbackInv, IssuesOK
  <2>2. m.count \in Nat /\ m.depth \in Nat /\ m.observations \in Seq(Observations)
    BY <2>1 DEF MetaOK, Metadata
  <2> HIDE DEF m
  <2>3. ~(m.count >= HumanReviewAfter) /\ ~(m.depth >= MaxRemediationDepth)
    BY <2>1 DEF DesiredLabels
  <2>4. Len(m.observations) < HumanReviewAfter
    BY <2>1, <2>2, <2>3, Limits DEF MetaOK
  <2>5. ASSUME NEW o \in Elements(m.observations)
        PROVE  Context[o.run].depth < MaxRemediationDepth
    <3>1. o \in Observations
      BY <2>2, LenProperties, ElementOfSeq DEF Elements
    <3>2. Context[o.run].depth \in Nat /\ Context[o.run].depth <= m.depth
      BY <2>1, <3>1, ObservationTyped DEF MetaOK
    <3> QED BY <2>2, <2>3, <3>2, Limits
  <2> QED BY <2>4, <2>5 DEF m
<1>2. FeedbackInv => EligibilityWithdrawn
  BY <1>1 DEF EligibilityWithdrawn
<1> QED BY <1>2, FeedbackAlways, PTL

\* Once a recovery has closed what it was to close, every defect it covers is resolved,
\* unless this run had resolved it before (_process_recovery).
THEOREM RecoveriesClose == Spec => []RecoveryCloses
<1>1. ASSUME FeedbackInv, inv.pc \in {"recovery", "resume"}, inv.closing = {},
             NEW i \in DOMAIN defects, Covers(Context[inv.event.run], defects[i].meta)
      PROVE  \/ defects[i].meta.status = "resolved"
             \/ inv.event.run \in Elements(inv.view[i].recoveries)
  <2> DEFINE r == inv.event.run
             m == inv.view[i]
  <2>1. /\ DOMAIN inv.view = DOMAIN defects
        /\ inv.resolved = ToClose(inv.view, r)
        /\ defects[i].meta = IF i \in inv.resolved THEN RecordRecovery(m, r) ELSE m
    BY <1>1 DEF FeedbackInv, RecoveryView
  <2>2. m \in Metadata
    <3>1. inv.view \in Seq(Metadata)
      BY <1>1, InvocationAt DEF FeedbackInv
    <3> QED BY <1>1, <2>1, <3>1, LenProperties, ElementOfSeq
  <2>3. CASE i \in inv.resolved
    BY <2>1, <2>2, <2>3 DEF RecordRecovery, Metadata
  <2>4. CASE i \notin inv.resolved
    <3>1. MatchesRecovery(m, r)
      BY <1>1, <2>1, <2>4 DEF Covers, MatchesRecovery
    <3> QED BY <1>1, <2>1, <2>4, <3>1 DEF ToClose
  <2> QED BY <2>3, <2>4
<1>2. FeedbackInv => RecoveryCloses
  BY <1>1 DEF RecoveryCloses
<1> QED BY <1>2, FeedbackAlways, PTL

\* Counts and depths of defects never fall.
LEMMA NothingForgotten ==
    ASSUME FeedbackInv, [Next]_vars, NEW i \in DOMAIN defects,
           "agent:eligible" \notin defects[i].labels
    PROVE  "agent:eligible" \notin defects'[i].labels
<1>1. /\ MetaOK(defects[i].meta) /\ defects[i].labels = DesiredLabels(defects[i].meta)
      /\ defects \in Seq(Issues) /\ DOMAIN defects = 1..Len(defects) /\ Len(defects) \in Nat
  BY Listing DEF FeedbackInv, IssuesOK, LinearTyped
<1>2. CASE UNCHANGED defects
  BY <1>2
<1>3. ASSUME inv.pc = "failures", NEW o \in inv.todo, CreateDefect(o)
      PROVE  defects'[i] = defects[i]
  <2>1. Issue(FromEvent(o)) \in Issues
    BY <1>3, AtFailures, NewDefect, IssueTyped DEF MetaOK
  <2> QED BY <1>1, <1>3, <2>1, AppendProperties DEF CreateDefect
<1>4. ASSUME inv.pc = "failures", NEW o \in inv.todo, UpdateDefect(o)
      PROVE  "agent:eligible" \notin defects'[i].labels
  <2>1. PICK id \in IndexOf(inv.view, Fingerprint(o)) :
            /\ ~ContainsObservation(inv.view[id], o)
            /\ defects' = [defects EXCEPT ![id] = Issue(RecordFailure(inv.view[id], o))]
    BY <1>4 DEF UpdateDefect
  <2>2. o \in Observations /\ id \in DOMAIN defects /\ inv.view[id] = defects[id].meta
    BY <1>4, <2>1, AtFailures DEF IndexOf
  <2> DEFINE m == defects[id].meta
             n == RecordFailure(m, o)
  <2>3. MetaOK(m)
    BY <2>2 DEF FeedbackInv, IssuesOK
  <2>4. /\ n.count = m.count + 1 /\ n.depth >= m.depth /\ n.depth \in Nat
        /\ m.count \in Nat /\ m.depth \in Nat /\ n \in Metadata
    BY <2>1, <2>2, <2>3, FailureRecorded DEF MetaOK, Metadata
  <2>5. defects' = [defects EXCEPT ![id] = Issue(n)] /\ Issue(n).labels = DesiredLabels(n)
    BY <2>1, <2>2, <2>4, IssueTyped
  <2> HIDE DEF n
  <2>6. CASE i = id
    <3>1. m.count >= HumanReviewAfter \/ m.depth >= MaxRemediationDepth
      BY <1>1, <2>6 DEF DesiredLabels
    <3>2. n.count >= HumanReviewAfter \/ n.depth >= MaxRemediationDepth
      <4> HIDE DEF m
      <4> QED BY <2>4, <3>1, Limits
    <3>3. "agent:eligible" \notin DesiredLabels(n)
      BY <3>2 DEF DesiredLabels
    <3> QED BY <1>1, <2>5, <2>6, <3>3
  <2>7. CASE i # id
    BY <1>1, <2>5, <2>7
  <2> QED BY <2>6, <2>7
<1>5. ASSUME NEW id \in inv.closing, CloseDefect(id)
      PROVE  defects'[i].labels = defects[i].labels
  <2>1. defects[i] \in Issues
    BY Listing DEF FeedbackInv
  <2> QED BY <1>1, <1>5, <2>1 DEF CloseDefect, Issues
<1>6. \/ UNCHANGED defects
      \/ inv.pc = "failures" /\ \E o \in inv.todo : CreateDefect(o) \/ UpdateDefect(o)
      \/ \E id \in inv.closing : CloseDefect(id)
  BY DEF Next, NextOnce, vars, FinishRun, RerunWorkflow, MoveOrigin, Redeliver,
         StartInvocation, AbortInvocation, Failures, ListForFailures, ListJobs,
         FinishFailures, ReplayFailure, Recovery, ListForRecovery, ResumeOrigin,
         FinishRecovery, SkipOrigin, CheckOrigin
<1> QED BY <1>2, <1>3, <1>4, <1>5, <1>6

\* A defect withdrawn from agents is never given back to them (record_failure,
\* _desired_labels).
THEOREM AutonomyIsNeverRegained == Spec => AutonomyNeverRegained
<1>1. FeedbackInv /\ [Next]_vars =>
          [\A i \in DOMAIN defects :
              "agent:eligible" \notin defects[i].labels =>
                  "agent:eligible" \notin defects'[i].labels]_defects
  BY NothingForgotten
<1> QED BY <1>1, FeedbackAlways, PTL DEF Spec, AutonomyNeverRegained

\* An originating issue goes back to review only when Linear holds no open defect of it
\* on the pull request that recovered (_resume_originating_issue).
THEOREM ResumptionsAreClear == Spec => ResumedOnlyWhenClear
<1>1. ASSUME FeedbackInv, ResumeOrigin, NEW i \in DOMAIN defects,
             defects[i].meta.origin = inv.origin,
             defects[i].meta.pr = Context[inv.event.run].pr
      PROVE  defects[i].meta.status = "resolved"
  <2> DEFINE r == inv.event.run
             m == inv.view[i]
  <2>1. inv.pc = "resume" /\ ~StillOpen(inv.origin)
    BY <1>1 DEF ResumeOrigin, FeedbackInv, ResumeClear
  <2>2. /\ DOMAIN inv.view = DOMAIN defects
        /\ defects[i].meta = IF i \in inv.resolved THEN RecordRecovery(m, r) ELSE m
    BY <1>1, <2>1 DEF FeedbackInv, RecoveryView
  <2>3. m \in Metadata
    <3>1. inv.view \in Seq(Metadata)
      BY <1>1, <2>1, InvocationAt DEF FeedbackInv
    <3> QED BY <1>1, <2>2, <3>1, LenProperties, ElementOfSeq
  <2>4. CASE i \in inv.resolved
    BY <2>2, <2>3, <2>4 DEF RecordRecovery, Metadata
  <2>5. CASE i \notin inv.resolved
    BY <1>1, <2>1, <2>2, <2>5 DEF StillOpen
  <2> QED BY <2>4, <2>5
<1>2. ASSUME FeedbackInv, [Next]_vars, NEW o \in OriginIds,
             origins[o] # "in_review", origins'[o] = "in_review"
      PROVE  ResumeOrigin /\ o = inv.origin
  <2>1. origins \in [OriginIds -> {"open", "in_review", "closed", "missing"}]
    BY <1>2 DEF FeedbackInv, LinearTyped
  <2>2. ASSUME NEW x \in OriginIds, MoveOrigin(x) PROVE origins'[o] # "in_review"
    BY <1>2, <2>1, <2>2 DEF MoveOrigin
  <2>3. CASE ResumeOrigin
    BY <1>2, <2>1, <2>3 DEF ResumeOrigin
  <2>4. \/ UNCHANGED origins \/ ResumeOrigin \/ \E x \in OriginIds : MoveOrigin(x)
    BY <1>2 DEF Next, NextOnce, vars, FinishRun, RerunWorkflow, Redeliver,
                StartInvocation, AbortInvocation, Failures, ListForFailures, ListJobs,
                FinishFailures, CreateDefect, UpdateDefect, ReplayFailure, Recovery,
                ListForRecovery, CloseDefect, FinishRecovery, SkipOrigin, CheckOrigin
  <2> QED BY <1>2, <2>2, <2>3, <2>4
<1>3. FeedbackInv /\ [Next]_vars =>
          [\A o \in OriginIds :
              origins[o] # "in_review" /\ origins'[o] = "in_review" =>
                  \A i \in DOMAIN defects :
                      /\ defects[i].meta.origin = o
                      /\ defects[i].meta.pr = Context[inv.event.run].pr
                      => defects[i].meta.status = "resolved"]_origins
  BY <1>1, <1>2
<1> QED BY <1>3, FeedbackAlways, PTL DEF Spec, ResumedOnlyWhenClear

-----------------------------------------------------------------------------
(***************************************************************************)
(* CiFeedback implements the defect ledger.                                *)
(*                                                                         *)
(* The requests of an invocation are steps of the ledger because of what   *)
(* it still means to do: the failures it has left are those of its run,    *)
(* and the originating issues are those of defects its run has resolved.   *)
(***************************************************************************)

FailuresOwn == inv.pc = "failures" => \A o \in inv.todo : o.run = inv.event.run

OriginsOwn ==
    LET own == OriginsOf(inv.view, inv.resolved \cup ResolvedBefore(inv.view, inv.event.run)) IN
    /\ inv.pc \in {"recovery", "resume"} => inv.origins \subseteq own
    /\ inv.pc = "resume" => inv.origin \in own

LedgerInv == FeedbackInv /\ FailuresOwn /\ OriginsOwn

Ledger   == {EntryOf(defects[i]) : i \in DOMAIN defects}
Come     == {<<e.run, e.conclusion>> : e \in emitted}
InReview == {o \in OriginIds : origins[o] = "in_review"}

\* Where the first steps of an invocation lead.
LEMMA StartsAtListing ==
    ASSUME StartInvocation
    PROVE  inv'.pc \notin {"failures", "recovery", "resume"}
<1>1. \/ inv' = [pc |-> "list recovery", event |-> pending]
      \/ inv' = [pc |-> "list failures", event |-> pending]
      \/ inv' = Idle
  BY Zenon DEF StartInvocation
<1>2. CASE inv' = [pc |-> "list recovery", event |-> pending]
  BY <1>2
<1>3. CASE inv' = [pc |-> "list failures", event |-> pending]
  BY <1>3
<1>4. CASE inv' = Idle
  BY <1>4 DEF Idle
<1> QED BY <1>1, <1>2, <1>3, <1>4

LEMMA ListingsGoOn ==
    /\ ListForFailures => inv'.pc \notin {"failures", "recovery", "resume"}
    /\ ListJobs => inv'.pc = "failures"
    /\ ListForRecovery => inv'.pc = "recovery"
<1>1. ASSUME ListForFailures PROVE inv'.pc \notin {"failures", "recovery", "resume"}
  <2>1. inv' = [pc |-> "list jobs", event |-> inv.event, view |-> Metas]
    BY <1>1 DEF ListForFailures
  <2> QED BY <2>1
<1>2. ASSUME ListJobs PROVE inv'.pc = "failures"
  <2>1. PICK jobs :
            inv' = [pc    |-> "failures",
                    event |-> inv.event,
                    view  |-> inv.view,
                    todo  |-> FailureEvents(inv.event.run, ci[inv.event.run].attempt, jobs),
                    done  |-> {}]
    BY <1>2 DEF ListJobs
  <2> QED BY <2>1
<1>3. ASSUME ListForRecovery PROVE inv'.pc = "recovery"
  <2> DEFINE r == inv.event.run
  <2>1. inv' = [pc       |-> "recovery",
                event    |-> inv.event,
                view     |-> Metas,
                closing  |-> ToClose(Metas, r),
                resolved |-> {},
                origins  |-> OriginsOf(Metas, ResolvedBefore(Metas, r)),
                origin   |-> NoValue]
    BY <1>3 DEF ListForRecovery
  <2> QED BY <2>1
<1> QED BY <1>1, <1>2, <1>3

LEMMA FailuresOwnKept ==
    ASSUME LedgerInv, [Next]_vars
    PROVE  FailuresOwn'
<1>1. FeedbackInv /\ FailuresOwn
  BY DEF LedgerInv
<1>2. CASE UNCHANGED inv
  BY <1>1, <1>2 DEF FailuresOwn
<1>3. CASE StartInvocation
  <2>1. inv'.pc # "failures"
    BY <1>3, StartsAtListing
  <2> QED BY <2>1 DEF FailuresOwn
<1>4. CASE AbortInvocation \/ FinishFailures \/ FinishRecovery
  BY <1>4 DEF AbortInvocation, FinishFailures, FinishRecovery, FailuresOwn, Idle
<1>5. CASE ListForFailures \/ ListForRecovery
  <2>1. inv'.pc # "failures"
    BY <1>5, ListingsGoOn
  <2> QED BY <2>1 DEF FailuresOwn
<1>6. CASE ListJobs
  <2> DEFINE r == inv.event.run
  <2>1. PICK jobs \in SUBSET ci[r].outcome.jobs :
            inv' = [pc    |-> "failures",
                    event |-> inv.event,
                    view  |-> inv.view,
                    todo  |-> FailureEvents(r, ci[r].attempt, jobs),
                    done  |-> {}]
    BY <1>6 DEF ListJobs
  <2>2. \A o \in FailureEvents(r, ci[r].attempt, jobs) : o.run = r
    BY DEF FailureEvents, Observation
  <2> QED BY <2>1, <2>2 DEF FailuresOwn
<1>7. ASSUME inv.pc = "failures", NEW o \in inv.todo,
             CreateDefect(o) \/ UpdateDefect(o) \/ ReplayFailure(o)
      PROVE  FailuresOwn'
  <2>1. inv \in [pc : {"failures"}, event : Of("failure"), view : Seq(Metadata),
                 todo : SUBSET Observations, done : SUBSET Observations]
    BY <1>1, <1>7, AtFailures
  <2>2. PICK id, m : Handled(o, id, m)
    BY <1>7 DEF CreateDefect, UpdateDefect, ReplayFailure
  <2>3. inv'.event = inv.event /\ inv'.todo = inv.todo \ {o}
    BY <2>1, <2>2 DEF Handled
  <2> QED BY <1>1, <1>7, <2>3 DEF FailuresOwn
<1>8. ASSUME inv.pc \in {"recovery", "resume"},
             \/ \E id \in inv.closing : CloseDefect(id)
             \/ \E o \in inv.origins : SkipOrigin(o) \/ CheckOrigin(o)
             \/ ResumeOrigin
      PROVE  FailuresOwn'
  <2>1. "pc" \in DOMAIN inv
    <3>1. \/ inv \in [pc : {"recovery"}, event : Of("success"), view : Seq(Metadata),
                      closing : SUBSET Nat, resolved : SUBSET Nat,
                      origins : SUBSET OriginIds, origin : {NoValue}]
          \/ inv \in [pc : {"resume"}, event : Of("success"), view : Seq(Metadata),
                      closing : {{}}, resolved : SUBSET Nat,
                      origins : SUBSET OriginIds, origin : OriginIds]
      BY <1>1, <1>8, InvocationAt DEF FeedbackInv
    <3> QED BY <3>1
  <2>2. inv'.pc # "failures"
    BY <1>8, <2>1 DEF CloseDefect, SkipOrigin, CheckOrigin, ResumeOrigin
  <2> QED BY <2>2 DEF FailuresOwn
<1>9. \/ UNCHANGED inv \/ StartInvocation
      \/ AbortInvocation \/ FinishFailures \/ FinishRecovery
      \/ ListForFailures \/ ListForRecovery \/ ListJobs
      \/ inv.pc = "failures" /\ \E o \in inv.todo :
            CreateDefect(o) \/ UpdateDefect(o) \/ ReplayFailure(o)
      \/ /\ inv.pc \in {"recovery", "resume"}
         /\ \/ \E id \in inv.closing : CloseDefect(id)
            \/ \E o \in inv.origins : SkipOrigin(o) \/ CheckOrigin(o)
            \/ ResumeOrigin
  BY DEF Next, NextOnce, vars, FinishRun, RerunWorkflow, MoveOrigin, Redeliver, Failures,
         Recovery, ResumeOrigin
<1> QED BY <1>2, <1>3, <1>4, <1>5, <1>6, <1>7, <1>8, <1>9

LEMMA OriginsOwnKept ==
    ASSUME LedgerInv, [Next]_vars
    PROVE  OriginsOwn'
<1> DEFINE own(view, resolved, r) == OriginsOf(view, resolved \cup ResolvedBefore(view, r))
<1>1. /\ FeedbackInv
      /\ inv.pc \in {"recovery", "resume"} =>
             inv.origins \subseteq own(inv.view, inv.resolved, inv.event.run)
      /\ inv.pc = "resume" => inv.origin \in own(inv.view, inv.resolved, inv.event.run)
  BY DEF LedgerInv, OriginsOwn
<1>2. ASSUME /\ inv'.pc \in {"recovery", "resume"} =>
                    inv'.origins \subseteq own(inv'.view, inv'.resolved, inv'.event.run)
             /\ inv'.pc = "resume" => inv'.origin \in own(inv'.view, inv'.resolved, inv'.event.run)
      PROVE  OriginsOwn'
  BY <1>2 DEF OriginsOwn, OriginsOf, ResolvedBefore
<1>3. ASSUME NEW v, NEW a, NEW b, NEW r, a \subseteq b
      PROVE  own(v, a, r) \subseteq own(v, b, r) /\ OriginsOf(v, a) \subseteq own(v, b, r)
  BY <1>3 DEF OriginsOf
<1>4. ASSUME NEW v, NEW r PROVE OriginsOf(v, ResolvedBefore(v, r)) \subseteq own(v, {}, r)
  BY DEF OriginsOf
<1> HIDE DEF own
<1>5. CASE UNCHANGED inv
  BY <1>1, <1>2, <1>5
<1>6. ASSUME inv'.pc \notin {"recovery", "resume"}
      PROVE  OriginsOwn'
  BY <1>2, <1>6
<1>7. CASE ListForRecovery
  <2>1. /\ inv'.pc = "recovery" /\ inv'.resolved = {}
        /\ inv'.origins = OriginsOf(inv'.view, ResolvedBefore(inv'.view, inv'.event.run))
    <3> DEFINE r == inv.event.run
    <3>1. inv' = [pc       |-> "recovery",
                  event    |-> inv.event,
                  view     |-> Metas,
                  closing  |-> ToClose(Metas, r),
                  resolved |-> {},
                  origins  |-> OriginsOf(Metas, ResolvedBefore(Metas, r)),
                  origin   |-> NoValue]
      BY <1>7 DEF ListForRecovery
    <3> QED BY <3>1
  <2> QED BY <1>2, <1>4, <2>1
<1>8. ASSUME inv.pc = "recovery", NEW id \in inv.closing, CloseDefect(id)
      PROVE  OriginsOwn'
  <2>1. inv \in [pc : {"recovery"}, event : Of("success"), view : Seq(Metadata),
                 closing : SUBSET Nat, resolved : SUBSET Nat,
                 origins : SUBSET OriginIds, origin : {NoValue}]
    BY <1>1, <1>8, InvocationAt DEF FeedbackInv
  <2>2. /\ inv'.pc = "recovery" /\ inv'.event = inv.event /\ inv'.view = inv.view
        /\ inv'.resolved = inv.resolved \cup {id}
        /\ inv'.origins = inv.origins \cup OriginsOf(inv.view, {id})
    BY <1>8, <2>1 DEF CloseDefect
  <2>3. /\ own(inv.view, inv.resolved, inv.event.run)
                \subseteq own(inv.view, inv'.resolved, inv.event.run)
        /\ OriginsOf(inv.view, {id}) \subseteq own(inv.view, inv'.resolved, inv.event.run)
    BY <1>3, <2>2
  <2> QED BY <1>1, <1>2, <1>8, <2>2, <2>3
<1>9. ASSUME inv.pc = "recovery", NEW o \in inv.origins, SkipOrigin(o) \/ CheckOrigin(o)
      PROVE  OriginsOwn'
  <2>1. inv \in [pc : {"recovery"}, event : Of("success"), view : Seq(Metadata),
                 closing : SUBSET Nat, resolved : SUBSET Nat,
                 origins : SUBSET OriginIds, origin : {NoValue}]
    BY <1>1, <1>9, InvocationAt DEF FeedbackInv
  <2>2. /\ inv'.event = inv.event /\ inv'.view = inv.view /\ inv'.resolved = inv.resolved
        /\ inv'.origins \subseteq inv.origins
        /\ inv'.pc = "resume" => inv'.origin = o
    <3>1. CASE SkipOrigin(o)
      <4>1. inv' = [inv EXCEPT !.origins = @ \ {o}]
        BY <3>1 DEF SkipOrigin
      <4> QED BY <1>9, <2>1, <4>1
    <3>2. CASE CheckOrigin(o)
      <4>1. inv' = [inv EXCEPT !.pc = "resume", !.origins = @ \ {o}, !.origin = o]
        BY <3>2 DEF CheckOrigin
      <4> QED BY <2>1, <4>1
    <3> QED BY <1>9, <3>1, <3>2
  <2> QED BY <1>1, <1>2, <1>9, <2>2
<1>10. CASE ResumeOrigin
  <2>1. inv \in [pc : {"resume"}, event : Of("success"), view : Seq(Metadata),
                 closing : {{}}, resolved : SUBSET Nat,
                 origins : SUBSET OriginIds, origin : OriginIds]
    BY <1>1, <1>10, InvocationAt DEF FeedbackInv, ResumeOrigin
  <2>2. /\ inv'.pc = "recovery"
        /\ inv'.event = inv.event /\ inv'.view = inv.view /\ inv'.resolved = inv.resolved
        /\ inv'.origins = inv.origins
    BY <1>10, <2>1 DEF ResumeOrigin
  <2> QED BY <1>1, <1>2, <2>1, <2>2
<1>11. CASE StartInvocation \/ ListForFailures \/ ListJobs
  <2>1. inv'.pc \notin {"recovery", "resume"}
    <3>1. CASE StartInvocation
      BY <3>1, StartsAtListing
    <3>2. CASE ListForFailures
      BY <3>2, ListingsGoOn
    <3>3. CASE ListJobs
      BY <3>3, ListingsGoOn
    <3> QED BY <1>11, <3>1, <3>2, <3>3
  <2> QED BY <1>6, <2>1
<1>12. CASE AbortInvocation \/ FinishFailures \/ FinishRecovery
  <2>1. inv'.pc = "idle"
    BY <1>12 DEF AbortInvocation, FinishFailures, FinishRecovery, Idle
  <2> QED BY <1>6, <2>1
<1>13. ASSUME inv.pc = "failures", NEW o \in inv.todo,
              CreateDefect(o) \/ UpdateDefect(o) \/ ReplayFailure(o)
       PROVE  OriginsOwn'
  <2>1. inv \in [pc : {"failures"}, event : Of("failure"), view : Seq(Metadata),
                 todo : SUBSET Observations, done : SUBSET Observations]
    BY <1>1, <1>13, AtFailures
  <2>2. PICK id, m : Handled(o, id, m)
    BY <1>13 DEF CreateDefect, UpdateDefect, ReplayFailure
  <2>3. inv'.pc = "failures"
    BY <2>1, <2>2 DEF Handled
  <2> QED BY <1>6, <2>3
<1>14. \/ UNCHANGED inv \/ ListForRecovery \/ ResumeOrigin
       \/ inv.pc = "recovery" /\ \E id \in inv.closing : CloseDefect(id)
       \/ inv.pc = "recovery" /\ \E o \in inv.origins : SkipOrigin(o) \/ CheckOrigin(o)
       \/ StartInvocation \/ ListForFailures \/ ListJobs
       \/ AbortInvocation \/ FinishFailures \/ FinishRecovery
       \/ inv.pc = "failures" /\ \E o \in inv.todo :
             CreateDefect(o) \/ UpdateDefect(o) \/ ReplayFailure(o)
  BY DEF Next, NextOnce, vars, FinishRun, RerunWorkflow, MoveOrigin, Redeliver, Failures,
         Recovery
<1> QED BY <1>5, <1>7, <1>8, <1>9, <1>10, <1>11, <1>12, <1>13, <1>14

\* What a step that writes one defect does to the ledger.
LEMMA EntryReplaced ==
    ASSUME OneDefectPerFingerprint, NEW id \in DOMAIN defects,
           DOMAIN defects' = DOMAIN defects,
           \A i \in DOMAIN defects : i # id => defects'[i] = defects[i]
    PROVE  Ledger' = (Ledger \ {EntryOf(defects[id])}) \cup {EntryOf(defects'[id])}
<1>1. \A i \in DOMAIN defects : i # id => EntryOf(defects[i]) # EntryOf(defects[id])
  <2>1. \A issue : EntryOf(issue).fingerprint = issue.meta.fingerprint
    BY DEF EntryOf
  <2> QED BY <2>1 DEF OneDefectPerFingerprint
<1>2. Ledger' = {EntryOf(defects'[i]) : i \in DOMAIN defects'}
  BY DEF Ledger, EntryOf
<1> HIDE DEF EntryOf
<1> QED BY <1>1, <1>2 DEF Ledger

LEMMA EntryAdded ==
    ASSUME NEW N, DOMAIN defects' = DOMAIN defects \cup {N}, N \notin DOMAIN defects,
           \A i \in DOMAIN defects : defects'[i] = defects[i]
    PROVE  Ledger' = Ledger \cup {EntryOf(defects'[N])}
<1>1. Ledger' = {EntryOf(defects'[i]) : i \in DOMAIN defects'}
  BY DEF Ledger, EntryOf
<1> HIDE DEF EntryOf
<1> QED BY <1>1 DEF Ledger

\* The label that offers a defect to agents.
LEMMA Eligibility ==
    ASSUME NEW m
    PROVE  "agent:eligible" \in DesiredLabels(m) <=>
               ~(m.count >= HumanReviewAfter) /\ ~(m.depth >= MaxRemediationDepth)
BY DEF DesiredLabels

\* The event at hand is one that the ledger has seen.
LEMMA EventCome ==
    ASSUME FeedbackInv
    PROVE  /\ inv.pc = "failures" =>
                  inv.event.run \in Runs /\ <<inv.event.run, "failure">> \in Come
           /\ inv.pc \in {"recovery", "resume"} =>
                  inv.event.run \in Runs /\ <<inv.event.run, "success">> \in Come
<1>1. CASE inv.pc = "failures"
  <2>1. inv.event \in Of("failure")
    BY <1>1, InvocationAt DEF FeedbackInv
  <2>2. inv.event \in emitted /\ inv.event.conclusion = "failure" /\ inv.event.run \in Runs
    BY <2>1 DEF Of, FeedbackInv, GitHubTyped
  <2> QED BY <1>1, <2>2 DEF Come
<1>2. CASE inv.pc \in {"recovery", "resume"}
  <2>1. inv.event \in Of("success")
    BY <1>2, InvocationAt DEF FeedbackInv
  <2>2. inv.event \in emitted /\ inv.event.conclusion = "success" /\ inv.event.run \in Runs
    BY <2>1 DEF Of, FeedbackInv, GitHubTyped
  <2> QED BY <1>2, <2>2 DEF Come
<1> QED BY <1>1, <1>2

\* create_issue enters a defect.
LEMMA CreationIsEntered ==
    ASSUME LedgerInv, inv.pc = "failures", NEW o \in inv.todo, CreateDefect(o)
    PROVE  L!Next
<1> DEFINE m == FromEvent(o)
           N == Len(defects) + 1
           r == inv.event.run
<1>1. /\ UNCHANGED <<ci, emitted, pending, origins>>
      /\ defects' = Append(defects, Issue(m))
      /\ IndexOf(inv.view, Fingerprint(o)) = {}
  BY DEF CreateDefect
<1>2. /\ o \in Observations /\ o.run = r /\ r \in Runs /\ <<r, "failure">> \in Come
      /\ DOMAIN inv.view = DOMAIN defects
      /\ \A i \in DOMAIN defects : inv.view[i] = defects[i].meta
  BY AtFailures, EventCome DEF LedgerInv, FailuresOwn
<1>3. m \in Metadata /\ o.check \in Checks /\ Context[r].depth \in Nat
  BY <1>2, NewDefect, ObservationTyped DEF MetaOK
<1>4. Issue(m) \in Issues /\ Issue(m).meta = m /\ Issue(m).labels = DesiredLabels(m)
  BY <1>3, IssueTyped
<1>5. EntryOf(Issue(m)) = L!Opened(r, o.check)
  <2>1. "agent:eligible" \in DesiredLabels(m) <=> L!ForAgents(1, r)
    <3>1. m.count = 1 /\ m.depth = Context[r].depth
      BY <1>2 DEF FromEvent
    <3> QED BY <1>3, <3>1, Eligibility, Limits DEF L!ForAgents
  <2>2. /\ m.fingerprint = <<Context[r].workflow, o.check>> /\ m.workflow = Context[r].workflow
        /\ m.pr = Context[r].pr /\ m.branch = Context[r].branch
        /\ m.origin = Context[r].origin /\ m.status = "open" /\ m.count = 1
    BY <1>2 DEF FromEvent, Fingerprint
  <2> HIDE DEF m
  <2>3. ("agent:eligible" \in Issue(m).labels) = L!ForAgents(1, r)
    BY <1>4, <2>1 DEF L!ForAgents
  <2> HIDE DEF r
  <2> QED BY <1>4, <2>2, <2>3, Zenon DEF EntryOf, L!Opened
<1>6. /\ DOMAIN defects' = DOMAIN defects \cup {N} /\ N \notin DOMAIN defects
      /\ \A i \in DOMAIN defects : defects'[i] = defects[i]
      /\ defects'[N] = Issue(m)
  <2>1. Len(defects) \in Nat /\ DOMAIN defects = 1..Len(defects) /\ defects \in Seq(Issues)
    BY Listing DEF LedgerInv, FeedbackInv, LinearTyped
  <2> HIDE DEF m
  <2>2. /\ defects' \in Seq(Issues) /\ Len(defects') = N
        /\ \A i \in 1..Len(defects) : defects'[i] = defects[i]
        /\ defects'[N] = Issue(m)
    BY <1>1, <1>4, <2>1, AppendProperties
  <2>3. DOMAIN defects' = 1..N
    BY <2>2, LenProperties
  <2> QED BY <2>1, <2>2, <2>3
<1>7. Ledger' = Ledger \cup {L!Opened(r, o.check)}
  BY <1>5, <1>6, EntryAdded
<1>8. {d \in Ledger : d.fingerprint = <<Context[r].workflow, o.check>>} = {}
  <2>1. \A i \in DOMAIN defects : EntryOf(defects[i]).fingerprint # Fingerprint(o)
    BY <1>1, <1>2 DEF IndexOf, EntryOf
  <2> QED BY <1>2, <2>1 DEF Ledger, Fingerprint
<1>9. Come' = Come /\ InReview' = InReview
  BY <1>1 DEF Come, InReview
<1> HIDE DEF m, N, r
<1> QED BY <1>2, <1>3, <1>7, <1>8, <1>9 DEF L!Next, L!Report, Ledger, Come, InReview

\* What record_failure writes.
LEMMA FailureWritten ==
    ASSUME NEW old \in Metadata, NEW o \in Observations
    PROVE  LET m == RecordFailure(old, o)
               c == Context[o.run]
           IN  /\ m.fingerprint = old.fingerprint /\ m.workflow = old.workflow
               /\ m.pr = c.pr /\ m.branch = c.branch
               /\ m.origin = (IF c.origin # NoValue THEN c.origin ELSE old.origin)
               /\ m.status = "open" /\ m.count = old.count + 1
               /\ m.depth = Maximum(old.depth, c.depth)
BY DEF RecordFailure, Metadata

\* _update_defect reopens one, or counts another failure of it.
LEMMA UpdateIsEntered ==
    ASSUME LedgerInv, inv.pc = "failures", NEW o \in inv.todo, UpdateDefect(o)
    PROVE  L!Next
<1>1. PICK id \in IndexOf(inv.view, Fingerprint(o)) :
          /\ ~ContainsObservation(inv.view[id], o)
          /\ defects' = [defects EXCEPT ![id] = Issue(RecordFailure(inv.view[id], o))]
  BY DEF UpdateDefect
<1> DEFINE old == defects[id].meta
           m == RecordFailure(inv.view[id], o)
           r == inv.event.run
           d == EntryOf(defects[id])
<1>2. UNCHANGED <<ci, emitted, pending, origins>>
  BY DEF UpdateDefect
<1>3. /\ o \in Observations /\ o.run = r /\ r \in Runs /\ <<r, "failure">> \in Come
      /\ DOMAIN inv.view = DOMAIN defects
      /\ \A i \in DOMAIN defects : inv.view[i] = defects[i].meta
  BY AtFailures, EventCome DEF LedgerInv, FailuresOwn
<1>4. /\ id \in DOMAIN defects /\ old.fingerprint = Fingerprint(o) /\ inv.view[id] = old
      /\ MetaOK(old) /\ old \in Metadata /\ defects[id].labels = DesiredLabels(old)
  BY <1>1, <1>3 DEF IndexOf, LedgerInv, FeedbackInv, IssuesOK, MetaOK
<1>5. /\ m \in Metadata /\ o.check \in Checks /\ Context[r].depth \in Nat
      /\ old.count \in Nat /\ old.depth \in Nat
  <2>1. m \in Metadata
    BY <1>1, <1>3, <1>4, FailureRecorded DEF MetaOK
  <2> QED BY <1>3, <1>4, <2>1, ObservationTyped DEF Metadata
<1>6. Issue(m) \in Issues /\ Issue(m).meta = m /\ Issue(m).labels = DesiredLabels(m)
  BY <1>5, IssueTyped
<1>7. EntryOf(Issue(m)) = L!Reopened(d, r)
  <2>1. /\ m.fingerprint = old.fingerprint /\ m.workflow = old.workflow
        /\ m.pr = Context[r].pr /\ m.branch = Context[r].branch
        /\ m.origin = (IF Context[r].origin # NoValue THEN Context[r].origin ELSE old.origin)
        /\ m.status = "open" /\ m.count = old.count + 1
        /\ m.depth = Maximum(old.depth, Context[r].depth)
    BY <1>3, <1>4, FailureWritten
  <2> HIDE DEF m, old, r
  <2>2. "agent:eligible" \in DesiredLabels(m) <=>
            ~(m.count >= HumanReviewAfter) /\ ~(m.depth >= MaxRemediationDepth)
    BY Eligibility
  <2>3. "agent:eligible" \in DesiredLabels(old) <=>
            ~(old.count >= HumanReviewAfter) /\ ~(old.depth >= MaxRemediationDepth)
    BY Eligibility
  <2>4. "agent:eligible" \in DesiredLabels(m) <=>
            /\ "agent:eligible" \in DesiredLabels(old)
            /\ old.count + 1 < HumanReviewAfter /\ Context[r].depth < MaxRemediationDepth
    BY <1>5, <2>1, <2>2, <2>3, Limits DEF Maximum
  <2>5. /\ d.fingerprint = old.fingerprint /\ d.workflow = old.workflow
        /\ d.origin = old.origin /\ d.times = old.count
        /\ d.eligible = ("agent:eligible" \in defects[id].labels)
    BY Zenon DEF EntryOf, old
  <2>6. ("agent:eligible" \in Issue(m).labels) =
            ("agent:eligible" \in defects[id].labels /\ L!ForAgents(old.count + 1, r))
    BY <1>4, <1>6, <2>4 DEF L!ForAgents
  <2> HIDE DEF d
  <2> QED BY <1>6, <2>1, <2>5, <2>6, Zenon DEF EntryOf, L!Reopened
<1>8. /\ DOMAIN defects' = DOMAIN defects /\ defects'[id] = Issue(m)
      /\ \A i \in DOMAIN defects : i # id => defects'[i] = defects[i]
  BY <1>1, <1>4
<1>9. Ledger' = (Ledger \ {d}) \cup {L!Reopened(d, r)}
  BY <1>4, <1>7, <1>8, EntryReplaced DEF LedgerInv, FeedbackInv
<1>10. d \in {e \in Ledger : e.fingerprint = <<Context[r].workflow, o.check>>}
  <2>1. d.fingerprint = Fingerprint(o)
    BY <1>4 DEF EntryOf
  <2> QED BY <1>3, <1>4, <2>1 DEF Ledger, Fingerprint
<1>11. Come' = Come /\ InReview' = InReview
  BY <1>2 DEF Come, InReview
<1> HIDE DEF m, r, d
<1> QED BY <1>3, <1>5, <1>9, <1>10, <1>11 DEF L!Next, L!Report, Ledger, Come, InReview

\* _close_defect resolves one.
LEMMA ClosureIsEntered ==
    ASSUME LedgerInv, inv.pc = "recovery", NEW id \in inv.closing, CloseDefect(id)
    PROVE  L!Next
<1> DEFINE r == inv.event.run
           old == defects[id].meta
           m == RecordRecovery(inv.view[id], r)
           d == EntryOf(defects[id])
<1>1. /\ UNCHANGED <<ci, emitted, pending, origins>>
      /\ defects' = [defects EXCEPT ![id].meta = m, ![id].state = "done"]
  BY DEF CloseDefect
<1>2. /\ FeedbackInv /\ r \in Runs /\ <<r, "success">> \in Come
      /\ DOMAIN inv.view = DOMAIN defects
      /\ inv.closing \cup inv.resolved = ToClose(inv.view, r)
      /\ inv.closing \cap inv.resolved = {}
      /\ \A i \in DOMAIN defects :
            defects[i].meta = IF i \in inv.resolved THEN RecordRecovery(inv.view[i], r)
                                                    ELSE inv.view[i]
  BY EventCome DEF LedgerInv, FeedbackInv, RecoveryView
<1>3. /\ id \in DOMAIN defects /\ inv.view[id] = old /\ MetaOK(old) /\ old \in Metadata
      /\ MatchesRecovery(old, r) /\ old.status # "resolved" /\ defects[id] \in Issues
  BY <1>2, Listing DEF ToClose, FeedbackInv, IssuesOK, MetaOK
<1>4. old.status = "open"
  BY <1>3 DEF Metadata
<1>5. /\ m.status = "resolved" /\ m.fingerprint = old.fingerprint /\ m.workflow = old.workflow
      /\ m.pr = old.pr /\ m.branch = old.branch /\ m.origin = old.origin /\ m.count = old.count
  BY <1>3 DEF RecordRecovery, Metadata
<1> HIDE DEF m
<1>6. /\ DOMAIN defects' = DOMAIN defects
      /\ defects'[id].meta = m /\ defects'[id].labels = defects[id].labels
      /\ \A i \in DOMAIN defects : i # id => defects'[i] = defects[i]
  <2> DEFINE x == [defects[id] EXCEPT !.meta = m, !.state = "done"]
  <2>1. x.meta = m /\ x.labels = defects[id].labels
    BY <1>3 DEF Issues
  <2>2. defects' = [defects EXCEPT ![id] = x]
    BY <1>1, <1>3
  <2> HIDE DEF x
  <2> QED BY <1>3, <2>1, <2>2
<1>7. EntryOf(defects'[id]) = [d EXCEPT !.status = "resolved"]
  <2> DEFINE offered == "agent:eligible" \in defects[id].labels
  <2>1. d = [fingerprint |-> old.fingerprint, workflow |-> old.workflow, pr |-> old.pr,
             branch |-> old.branch, origin |-> old.origin, status |-> old.status,
             times |-> old.count, eligible |-> offered]
    BY DEF EntryOf
  <2>2. EntryOf(defects'[id]) =
            [fingerprint |-> old.fingerprint, workflow |-> old.workflow, pr |-> old.pr,
             branch |-> old.branch, origin |-> old.origin, status |-> "resolved",
             times |-> old.count, eligible |-> offered]
    BY <1>5, <1>6, Zenon DEF EntryOf
  <2> HIDE DEF offered, old, d
  <2> QED BY <2>1, <2>2
<1>8. Ledger' = (Ledger \ {d}) \cup {[d EXCEPT !.status = "resolved"]}
  BY <1>2, <1>3, <1>6, <1>7, EntryReplaced DEF FeedbackInv
<1>9. d \in Ledger /\ d.status = "open" /\ L!Covers(r, d)
  BY <1>3, <1>4 DEF Ledger, EntryOf, L!Covers, MatchesRecovery
<1>10. Come' = Come /\ InReview' = InReview
  BY <1>1 DEF Come, InReview
<1> HIDE DEF r, d
<1> QED BY <1>2, <1>8, <1>9, <1>10 DEF L!Next, L!Resolve, Ledger, Come, InReview

\* update_issue of an originating issue.
LEMMA ResumptionIsEntered ==
    ASSUME LedgerInv, ResumeOrigin
    PROVE  L!Next
<1> DEFINE r == inv.event.run
           o == inv.origin
<1>1. /\ inv.pc = "resume" /\ UNCHANGED <<ci, emitted, pending, defects>>
      /\ origins' = [origins EXCEPT ![o] = "in_review"]
  BY DEF ResumeOrigin
<1>2. /\ FeedbackInv /\ r \in Runs /\ <<r, "success">> \in Come
      /\ DOMAIN inv.view = DOMAIN defects
      /\ inv.resolved \subseteq ToClose(inv.view, r)
      /\ \A i \in DOMAIN defects :
            defects[i].meta = IF i \in inv.resolved THEN RecordRecovery(inv.view[i], r)
                                                    ELSE inv.view[i]
      /\ ~StillOpen(o)
      /\ o \in OriginsOf(inv.view, inv.resolved \cup ResolvedBefore(inv.view, r))
  BY <1>1, EventCome DEF LedgerInv, FeedbackInv, RecoveryView, ResumeClear, OriginsOwn
<1>3. o \in OriginIds /\ o # NoValue
  BY <1>1, <1>2, InvocationAt DEF FeedbackInv, OriginsOf
<1>4. ASSUME NEW i \in DOMAIN defects
      PROVE  /\ inv.view[i] \in Metadata
             /\ defects[i].meta.origin = inv.view[i].origin
             /\ defects[i].meta.pr = inv.view[i].pr
             /\ defects[i].meta.branch = inv.view[i].branch
             /\ defects[i].meta.workflow = inv.view[i].workflow
             /\ defects[i].meta.status = IF i \in inv.resolved THEN "resolved"
                                         ELSE inv.view[i].status
  <2>1. inv.view \in Seq(Metadata)
    BY <1>1, <1>2, InvocationAt DEF FeedbackInv
  <2>2. inv.view[i] \in Metadata
    BY <1>2, <2>1, LenProperties, ElementOfSeq
  <2> QED BY <1>2, <2>2 DEF RecordRecovery, Metadata
<1>5. PICK i \in inv.resolved \cup ResolvedBefore(inv.view, r) : inv.view[i].origin = o
  BY <1>2 DEF OriginsOf
<1>6. /\ i \in DOMAIN defects /\ defects[i].meta.status = "resolved"
      /\ defects[i].meta.origin = o /\ MatchesRecovery(defects[i].meta, r)
  <2>1. i \in DOMAIN defects /\ MatchesRecovery(inv.view[i], r)
    BY <1>2, <1>5 DEF ToClose, ResolvedBefore
  <2>2. defects[i].meta.status = "resolved"
    BY <1>4, <1>5, <2>1 DEF ResolvedBefore
  <2>3. MatchesRecovery(defects[i].meta, r)
    BY <1>4, <2>1 DEF MatchesRecovery
  <2> QED BY <1>4, <1>5, <2>1, <2>2, <2>3
<1>7. o \in {d.origin : d \in {e \in Ledger : e.status = "resolved" /\ L!Covers(r, e)}} \ {NoValue}
  <2> DEFINE d == EntryOf(defects[i])
  <2>1. d \in Ledger /\ d.status = "resolved" /\ L!Covers(r, d) /\ d.origin = o
    BY <1>6 DEF Ledger, EntryOf, L!Covers, MatchesRecovery
  <2> HIDE DEF d
  <2> QED BY <1>3, <2>1
<1>8. \A d \in Ledger : d.origin = o /\ d.pr = Context[r].pr => d.status = "resolved"
  <2>1. ASSUME NEW k \in DOMAIN defects, defects[k].meta.origin = o,
               defects[k].meta.pr = Context[r].pr
        PROVE  defects[k].meta.status = "resolved"
    BY <1>2, <1>4, <2>1 DEF StillOpen
  <2>2. ASSUME NEW k \in DOMAIN defects, EntryOf(defects[k]).origin = o,
               EntryOf(defects[k]).pr = Context[r].pr
        PROVE  EntryOf(defects[k]).status = "resolved"
    <3>1. defects[k].meta.status = "resolved"
      BY <2>1, <2>2 DEF EntryOf
    <3> QED BY <3>1 DEF EntryOf
  <2> QED BY <2>2 DEF Ledger
<1>9. InReview' = InReview \cup {o}
  BY <1>1, <1>2, <1>3 DEF InReview, FeedbackInv, LinearTyped
<1>10. Come' = Come /\ Ledger' = Ledger
  BY <1>1 DEF Come, Ledger, EntryOf
<1> HIDE DEF r, o
<1> QED BY <1>2, <1>7, <1>8, <1>9, <1>10 DEF L!Next, L!Resume, Ledger, Come, InReview

\* What happens outside the invocation.
LEMMA CompletionIsEntered ==
    ASSUME LedgerInv, NEW r \in Runs, FinishRun(r)
    PROVE  L!Next
<1> DEFINE c == ci[r].outcome.conclusion
<1>1. c \in {"success", "failure", "cancelled"}
  <2>1. ci[r].outcome \in Outcomes
    BY DEF LedgerInv, FeedbackInv, GitHubTyped
  <2> QED BY <2>1, OutcomeAssumption DEF Conclusions
<1>2. /\ emitted' = emitted \cup {Completed(r)} /\ UNCHANGED <<defects, origins>>
      /\ Completed(r).run = r /\ Completed(r).conclusion = c
  BY DEF FinishRun, Completed
<1>3. /\ Come' = Come \cup {<<r, c>>} /\ Ledger' = Ledger /\ InReview' = InReview
  BY <1>2 DEF Come, Ledger, InReview, EntryOf
<1> HIDE DEF c
<1> QED BY <1>1, <1>3 DEF L!Next, L!Complete, Ledger, Come, InReview

LEMMA MoveIsEntered ==
    ASSUME LedgerInv, NEW o \in OriginIds, MoveOrigin(o)
    PROVE  L!Next \/ UNCHANGED L!vars
<1>1. UNCHANGED <<emitted, defects>>
  BY DEF MoveOrigin
<1>2. InReview' = InReview \ {o}
  BY DEF MoveOrigin, InReview, LedgerInv, FeedbackInv, LinearTyped
<1>3. Come' = Come /\ Ledger' = Ledger
  BY <1>1 DEF Come, Ledger, EntryOf
<1>4. CASE o \in InReview
  BY <1>2, <1>3, <1>4 DEF L!Next, L!Leave, Ledger, Come, InReview
<1>5. CASE o \notin InReview
  BY <1>2, <1>3, <1>5 DEF L!vars, Ledger, Come, InReview
<1> QED BY <1>4, <1>5

LEMMA NothingEntered ==
    ASSUME UNCHANGED <<emitted, defects, origins>>
    PROVE  UNCHANGED L!vars
BY DEF L!vars, EntryOf

\* Every step of CI feedback is a step of the ledger or none.
LEMMA LedgerStep ==
    ASSUME LedgerInv, [Next]_vars
    PROVE  LedgerInv' /\ (L!Next \/ UNCHANGED L!vars)
<1>1. LedgerInv'
  BY StepKeepsFeedback, FailuresOwnKept, OriginsOwnKept DEF LedgerInv
<1>2. ASSUME NEW r \in Runs, FinishRun(r) PROVE L!Next
  BY <1>2, CompletionIsEntered
<1>3. ASSUME NEW o \in OriginIds, MoveOrigin(o) PROVE L!Next \/ UNCHANGED L!vars
  BY <1>3, MoveIsEntered
<1>4. ASSUME inv.pc = "failures", NEW o \in inv.todo, CreateDefect(o) \/ UpdateDefect(o)
      PROVE  L!Next
  BY <1>4, CreationIsEntered, UpdateIsEntered
<1>5. ASSUME inv.pc = "recovery", NEW id \in inv.closing, CloseDefect(id)
      PROVE  L!Next
  BY <1>5, ClosureIsEntered
<1>6. ASSUME ResumeOrigin PROVE L!Next
  BY <1>6, ResumptionIsEntered
<1>7. \/ UNCHANGED <<emitted, defects, origins>>
      \/ \E r \in Runs : FinishRun(r)
      \/ \E o \in OriginIds : MoveOrigin(o)
      \/ inv.pc = "failures" /\ \E o \in inv.todo : CreateDefect(o) \/ UpdateDefect(o)
      \/ inv.pc = "recovery" /\ \E id \in inv.closing : CloseDefect(id)
      \/ ResumeOrigin
  BY DEF Next, NextOnce, vars, RerunWorkflow, Redeliver, StartInvocation, AbortInvocation,
         Failures, ListForFailures, ListJobs, FinishFailures, ReplayFailure, Recovery,
         ListForRecovery, FinishRecovery, SkipOrigin, CheckOrigin
<1> QED BY <1>1, <1>2, <1>3, <1>4, <1>5, <1>6, <1>7, NothingEntered

LEMMA LedgerInit == Init => L!Init /\ LedgerInv
<1> SUFFICES ASSUME Init PROVE L!Init /\ LedgerInv
  OBVIOUS
<1>1. FeedbackInv
  BY FeedbackInitially
<1>2. inv.pc = "idle"
  BY DEF Init, Idle
<1>3. FailuresOwn /\ OriginsOwn
  BY <1>2 DEF FailuresOwn, OriginsOwn
<1>4. emitted = {} /\ DOMAIN defects = {}
  BY EmptySeq DEF Init
<1>5. \A o \in OriginIds : origins[o] # "in_review"
  BY DEF Init
<1> QED BY <1>1, <1>3, <1>4, <1>5 DEF L!Init, LedgerInv

\* ImplementsLedger, for every repository, its runs, outcomes and policy: whatever is
\* repeated, displaced or stopped half way, what Linear holds is a defect ledger, and
\* every request of the service a step of it or none.
THEOREM FeedbackImplementsLedger == Spec => ImplementsLedger
<1>1. LedgerInv /\ [Next]_vars => LedgerInv' /\ [L!Next]_(L!vars)
  BY LedgerStep
<1> QED BY <1>1, LedgerInit, PTL DEF Spec, ImplementsLedger, L!Spec

-----------------------------------------------------------------------------
(***************************************************************************)
(* What the service inherits from the ledger.                              *)
(***************************************************************************)

\* The theorems about DefectLedger, of what Linear and GitHub hold.
LP == INSTANCE LedgerProofs WITH
        completed <- {<<e.run, e.conclusion>> : e \in emitted},
        ledger    <- {EntryOf(defects[i]) : i \in DOMAIN defects},
        in_review <- {o \in OriginIds : origins[o] = "in_review"}

LEMMA SameLedger == (L!Init <=> LP!Init) /\ ([L!Next]_(L!vars) <=> [LP!Next]_(LP!vars))
<1> USE DEF L!Covers, LP!Covers, L!Opened, LP!Opened, L!Reopened, LP!Reopened,
            L!ForAgents, LP!ForAgents
<1>1. L!Init <=> LP!Init
  BY DEF L!Init, LP!Init
<1>2. L!vars = LP!vars /\ (L!vars)' = (LP!vars)'
  BY DEF L!vars, LP!vars
<1>3. ASSUME NEW r PROVE
      /\ L!Complete(r) <=> LP!Complete(r)
      /\ L!Report(r) <=> LP!Report(r)
      /\ L!Resolve(r) <=> LP!Resolve(r)
      /\ L!Resume(r) <=> LP!Resume(r)
      /\ L!Leave(r) <=> LP!Leave(r)
  BY DEF L!Complete, LP!Complete, L!Report, LP!Report, L!Resolve, LP!Resolve, L!Resume,
         LP!Resume, L!Leave, LP!Leave
<1>4. L!Next <=> LP!Next
  BY <1>3 DEF L!Next, LP!Next
<1> QED BY <1>1, <1>2, <1>4

\* Whatever is repeated, displaced or stopped half way, every defect in Linear is where a
\* run of its workflow failed and has its origin from such a run, none is resolved but by
\* a success there, and the service returns no issue to review without both.  No step
\* takes a defect's failures, origin or withdrawn eligibility back, and only another
\* failure reopens it.
THEOREM FeedbackKeepsLedger ==
    Spec => /\ [](L!FromFailures /\ L!ResolvedOnSuccess /\ L!ReviewEarned)
            /\ [][L!Remembering]_(L!vars)
<1>1. LP!Spec => /\ [](LP!OneEntryPerCheck /\ LP!FromFailures /\ LP!ResolvedOnSuccess)
                 /\ []LP!ReviewEarned /\ [][LP!Remembering]_(LP!vars)
  BY LP!EntriesAreFounded, LP!ReviewsAreEarned, LP!EntriesAreRemembered
<1>2. ASSUME NEW r PROVE (L!Failed(r) <=> LP!Failed(r)) /\ (L!Succeeded(r) <=> LP!Succeeded(r))
  BY DEF L!Failed, LP!Failed, L!Succeeded, LP!Succeeded
<1>3. LP!FromFailures => L!FromFailures
  BY <1>2 DEF L!FromFailures, LP!FromFailures
<1>4. LP!ResolvedOnSuccess => L!ResolvedOnSuccess
  BY <1>2 DEF L!ResolvedOnSuccess, LP!ResolvedOnSuccess, L!Covers, LP!Covers
<1>5. LP!ReviewEarned => L!ReviewEarned
  BY <1>2 DEF L!ReviewEarned, LP!ReviewEarned
<1>6. LP!Remembering => L!Remembering
  BY DEF L!Remembering, LP!Remembering, L!Remembered, LP!Remembered
<1>7. (L!vars)' = L!vars <=> (LP!vars)' = LP!vars
  BY DEF L!vars, LP!vars
<1>8. [LP!Remembering]_(LP!vars) => [L!Remembering]_(L!vars)
  BY <1>6, <1>7
<1>9. L!Init => LP!Init
  BY SameLedger
<1>10. [L!Next]_(L!vars) => [LP!Next]_(LP!vars)
  BY SameLedger
<1> QED BY <1>1, <1>3, <1>4, <1>5, <1>8, <1>9, <1>10, FeedbackImplementsLedger, PTL
       DEF ImplementsLedger, L!Spec, LP!Spec

=============================================================================
