-------------------------- MODULE Improvement_proofs --------------------------
(* Proofs about Improvement: its type invariant, that the gates of a code   *)
(* change stand in order, that what is deployed was reviewed, where the     *)
(* values of the configuration come from, and that the original one is      *)
(* kept.                                                                    *)
(*                                                                          *)
(* The properties speak of rows that are written, but a precondition is     *)
(* checked long before: so the invariant says of every write that a call    *)
(* has in hand that its precondition still holds.  It does because rows are *)
(* only ever added.                                                         *)
EXTENDS Improvement, SequenceTheorems, TLAPS

AnyWrite == TableWrite \cup FileWrite

\* The row that a step may not come without.
Stands(p, e, v) == [proposal |-> p, event |-> e, value |-> v] \in audit

\* What has to be there before a row is written.
Gate(r) ==
    /\ r.event = "code_change_package_prepared" => IsApproved(r.proposal)
    /\ r.event = "verification_passed" =>
          Recorded(r.proposal, "code_change_package_prepared")
    /\ r.event = "human_review_requested" =>
          Recorded(r.proposal, "verification_passed")
    /\ r.event = "human_review_approved" =>
          Recorded(r.proposal, "human_review_requested")
    /\ r.event = "branch_pushed" =>
          Recorded(r.proposal, "human_review_approved")
    /\ r.event = "mr_created" => Recorded(r.proposal, "branch_pushed")
    /\ r.event = "mr_merged" =>
          \E m \in audit : /\ m.proposal = r.proposal /\ m.event = "mr_created"
                           /\ m.value.url = r.value.url
    /\ r.event = "deployment_plan_prepared" =>
          \E m \in audit : /\ m.proposal = r.proposal /\ m.event = "mr_merged"
                           /\ m.value.commit = r.value.commit
    /\ r.event \in {"deployment_started", "deployment_succeeded",
                    "deployment_failed"} =>
          Stands(r.proposal, "deployment_plan_prepared", r.value)
    /\ r.event = "rollback_succeeded" =>
          \/ Recorded(r.proposal, "deployment_succeeded")
          \/ Recorded(r.proposal, "deployment_failed")

\* The writes of a call: a pull request is recorded right behind its branch.
SoundAudit(w) ==
    \A i \in 1 .. Len(w) : w[i].table = "audit" =>
        \/ Gate(w[i].row)
        \/ /\ w[i].row.event = "mr_created"
           /\ i > 1
           /\ w[i - 1] = Audit(w[i].row.proposal, "branch_pushed", Blank)

\* The original is in a backup, or a name has been used twice.
Saved == (\E s \in Stamps : backups[s] = Original) \/ clashed

\* A call that has yet to replace the file has yet to make its copy, or the
\* original is in a backup already.
SoundFile(w) ==
    \A i \in 1 .. Len(w) : w[i].table = "file" =>
        /\ Accounted(w[i].content)
        /\ \/ i = 2 /\ w[1].table = "backup"
           \/ Saved

SoundCopy(w) ==
    \A i \in 1 .. Len(w) : w[i].table = "backup" =>
        i = 1 /\ (backups[w[i].stamp] = NoFile \/ clashed)

\* What a call may have in hand.
Sound(w) == SoundAudit(w) /\ SoundFile(w) /\ SoundCopy(w)

Copies(c, s) == call[c] # <<>> /\ call[c][1] = Copy(s)

OneCopyEach == ~ clashed =>
    \A c, d \in Callers : \A s \in Stamps :
        Copies(c, s) /\ Copies(d, s) => c = d

NewestIsRecorded ==
    \A p \in Proposals : \A e \in Events : \A v \in newest[p][e] :
        Stands(p, e, v)

IInv ==
    /\ TypeOK
    /\ NewestIsRecorded
    /\ \A r \in audit : Gate(r)
    /\ \A c \in Callers : Sound(call[c])
    /\ OneCopyEach
    /\ ValuesAreAccountedFor
    /\ OriginalIsKept

\* What a call may begin with: its copy, if any, comes first, and is one no
\* other call makes, or a name is used twice from then on.
Fresh(w) ==
    \A i \in 1 .. Len(w) : w[i].table = "backup" =>
        i = 1 /\ (Unused(w[i].stamp) \/ clashed')

Good(w) == w \in Seq(AnyWrite) /\ SoundAudit(w) /\ SoundFile(w) /\ Fresh(w)

------------------------------------------------------------------------------
(* The writes of the handlers of a code change.                             *)

\* Payloads are records of the table's columns.
LEMMA PayloadType ==
    /\ Blank \in Payload
    /\ \A u \in Urls : PullRequest(u) \in Payload
    /\ \A u \in Urls, k \in Commits : Merged(u, k) \in Payload
    /\ \A k \in Commits, t \in Targets : Plan(k, t) \in Payload
    /\ \A t \in Targets : On(t) \in Payload
PROOF
BY DEF Blank, PullRequest, Merged, Plan, On, Payload

\* A single audit row whose gate stands.
LEMMA OneAudit ==
    ASSUME NEW p \in Proposals, NEW e \in Events, NEW v \in Payload,
           Gate([proposal |-> p, event |-> e, value |-> v])
    PROVE  Good(<<Audit(p, e, v)>>)
PROOF
<1> DEFINE w == <<Audit(p, e, v)>>
<1>1. w \in Seq(AnyWrite) /\ Len(w) = 1
  BY DEF Audit, AnyWrite, TableWrite, Row
<1>2. \A i \in 1 .. Len(w) : w[i] = Audit(p, e, v)
  BY <1>1
<1>3. Audit(p, e, v).table = "audit"
      /\ Audit(p, e, v).row = [proposal |-> p, event |-> e, value |-> v]
  BY DEF Audit
<1> HIDE DEF w
<1>4. SoundAudit(w) /\ SoundFile(w)
  BY <1>2, <1>3 DEF SoundAudit, SoundFile
<1>5. Fresh(w)
  BY <1>2, <1>3 DEF Fresh
<1> QED
  BY <1>1, <1>4, <1>5 DEF Good, w

\* Two audit rows, the gate of each of which stands now.
LEMMA TwoAudits ==
    ASSUME NEW p \in Proposals, NEW e \in Events, NEW v \in Payload,
           NEW f \in Events, NEW x \in Payload,
           Gate([proposal |-> p, event |-> e, value |-> v]),
           \/ Gate([proposal |-> p, event |-> f, value |-> x])
           \/ e = "branch_pushed" /\ v = Blank /\ f = "mr_created"
    PROVE  Good(<<Audit(p, e, v), Audit(p, f, x)>>)
PROOF
<1> DEFINE w == <<Audit(p, e, v), Audit(p, f, x)>>
<1>1. w \in Seq(AnyWrite) /\ Len(w) = 2
  BY DEF Audit, AnyWrite, TableWrite, Row
<1>2. w[1] = Audit(p, e, v) /\ w[2] = Audit(p, f, x)
  BY DEF Audit
<1>3. \A i \in 1 .. Len(w) : i = 1 \/ i = 2
  BY <1>1
<1>4. /\ Audit(p, e, v).table = "audit"
      /\ Audit(p, e, v).row = [proposal |-> p, event |-> e, value |-> v]
      /\ Audit(p, f, x).table = "audit"
      /\ Audit(p, f, x).row = [proposal |-> p, event |-> f, value |-> x]
  BY DEF Audit
<1> HIDE DEF w
<1>5. SoundAudit(w)
  <2>1. CASE Gate([proposal |-> p, event |-> f, value |-> x])
    BY <1>2, <1>3, <1>4, <2>1 DEF SoundAudit
  <2>2. CASE e = "branch_pushed" /\ v = Blank /\ f = "mr_created"
    <3>1. ASSUME NEW i \in 1 .. Len(w)
          PROVE  \/ Gate(w[i].row)
                 \/ /\ w[i].row.event = "mr_created"
                    /\ i > 1
                    /\ w[i - 1] = Audit(w[i].row.proposal, "branch_pushed", Blank)
      <4>1. CASE i = 1
        BY <4>1, <1>2, <1>4
      <4>2. CASE i = 2
        BY <4>2, <2>2, <1>2, <1>4
      <4> QED
        BY <4>1, <4>2, <1>3
    <3> QED
      BY <3>1 DEF SoundAudit
  <2> QED
    BY <2>1, <2>2
<1>6. SoundFile(w) /\ Fresh(w)
  BY <1>2, <1>3, <1>4 DEF SoundFile, Fresh
<1> QED
  BY <1>1, <1>5, <1>6 DEF Good, w

\* A proposal or an approval, with or without the audit row behind it.
LEMMA FirstWrites ==
    ASSUME NEW p \in Proposals, NEW d \in {"approved", "rejected"},
           NEW e \in {"human_approved", "human_rejected"}
    PROVE  /\ Good(<<Propose(p)>>)
           /\ Good(<<Propose(p), Audit(p, "proposal_created", Blank)>>)
           /\ Good(<<Approve(p, d), Audit(p, e, Blank)>>)
PROOF
<1>1. ASSUME NEW x \in {Propose(p), Approve(p, d)},
             NEW f \in {"proposal_created", "human_approved", "human_rejected"}
      PROVE  Good(<<x>>) /\ Good(<<x, Audit(p, f, Blank)>>)
  <2> DEFINE y == Audit(p, f, Blank)
  <2>1. x \in AnyWrite /\ y \in AnyWrite
    BY PayloadType
    DEF Propose, Approve, Audit, AnyWrite, TableWrite, Decision, Row, Events
  <2>2. x.table \in {"proposal", "approval"} /\ y.table = "audit"
        /\ y.row = [proposal |-> p, event |-> f, value |-> Blank]
    BY DEF Propose, Approve, Audit
  <2>4. Gate(y.row)
    BY <2>2 DEF Gate
  <2> HIDE DEF y
  <2>5. Good(<<x>>)
    BY <2>1, <2>2 DEF Good, SoundAudit, SoundFile, Fresh
  <2>6. Good(<<x, y>>)
    <3> DEFINE w == <<x, y>>
    <3>1. w \in Seq(AnyWrite) /\ Len(w) = 2 /\ w[1] = x /\ w[2] = y
      BY <2>1
    <3> HIDE DEF w
    <3>2. \A i \in 1 .. Len(w) : i = 1 \/ i = 2
      BY <3>1
    <3>3. SoundAudit(w)
      BY <3>1, <3>2, <2>2, <2>4 DEF SoundAudit
    <3>4. SoundFile(w) /\ Fresh(w)
      BY <3>1, <3>2, <2>2 DEF SoundFile, Fresh
    <3> QED
      BY <3>1, <3>3, <3>4 DEF Good, w
  <2> QED
    BY <2>5, <2>6 DEF y
<1> QED
  BY <1>1

\* What the engines find in the newest rows is in the log.
LEMMA FoundIsRecorded ==
    ASSUME TypeOK, NewestIsRecorded, NEW p \in Proposals, NEW e \in Events
    PROVE  /\ Has(p, e) => Recorded(p, e)
           /\ \A v \in Payload : Newest(p, e, v) => Stands(p, e, v)
PROOF
<1>1. newest[p][e] \subseteq Payload
  BY DEF TypeOK
<1>2. \A v \in newest[p][e] : Stands(p, e, v)
  BY DEF NewestIsRecorded
<1>3. \A v : Stands(p, e, v) => Recorded(p, e)
  BY DEF Stands, Recorded
<1> QED
  BY <1>1, <1>2, <1>3 DEF Has, Newest

\* Every handler of a code change begins with writes whose gates stand.
LEMMA CodeChangeBegins ==
    ASSUME TypeOK, NewestIsRecorded, NEW c \in Callers, NEW p \in Proposals,
           CodeChange(c, p)
    PROVE  \E w : Good(w) /\ Starts(c, w)
PROOF
<1> USE PayloadType
<1>1. CASE CreateDraft(c, p)
  BY <1>1, FirstWrites DEF CreateDraft
<1>2. CASE RecordApproval(c, p)
  BY <1>2, FirstWrites DEF RecordApproval
<1>3. CASE PreparePackage(c, p)
  <2>1. Gate([proposal |-> p, event |-> "code_change_package_prepared",
              value |-> Blank])
    BY <1>3 DEF PreparePackage, MayPrepare, Gate
  <2>2. Good(<<Audit(p, "code_change_package_prepared", Blank)>>)
    BY <2>1, OneAudit DEF Events
  <2> QED
    BY <1>3, <2>2 DEF PreparePackage
<1>4. CASE RecordVerification(c, p)
  <2>1. Recorded(p, "code_change_package_prepared")
    BY <1>4, FoundIsRecorded DEF RecordVerification, Events
  <2>2. PICK r \in {"verification_passed", "verification_failed"} :
           Starts(c, <<Audit(p, "verification_started", Blank),
                       Audit(p, r, Blank)>>)
    BY <1>4 DEF RecordVerification
  <2>3. /\ Gate([proposal |-> p, event |-> "verification_started",
                 value |-> Blank])
        /\ Gate([proposal |-> p, event |-> r, value |-> Blank])
    BY <2>1 DEF Gate
  <2>4. Good(<<Audit(p, "verification_started", Blank), Audit(p, r, Blank)>>)
    BY <2>3, TwoAudits DEF Events
  <2> QED
    BY <2>2, <2>4
<1>5. CASE PrepareReviewPacket(c, p)
  <2>1. Recorded(p, "verification_passed")
    BY <1>5, FoundIsRecorded DEF PrepareReviewPacket, Reviewable, Events
  <2>2. Gate([proposal |-> p, event |-> "human_review_requested",
              value |-> Blank])
    BY <2>1 DEF Gate
  <2>3. Good(<<Audit(p, "human_review_requested", Blank)>>)
    BY <2>2, OneAudit DEF Events
  <2> QED
    BY <1>5, <2>3 DEF PrepareReviewPacket
<1>6. CASE RecordReviewDecision(c, p)
  <2>1. Recorded(p, "human_review_requested")
    BY <1>6, FoundIsRecorded DEF RecordReviewDecision, Events
  <2>2. PICK d \in {"human_review_approved", "human_review_rejected"} :
           Starts(c, <<Audit(p, d, Blank)>>)
    BY <1>6 DEF RecordReviewDecision
  <2>3. Gate([proposal |-> p, event |-> d, value |-> Blank])
    BY <2>1 DEF Gate
  <2>4. Good(<<Audit(p, d, Blank)>>)
    BY <2>3, OneAudit DEF Events
  <2> QED
    BY <2>2, <2>4
<1>7. ASSUME NEW u \in Urls, RecordPublication(c, p, u)
      PROVE  \E w : Good(w) /\ Starts(c, w)
  <2>1. Recorded(p, "human_review_approved")
    BY <1>7, FoundIsRecorded DEF RecordPublication, Events
  <2>2. Gate([proposal |-> p, event |-> "branch_pushed", value |-> Blank])
    BY <2>1 DEF Gate
  <2>3. Good(<<Audit(p, "branch_pushed", Blank),
               Audit(p, "mr_created", PullRequest(u))>>)
    BY <2>2, TwoAudits DEF Events
  <2> QED
    BY <1>7, <2>3 DEF RecordPublication
<1>8. ASSUME NEW u \in Urls, NEW k \in Commits, RecordMerge(c, p, u, k)
      PROVE  \E w : Good(w) /\ Starts(c, w)
  <2>1. Stands(p, "mr_created", PullRequest(u))
    BY <1>8, FoundIsRecorded DEF RecordMerge, Merges, Events
  <2>2. PullRequest(u).url = Merged(u, k).url
    BY DEF PullRequest, Merged, Blank
  <2>3. Gate([proposal |-> p, event |-> "mr_merged", value |-> Merged(u, k)])
    BY <2>1, <2>2 DEF Gate, Stands
  <2>4. Good(<<Audit(p, "mr_merged", Merged(u, k))>>)
    BY <2>3, OneAudit DEF Events
  <2> QED
    BY <1>8, <2>4 DEF RecordMerge
<1>9. ASSUME NEW k \in Commits, NEW t \in Targets,
             PrepareDeploymentPlan(c, p, k, t)
      PROVE  \E w : Good(w) /\ Starts(c, w)
  <2>1. PICK u \in Urls : Newest(p, "mr_merged", Merged(u, k))
    BY <1>9 DEF PrepareDeploymentPlan
  <2>2. Stands(p, "mr_merged", Merged(u, k))
    BY <2>1, FoundIsRecorded DEF Events
  <2>3. Merged(u, k).commit = Plan(k, t).commit
    BY DEF Merged, Plan, Blank
  <2>4. Gate([proposal |-> p, event |-> "deployment_plan_prepared",
              value |-> Plan(k, t)])
    BY <2>2, <2>3 DEF Gate, Stands
  <2>5. Good(<<Audit(p, "deployment_plan_prepared", Plan(k, t))>>)
    BY <2>4, OneAudit DEF Events
  <2> QED
    BY <1>9, <2>5 DEF PrepareDeploymentPlan
<1>10. ASSUME NEW k \in Commits, NEW t \in Targets, RecordDeployment(c, p, k, t)
       PROVE  \E w : Good(w) /\ Starts(c, w)
  <2>1. Stands(p, "deployment_plan_prepared", Plan(k, t))
    BY <1>10, FoundIsRecorded DEF RecordDeployment, Events
  <2>2. PICK e \in {"deployment_succeeded", "deployment_failed"} :
           Starts(c, <<Audit(p, "deployment_started", Plan(k, t)),
                       Audit(p, e, Plan(k, t))>>)
    BY <1>10 DEF RecordDeployment
  <2>3. /\ Gate([proposal |-> p, event |-> "deployment_started",
                 value |-> Plan(k, t)])
        /\ Gate([proposal |-> p, event |-> e, value |-> Plan(k, t)])
    BY <2>1 DEF Gate
  <2>4. Good(<<Audit(p, "deployment_started", Plan(k, t)),
               Audit(p, e, Plan(k, t))>>)
    BY <2>3, TwoAudits DEF Events
  <2> QED
    BY <2>2, <2>4
<1>11. ASSUME NEW t \in Targets, RecordRollback(c, p, t)
       PROVE  \E w : Good(w) /\ Starts(c, w)
  <2>1. Recorded(p, "deployment_succeeded") \/ Recorded(p, "deployment_failed")
    BY <1>11, FoundIsRecorded DEF RecordRollback, Deployed, Events
  <2>2. /\ Gate([proposal |-> p, event |-> "rollback_started", value |-> On(t)])
        /\ Gate([proposal |-> p, event |-> "rollback_succeeded", value |-> On(t)])
    BY <2>1 DEF Gate
  <2>3. Good(<<Audit(p, "rollback_started", On(t)),
               Audit(p, "rollback_succeeded", On(t))>>)
    BY <2>2, TwoAudits DEF Events
  <2> QED
    BY <1>11, <2>3 DEF RecordRollback
<1>12. ASSUME NEW t \in Targets, RecordMonitoring(c, p, t)
       PROVE  \E w : Good(w) /\ Starts(c, w)
  <2>1. Gate([proposal |-> p, event |-> "post_deploy_monitor_recorded",
              value |-> On(t)])
    BY DEF Gate
  <2>2. Good(<<Audit(p, "post_deploy_monitor_recorded", On(t))>>)
    BY <2>1, OneAudit DEF Events
  <2> QED
    BY <1>12, <2>2 DEF RecordMonitoring
<1> QED
  BY <1>1, <1>2, <1>3, <1>4, <1>5, <1>6, <1>7, <1>8, <1>9, <1>10, <1>11, <1>12
  DEF CodeChange

------------------------------------------------------------------------------
(* The writes of a configuration change.                                    *)

\* The copy, the file and the audit row of an application or a roll-back.
LEMMA FileWrites ==
    ASSUME NEW p \in Proposals, NEW s \in Stamps, NamesBackup(s),
           NEW f \in Config, Accounted(f),
           NEW e \in {"config_patch_applied", "rollback_prepared"}
    PROVE  /\ Good(<<Copy(s)>>)
           /\ Good(Rewrite(s, f, Audit(p, e, Blank)))
PROOF
<1> DEFINE x == Copy(s)
           y == Replace(f)
           z == Audit(p, e, Blank)
<1>1. x \in AnyWrite /\ y \in AnyWrite /\ z \in AnyWrite
  BY PayloadType
  DEF Copy, Replace, Audit, AnyWrite, TableWrite, FileWrite, Row, Events
<1>2. /\ x.table = "backup" /\ x.stamp = s
      /\ y.table = "file" /\ y.content = f
      /\ z.table = "audit"
      /\ z.row = [proposal |-> p, event |-> e, value |-> Blank]
  BY DEF Copy, Replace, Audit
<1>4. Gate(z.row)
  BY <1>2 DEF Gate
<1>5. Unused(s) \/ clashed'
  BY DEF NamesBackup
<1> HIDE DEF x, y, z
<1>6. Good(<<x>>)
  BY <1>1, <1>2, <1>5 DEF Good, SoundAudit, SoundFile, Fresh
<1>7. Good(<<x, y, z>>)
  <2> DEFINE w == <<x, y, z>>
  <2>1. w \in Seq(AnyWrite) /\ Len(w) = 3 /\ w[1] = x /\ w[2] = y /\ w[3] = z
    BY <1>1
  <2> HIDE DEF w
  <2>2. \A i \in 1 .. Len(w) : i = 1 \/ i = 2 \/ i = 3
    BY <2>1
  <2>3. SoundAudit(w)
    BY <2>1, <2>2, <1>2, <1>4 DEF SoundAudit
  <2>4. SoundFile(w)
    BY <2>1, <2>2, <1>2 DEF SoundFile
  <2>5. Fresh(w)
    BY <2>1, <2>2, <1>2, <1>5 DEF Fresh
  <2> QED
    BY <2>1, <2>3, <2>4, <2>5 DEF Good, w
<1> QED
  BY <1>6, <1>7 DEF x, y, z, Rewrite

\* Every call about a configuration change begins with writes that are
\* accounted for.
LEMMA ConfigChangeBegins ==
    ASSUME TypeOK, ValuesAreAccountedFor, NEW c \in Callers, NEW p \in Proposals,
           ConfigChange(c, p)
    PROVE  \E w : Good(w) /\ Starts(c, w)
PROOF
<1>1. CASE RecordAnyApproval(c, p)
  <2>1. PICK d \in {"approved", "rejected"} :
           Starts(c, <<Approve(p, d),
                       Audit(p, IF d = "approved" THEN "human_approved"
                                ELSE "human_rejected", Blank)>>)
    BY <1>1 DEF RecordAnyApproval
  <2> QED
    BY <2>1, FirstWrites
<1>2. CASE PrepareConfigPatch(c, p)
  <2>1. Gate([proposal |-> p, event |-> "config_patch_prepared",
              value |-> Blank])
    BY DEF Gate
  <2>2. Good(<<Audit(p, "config_patch_prepared", Blank)>>)
    BY <2>1, OneAudit, PayloadType DEF Events
  <2> QED
    BY <1>2, <2>2 DEF PrepareConfigPatch
<1>3. CASE CompareConfigPatch(c, p)
  <2>1. /\ Gate([proposal |-> p, event |-> "dry_run_before", value |-> Blank])
        /\ Gate([proposal |-> p, event |-> "dry_run_after", value |-> Blank])
    BY DEF Gate
  <2>2. Good(<<Audit(p, "dry_run_before", Blank),
               Audit(p, "dry_run_after", Blank)>>)
    BY <2>1, TwoAudits, PayloadType DEF Events
  <2> QED
    BY <1>3, <2>2 DEF CompareConfigPatch
<1>4. ASSUME NEW s \in Stamps, ApplyConfigPatch(c, p, s)
      PROVE  \E w : Good(w) /\ Starts(c, w)
  <2> DEFINE f == SetPaths(file, p, Patch[p])
  <2>1. /\ p \in Whitelisted /\ p \in LowRisk /\ IsApproved(p)
        /\ file # Unreadable /\ NamesBackup(s) /\ Accounted(file)
    BY <1>4, ConfigAssumption DEF ValuesAreAccountedFor, ApplyConfigPatch, Applies, Prepares
  <2>2. file \in Config
    BY <2>1 DEF TypeOK, Content
  <2>3. f \in Config
    BY <2>2, ConfigAssumption DEF SetPaths, Config
  <2>4. \A q \in Paths : f[q] = IF q \in DOMAIN Patch[p] THEN Patch[p][q]
                                ELSE file[q]
    BY DEF SetPaths
  <2> HIDE DEF f
  <2>5. Accounted(f)
    BY <2>1, <2>4 DEF Accounted, ComesFrom
  <2>6. Good(Rewrite(s, f, Audit(p, "config_patch_applied", Blank)))
    BY <2>1, <2>3, <2>5, FileWrites
  <2> QED
    BY <1>4, <2>6 DEF ApplyConfigPatch, f
<1>5. ASSUME NEW s \in Stamps, RollbackConfigPatch(c, p, s)
      PROVE  \E w : Good(w) /\ Starts(c, w)
  <2> DEFINE f == SetPaths(file, p, [q \in Paths |-> RollbackValue[p]])
  <2>1. file # Unreadable /\ NamesBackup(s) /\ Accounted(file)
    BY <1>5 DEF RollbackConfigPatch, ValuesAreAccountedFor
  <2>2. file \in Config
    BY <2>1 DEF TypeOK, Content
  <2>3. CASE p \notin Whitelisted
    <3>1. Good(<<Copy(s)>>)
      BY <2>1, <2>2, FileWrites
    <3> QED
      BY <1>5, <2>3, <3>1 DEF RollbackConfigPatch
  <2>4. CASE p \in Whitelisted
    <3>1. f \in Config
      BY <2>2, ConfigAssumption DEF SetPaths, Config
    <3>2. \A q \in Paths : f[q] = IF q \in DOMAIN Patch[p] THEN RollbackValue[p]
                                  ELSE file[q]
      BY DEF SetPaths
    <3> HIDE DEF f
    <3>3. Accounted(f)
      BY <2>1, <2>4, <3>2 DEF Accounted, ComesFrom
    <3>4. Good(Rewrite(s, f, Audit(p, "rollback_prepared", Blank)))
      BY <2>1, <3>1, <3>3, FileWrites
    <3> QED
      BY <1>5, <2>4, <3>4 DEF RollbackConfigPatch, f
  <2> QED
    BY <2>3, <2>4
<1> QED
  BY <1>1, <1>2, <1>3, <1>4, <1>5 DEF ConfigChange

------------------------------------------------------------------------------
(* What was checked stays true: rows are only added.                        *)

\* A gate that stands keeps standing.
LEMMA GateStays ==
    ASSUME NEW r, audit \subseteq audit', approvals \subseteq approvals', Gate(r)
    PROVE  Gate(r)'
PROOF
<1>1. \A p : IsApproved(p) => IsApproved(p)'
  BY DEF IsApproved
<1>2. \A p, e : Recorded(p, e) => Recorded(p, e)'
  BY DEF Recorded
<1>3. \A p, e, v : Stands(p, e, v) => Stands(p, e, v)'
  BY DEF Stands
<1>4. /\ r.event = "mr_merged" =>
            (\E m \in audit : /\ m.proposal = r.proposal /\ m.event = "mr_created"
                              /\ m.value.url = r.value.url)'
      /\ r.event = "deployment_plan_prepared" =>
            (\E m \in audit : /\ m.proposal = r.proposal /\ m.event = "mr_merged"
                              /\ m.value.commit = r.value.commit)'
  BY DEF Gate
<1> QED
  BY <1>1, <1>2, <1>3, <1>4 DEF Gate

\* So does the account of a configuration.
LEMMA AccountedStays ==
    ASSUME NEW f, approvals \subseteq approvals', torn => torn', Accounted(f)
    PROVE  Accounted(f)'
PROOF
BY DEF Accounted, ComesFrom, IsApproved

\* And that of the file, as long as nobody writes it.
LEMMA ValuesStay ==
    ASSUME approvals \subseteq approvals', torn => torn', file' = file,
           ValuesAreAccountedFor
    PROVE  ValuesAreAccountedFor'
PROOF
BY DEF ValuesAreAccountedFor, Accounted, ComesFrom, IsApproved

\* The writes of a call that does not move stay sound.
LEMMA SoundStays ==
    ASSUME NEW w, audit \subseteq audit', approvals \subseteq approvals',
           torn => torn', Saved => Saved', Sound(w),
           \A i \in 1 .. Len(w) : w[i].table = "backup" =>
               backups'[w[i].stamp] = NoFile \/ clashed'
    PROVE  Sound(w)'
PROOF
<1>1. SoundAudit(w)'
  BY GateStays DEF Sound, SoundAudit
<1>2. SoundFile(w)'
  BY AccountedStays DEF Sound, SoundFile
<1>3. SoundCopy(w)'
  BY DEF Sound, SoundCopy
<1> QED
  BY <1>1, <1>2, <1>3 DEF Sound

\* The writes behind the one that is made are sound after it.
LEMMA TailIsSound ==
    ASSUME NEW w \in Seq(AnyWrite), w # <<>>, Sound(w),
           audit \subseteq audit', approvals \subseteq approvals',
           torn => torn', Saved => Saved',
           Head(w).table = "backup" => Saved',
           \A p \in Proposals : Head(w) = Audit(p, "branch_pushed", Blank) =>
                                    Recorded(p, "branch_pushed")'
    PROVE  Sound(Tail(w))'
PROOF
<1> DEFINE t == Tail(w)
<1>1. /\ t \in Seq(AnyWrite) /\ Len(t) = Len(w) - 1 /\ Len(w) \in Nat
      /\ \A i \in 1 .. Len(t) : t[i] = w[i + 1]
      /\ Head(w) = w[1]
  BY HeadTailProperties, LenProperties
<1> HIDE DEF t
<1>2. \A i \in 1 .. Len(t) : /\ i \in Nat /\ i >= 1
                             /\ i + 1 \in 1 .. Len(w) /\ i + 1 > 1
  BY <1>1
<1>3. SoundAudit(t)'
  <2> SUFFICES ASSUME NEW i \in 1 .. Len(t), t[i].table = "audit"
               PROVE  \/ Gate(t[i].row)'
                      \/ /\ t[i].row.event = "mr_created"
                         /\ i > 1
                         /\ t[i - 1] = Audit(t[i].row.proposal,
                                             "branch_pushed", Blank)
    BY DEF SoundAudit
  <2>1. t[i] = w[i + 1] /\ i + 1 \in 1 .. Len(w)
    BY <1>1, <1>2
  <2>2. CASE Gate(w[i + 1].row)
    BY <2>1, <2>2, GateStays
  <2>3. CASE ~ Gate(w[i + 1].row)
    <3>1. /\ t[i].row.event = "mr_created"
          /\ w[(i + 1) - 1] = Audit(t[i].row.proposal, "branch_pushed", Blank)
      BY <2>1, <2>3 DEF Sound, SoundAudit
    <3>2. (i + 1) - 1 = i
      BY <1>2
    <3>3. CASE i = 1
      <4>1. Head(w) = Audit(t[i].row.proposal, "branch_pushed", Blank)
        BY <1>1, <3>1, <3>2, <3>3
      <4>2. t[i] \in AnyWrite
        BY <1>1, <2>1
      <4>3. t[i].row.proposal \in Proposals
        BY <4>2 DEF AnyWrite, TableWrite, FileWrite, Row
      <4>4. Recorded(t[i].row.proposal, "branch_pushed")'
        BY <4>1, <4>3
      <4>5. Gate(t[i].row)'
        BY <3>1, <4>4 DEF Gate
      <4> QED
        BY <4>5
    <3>4. CASE i # 1
      <4>1. i > 1 /\ i - 1 \in 1 .. Len(t) /\ (i - 1) + 1 = i
        BY <1>1, <1>2, <3>4
      <4>2. t[i - 1] = w[i]
        BY <1>1, <4>1
      <4> QED
        BY <3>1, <3>2, <4>1, <4>2
    <3> QED
      BY <3>3, <3>4
  <2> QED
    BY <2>2, <2>3
<1>4. SoundFile(t)'
  <2> SUFFICES ASSUME NEW i \in 1 .. Len(t), t[i].table = "file"
               PROVE  Accounted(t[i].content)' /\ Saved'
    BY DEF SoundFile
  <2>1. t[i] = w[i + 1] /\ i + 1 \in 1 .. Len(w)
    BY <1>1, <1>2
  <2>2. Accounted(t[i].content)
    BY <2>1 DEF Sound, SoundFile
  <2>3. w[1].table = "backup" \/ Saved
    BY <2>1 DEF Sound, SoundFile
  <2> QED
    BY <1>1, <2>2, <2>3, AccountedStays
<1>5. SoundCopy(t)'
  <2> SUFFICES ASSUME NEW i \in 1 .. Len(t), t[i].table = "backup"
               PROVE  FALSE
    BY DEF SoundCopy
  <2>1. t[i] = w[i + 1] /\ i + 1 \in 1 .. Len(w)
    BY <1>1, <1>2
  <2>2. i + 1 = 1
    BY <2>1 DEF Sound, SoundCopy
  <2> QED
    BY <1>2, <2>2
<1> QED
  BY <1>3, <1>4, <1>5 DEF Sound, t

------------------------------------------------------------------------------
(* The steps.                                                               *)

\* Nothing is known of a call that has no writes in hand.
LEMMA NothingIsSound == Sound(<<>>) /\ \A c \in Callers, s \in Stamps :
                            call[c] = <<>> => ~ Copies(c, s)
PROOF
BY DEF Sound, SoundAudit, SoundFile, SoundCopy, Copies

\* A sound sequence is sound in the hands of any call.
LEMMA InHand ==
    ASSUME NEW d \in Callers, NEW x, x = call'[d], Sound(x)'
    PROVE  Sound(call[d])'
PROOF
BY DEF Sound, SoundAudit, SoundFile, SoundCopy

\* At the start there are no rows, no calls and no backups.
LEMMA InitInv == Init => IInv
PROOF
<1> SUFFICES ASSUME Init
             PROVE  IInv
  OBVIOUS
<1> USE DEF Init, TablesInit, FilesInit
<1>1. TypeOK
  <2>1. gaps \subseteq CodeChanges /\ proposals \subseteq Proposals
    BY DEF Proposals
  <2>2. newest \in [Proposals -> [Events -> SUBSET Payload]]
    BY DEF NoRows
  <2>3. file \in Content
    BY ConfigAssumption DEF Content, Config
  <2>4. call \in [Callers -> Seq(TableWrite \cup FileWrite)]
    BY EmptySeq
  <2> QED
    BY <2>1, <2>2, <2>3, <2>4 DEF TypeOK
<1>2. NewestIsRecorded
  BY DEF NewestIsRecorded, NoRows
<1>3. \A c \in Callers : Sound(call[c])
  BY NothingIsSound
<1>4. OneCopyEach
  BY DEF OneCopyEach, Copies
<1>5. ValuesAreAccountedFor /\ OriginalIsKept
  <2>1. Original # Unreadable
    BY ConfigAssumption DEF Config
  <2> QED
    BY <2>1 DEF ValuesAreAccountedFor, Accounted, ComesFrom, OriginalIsKept
<1> QED
  BY <1>1, <1>2, <1>3, <1>4, <1>5 DEF IInv

\* A call begins: nothing but its writes in hand changes.
LEMMA BeginInv ==
    ASSUME IInv, NEW c \in Callers, Begin(c)
    PROVE  IInv'
PROOF
<1> USE DEF IInv
<1>1. PICK p \in Proposals : \/ CodeChange(c, p) /\ UNCHANGED files
                             \/ ConfigChange(c, p)
  BY DEF Begin
<1>2. PICK w : Good(w) /\ Starts(c, w)
  BY <1>1, CodeChangeBegins, ConfigChangeBegins
<1>3. /\ UNCHANGED <<gaps, proposals, approvals, audit, newest, file, backups,
                     torn>>
      /\ call' = [call EXCEPT ![c] = w]
      /\ clashed' \in BOOLEAN /\ (clashed => clashed')
  <2>1. UNCHANGED files \/ \E s \in Stamps : NamesBackup(s)
    BY <1>1 DEF ConfigChange, ApplyConfigPatch, RollbackConfigPatch
  <2> QED
    BY <1>2, <2>1 DEF Starts, tables, files, NamesBackup, TypeOK
<1>4. w \in Seq(AnyWrite)
  BY <1>2 DEF Good
<1>5. call'[c] = w /\ \A d \in Callers : d # c => call'[d] = call[d]
  BY <1>3 DEF TypeOK
<1>6. TypeOK'
  BY <1>3, <1>4 DEF TypeOK, AnyWrite
<1>7. \A d \in Callers : Sound(call[d])'
  <2>1. ASSUME NEW x, SoundAudit(x) /\ SoundFile(x)
        PROVE  SoundAudit(x)' /\ SoundFile(x)'
    BY <1>3, <2>1 DEF SoundAudit, SoundFile, Gate, Recorded, Stands, IsApproved,
                      Accounted, ComesFrom, Saved
  <2>2. PICK y : y = w
    OBVIOUS
  <2>3. Sound(y)'
    <3>1. SoundAudit(y)' /\ SoundFile(y)'
      BY <1>2, <2>1, <2>2 DEF Good
    <3>2. SoundCopy(y)'
      BY <1>2, <1>3, <2>2 DEF Good, Fresh, Unused, SoundCopy
    <3> QED
      BY <3>1, <3>2 DEF Sound
  <2>4. ASSUME NEW d \in Callers
        PROVE  Sound(call[d])'
    <3>1. CASE d = c
      BY <1>5, <2>2, <2>3, <3>1, InHand
    <3>2. CASE d # c
      <4>1. PICK x : x = call[d]
        OBVIOUS
      <4>2. Sound(x) /\ x = call'[d]
        BY <1>5, <3>2, <4>1
      <4>3. Sound(x)'
        BY <1>3, <2>1, <4>2 DEF Sound, SoundCopy
      <4> QED
        BY <4>2, <4>3, InHand
    <3> QED
      BY <3>1, <3>2
  <2> QED
    BY <2>4
<1>8. OneCopyEach'
  <2>1. ASSUME NEW s \in Stamps, NEW d \in Callers, Copies(c, s)', Copies(d, s),
               ~ clashed'
        PROVE  FALSE
    <3>1. w # <<>> /\ w[1] = Copy(s)
      BY <1>5, <2>1 DEF Copies
    <3>2. 1 \in 1 .. Len(w)
      BY <1>4, <3>1
    <3>3. Unused(s)
      BY <1>2, <2>1, <3>1, <3>2 DEF Good, Fresh, Copy
    <3>4. call[d] \in Seq(AnyWrite) /\ call[d] # <<>>
      BY <2>1 DEF TypeOK, AnyWrite, Copies
    <3>5. 1 \in DOMAIN call[d]
      BY <3>4
    <3> QED
      BY <2>1, <3>3, <3>5 DEF Unused, Copies
  <2>2. \A d \in Callers, s \in Stamps : d # c => (Copies(d, s)' <=> Copies(d, s))
    BY <1>5 DEF Copies
  <2> QED
    BY <1>3, <2>1, <2>2 DEF OneCopyEach
<1>9. NewestIsRecorded' /\ (\A r \in audit : Gate(r))'
  BY <1>3 DEF NewestIsRecorded, Stands, Gate, Recorded, IsApproved
<1>10. ValuesAreAccountedFor' /\ OriginalIsKept'
  BY <1>3, ValuesStay DEF OriginalIsKept
<1> QED
  BY <1>6, <1>7, <1>8, <1>9, <1>10

\* What every write has in common: the writes in hand stay sound.
LEMMA WritesInHand ==
    ASSUME IInv, NEW c \in Callers, call[c] # <<>>,
           call' = [call EXCEPT ![c] = Tail(@)],
           audit \subseteq audit', approvals \subseteq approvals',
           torn' = torn, clashed' = clashed, Saved => Saved',
           Head(call[c]).table = "backup" => Saved',
           \A p \in Proposals :
               Head(call[c]) = Audit(p, "branch_pushed", Blank) =>
                   Recorded(p, "branch_pushed")',
           \A s \in Stamps : backups'[s] = backups[s] \/ Copies(c, s)
    PROVE  /\ \A d \in Callers : Sound(call[d])'
           /\ OneCopyEach'
           /\ call' \in [Callers -> Seq(AnyWrite)]
PROOF
<1> USE DEF IInv
<1>1. call \in [Callers -> Seq(AnyWrite)]
  BY DEF TypeOK, AnyWrite
<1>2. Tail(call[c]) \in Seq(AnyWrite)
  BY <1>1, HeadTailProperties
<1>3. call'[c] = Tail(call[c]) /\ \A d \in Callers : d # c => call'[d] = call[d]
  BY <1>1
<1>4. Sound(call[c])'
  <2>1. PICK x : x = call[c]
    OBVIOUS
  <2>2. Sound(Tail(x))'
    <3>1. x \in Seq(AnyWrite) /\ x # <<>> /\ Sound(x)
      BY <1>1, <2>1
    <3> QED
      BY <2>1, <3>1, TailIsSound
  <2>3. PICK y : y = Tail(x)
    OBVIOUS
  <2>4. Sound(y)'
    BY <2>2, <2>3 DEF Sound, SoundAudit, SoundFile, SoundCopy
  <2> QED
    BY <1>3, <2>1, <2>3, <2>4, InHand
<1>5. ASSUME NEW d \in Callers, d # c
      PROVE  Sound(call[d])'
  <2>1. PICK x : x = call[d]
    OBVIOUS
  <2>2. x \in Seq(AnyWrite) /\ Sound(x) /\ x = call'[d]
    BY <1>1, <1>3, <1>5, <2>1
  <2>3. ASSUME NEW i \in 1 .. Len(x), x[i].table = "backup"
        PROVE  backups'[x[i].stamp] = NoFile \/ clashed'
    <3>0. SUFFICES ASSUME ~ clashed
                   PROVE  backups'[x[i].stamp] = NoFile
      OBVIOUS
    <3>1. i = 1 /\ backups[x[i].stamp] = NoFile
      BY <2>2, <2>3, <3>0 DEF Sound, SoundCopy
    <3>2. x # <<>> /\ x[1] \in AnyWrite
      <4>1. x \in Seq(AnyWrite) /\ 1 \in 1 .. Len(x)
        BY <2>2, <3>1
      <4> QED
        BY <4>1, ElementOfSeq, EmptySeq
    <3>3. x[1].stamp \in Stamps /\ x[1] = Copy(x[1].stamp)
      BY <2>3, <3>1, <3>2 DEF AnyWrite, TableWrite, FileWrite, Copy
    <3>4. Copies(d, x[1].stamp)
      BY <2>1, <3>2, <3>3 DEF Copies
    <3>5. ~ Copies(c, x[1].stamp)
      BY <1>5, <3>0, <3>3, <3>4 DEF OneCopyEach
    <3> QED
      BY <3>1, <3>3, <3>5
  <2>4. Sound(x)'
    BY <2>2, <2>3, SoundStays
  <2> QED
    BY <2>2, <2>4, InHand
<1>6. OneCopyEach'
  <2>1. ASSUME NEW s \in Stamps
        PROVE  ~ Copies(c, s)'
    <3> SUFFICES ASSUME Copies(c, s)'
                 PROVE  FALSE
      OBVIOUS
    <3>1. PICK w : w = call[c]
      OBVIOUS
    <3>2. w \in Seq(AnyWrite) /\ w # <<>> /\ SoundCopy(w)
      BY <1>1, <3>1 DEF Sound
    <3>3. Tail(w) # <<>> /\ Tail(w)[1] = Copy(s)
      BY <1>3, <3>1 DEF Copies
    <3>4. /\ Len(Tail(w)) = Len(w) - 1 /\ Len(w) \in Nat
          /\ Tail(w) \in Seq(AnyWrite)
      BY <3>2, HeadTailProperties, LenProperties
    <3>5. 1 \in 1 .. Len(Tail(w)) /\ 2 \in 1 .. Len(w)
      BY <3>3, <3>4
    <3>6. w[2] = Copy(s)
      BY <3>2, <3>3, <3>5, HeadTailProperties
    <3>7. w[2].table = "backup"
      BY <3>6 DEF Copy
    <3> QED
      BY <3>2, <3>5, <3>7 DEF SoundCopy
  <2>2. \A d \in Callers, s \in Stamps : d # c => (Copies(d, s)' <=> Copies(d, s))
    BY <1>3 DEF Copies
  <2> QED
    BY <2>1, <2>2 DEF OneCopyEach
<1> QED
  BY <1>1, <1>2, <1>4, <1>5, <1>6

\* A row is written, or a file.
LEMMA WriteInv ==
    ASSUME IInv, NEW c \in Callers, Write(c)
    PROVE  IInv'
PROOF
<1> USE DEF IInv
<1>1. PICK h : h = Head(call[c])
  OBVIOUS
<1>2. /\ call[c] # <<>> /\ call[c] \in Seq(AnyWrite) /\ Sound(call[c])
      /\ call' = [call EXCEPT ![c] = Tail(@)]
  BY DEF Write, TypeOK, AnyWrite
<1>3. h \in AnyWrite /\ h = call[c][1] /\ 1 \in 1 .. Len(call[c])
  BY <1>1, <1>2, HeadTailProperties
<1>4. CASE Records(h) /\ UNCHANGED files
  <2>1. /\ audit \subseteq audit' /\ approvals \subseteq approvals'
        /\ file' = file /\ backups' = backups /\ h.table # "backup"
        /\ torn' = torn /\ clashed' = clashed
    BY <1>4 DEF Records, files
  <2>2. \A p \in Proposals : h = Audit(p, "branch_pushed", Blank) =>
                                 Recorded(p, "branch_pushed")'
    BY <1>4, ProposalAssumption DEF Records, Audit, Recorded, Read
  <2>3. Saved => Saved'
    BY <2>1 DEF Saved
  <2>4. /\ \A d \in Callers : Sound(call[d])'
        /\ OneCopyEach'
        /\ call' \in [Callers -> Seq(AnyWrite)]
    BY <1>1, <1>2, <2>1, <2>2, <2>3, WritesInHand
  <2>5. CASE h.table = "audit"
    <3>1. Gate(h.row)
      BY <1>2, <1>3, <2>5 DEF Sound, SoundAudit
    <3>2. h.row \in Row
      BY <1>3, <2>5 DEF AnyWrite, TableWrite, FileWrite
    <3>3. CASE h.row.event \in Kept
      <4>0. PICK new \in {h.row.value} \cup newest[h.row.proposal][h.row.event] :
                newest' = [newest EXCEPT ![h.row.proposal][h.row.event] = {new}]
        BY <1>4, <2>5, <3>3 DEF Records
      <4>1. /\ audit' = audit \cup {h.row}
            /\ UNCHANGED <<gaps, proposals, approvals>>
        BY <1>4, <2>5, <3>3 DEF Records
      <4>2. /\ h.row.proposal \in Proposals /\ h.row.event \in Events
            /\ h.row.value \in Payload
            /\ h.row = [proposal |-> h.row.proposal, event |-> h.row.event,
                        value |-> h.row.value]
        BY <3>2 DEF Row
      <4>3. audit' \subseteq Row
        BY <3>2, <4>1 DEF TypeOK
      <4>4. newest' \in [Proposals -> [Events -> SUBSET Payload]]
        <5>1. new \in Payload
          BY <4>0, <4>2 DEF TypeOK
        <5> QED
          BY <4>0, <4>2, <5>1 DEF TypeOK
      <4>5. TypeOK'
        BY <2>1, <2>4, <4>1, <4>3, <4>4 DEF TypeOK, AnyWrite
      <4>6. \A r \in audit' : Gate(r)'
        BY <2>1, <3>1, <4>1, GateStays
      <4>7. NewestIsRecorded'
        <5> SUFFICES ASSUME NEW p \in Proposals, NEW e \in Events,
                            NEW v \in newest'[p][e]
                     PROVE  Stands(p, e, v)'
          BY DEF NewestIsRecorded
        <5>1. CASE p = h.row.proposal /\ e = h.row.event
          <6>1. v = new
            BY <4>0, <4>2, <5>1 DEF TypeOK
          <6>2. CASE new = h.row.value
            BY <4>1, <4>2, <5>1, <6>1, <6>2 DEF Stands
          <6>3. CASE new \in newest[p][e]
            BY <4>1, <5>1, <6>1, <6>3 DEF NewestIsRecorded, Stands
          <6> QED
            BY <4>0, <5>1, <6>2, <6>3
        <5>2. CASE ~ (p = h.row.proposal /\ e = h.row.event)
          <6>1. newest'[p][e] = newest[p][e]
            BY <4>0, <4>2, <5>2 DEF TypeOK
          <6> QED
            BY <4>1, <6>1 DEF NewestIsRecorded, Stands
        <5> QED
          BY <5>1, <5>2
      <4>8. ValuesAreAccountedFor' /\ OriginalIsKept'
        BY <2>1, ValuesStay DEF OriginalIsKept
      <4> QED
        BY <2>4, <4>5, <4>6, <4>7, <4>8
    <3>4. CASE h.row.event \notin Kept
      <4>1. UNCHANGED <<gaps, proposals, approvals, audit, newest>>
        BY <1>4, <2>5, <3>4 DEF Records
      <4>2. TypeOK'
        BY <2>1, <2>4, <4>1 DEF TypeOK, AnyWrite
      <4>3. NewestIsRecorded' /\ \A r \in audit' : Gate(r)'
        BY <2>1, <4>1, GateStays DEF NewestIsRecorded, Stands
      <4>4. ValuesAreAccountedFor' /\ OriginalIsKept'
        BY <2>1, ValuesStay DEF OriginalIsKept
      <4> QED
        BY <2>4, <4>2, <4>3, <4>4
    <3> QED
      BY <3>3, <3>4
  <2>6. CASE h.table # "audit"
    <3>1. /\ UNCHANGED <<gaps, audit, newest>>
          /\ proposals' \subseteq Proposals /\ approvals' \subseteq Decision
      BY <1>3, <1>4, <2>6
      DEF Records, TypeOK, AnyWrite, TableWrite, FileWrite
    <3>2. TypeOK'
      BY <2>1, <2>4, <3>1 DEF TypeOK, AnyWrite
    <3>3. NewestIsRecorded' /\ \A r \in audit' : Gate(r)'
      BY <2>1, <3>1, GateStays DEF NewestIsRecorded, Stands
    <3>4. ValuesAreAccountedFor' /\ OriginalIsKept'
      BY <2>1, ValuesStay DEF OriginalIsKept
    <3> QED
      BY <2>4, <3>2, <3>3, <3>4
  <2> QED
    BY <2>5, <2>6
<1>5. CASE Writes(h) /\ UNCHANGED tables
  <2>1. /\ UNCHANGED <<gaps, proposals, approvals, audit, newest>>
        /\ torn' = torn /\ clashed' = clashed
    BY <1>5 DEF tables, Writes
  <2>2. NewestIsRecorded' /\ \A r \in audit' : Gate(r)'
    BY <2>1, GateStays DEF NewestIsRecorded, Stands
  <2>3. h.table # "audit" /\ \A p \in Proposals :
                                 h # Audit(p, "branch_pushed", Blank)
    BY <1>5 DEF Writes, Audit
  <2>4. CASE h.table = "backup"
    <3>1. /\ h.stamp \in Stamps /\ h = Copy(h.stamp)
          /\ backups[h.stamp] = NoFile \/ clashed
      BY <1>2, <1>3, <2>4
      DEF Sound, SoundCopy, AnyWrite, TableWrite, FileWrite, Copy
    <3>2. backups' = [backups EXCEPT ![h.stamp] = file] /\ file' = file
      BY <1>5, <2>4 DEF Writes
    <3>3. /\ backups'[h.stamp] = file
          /\ \A s \in Stamps : s # h.stamp => backups'[s] = backups[s]
      BY <3>1, <3>2 DEF TypeOK
    <3>4. Saved => Saved'
      <4>1. NoFile # Original
        BY ConfigAssumption DEF Config
      <4> QED
        BY <2>1, <3>1, <3>3, <4>1 DEF Saved
    <3>5. Saved'
      BY <2>1, <3>1, <3>3, <3>4 DEF OriginalIsKept, Saved
    <3>6. \A s \in Stamps : backups'[s] = backups[s] \/ Copies(c, s)
      BY <1>2, <1>3, <3>1, <3>3 DEF Copies
    <3>7. /\ \A d \in Callers : Sound(call[d])'
          /\ OneCopyEach'
          /\ call' \in [Callers -> Seq(AnyWrite)]
      BY <1>1, <1>2, <2>1, <2>3, <3>5, <3>6, WritesInHand
    <3>8. TypeOK'
      BY <2>1, <3>1, <3>2, <3>7 DEF TypeOK, AnyWrite
    <3>9. ValuesAreAccountedFor' /\ OriginalIsKept'
      BY <2>1, <3>2, <3>5, ValuesStay DEF OriginalIsKept, Saved
    <3> QED
      BY <2>2, <3>7, <3>8, <3>9
  <2>5. CASE h.table = "file"
    <3>1. file' = h.content /\ backups' = backups
      BY <1>5, <2>5 DEF Writes
    <3>2. Accounted(h.content) /\ Saved
      BY <1>2, <1>3, <2>5 DEF Sound, SoundFile
    <3>3. h.content \in Config
      BY <1>3, <2>5 DEF AnyWrite, TableWrite, FileWrite
    <3>4. Saved'
      BY <2>1, <3>1, <3>2 DEF Saved
    <3>5. /\ \A d \in Callers : Sound(call[d])'
          /\ OneCopyEach'
          /\ call' \in [Callers -> Seq(AnyWrite)]
      BY <1>1, <1>2, <2>1, <2>3, <3>1, <3>4, WritesInHand
    <3>6. TypeOK'
      BY <2>1, <3>1, <3>3, <3>5 DEF TypeOK, AnyWrite, Content
    <3>7. OriginalIsKept'
      BY <3>4 DEF OriginalIsKept, Saved
    <3>8. ValuesAreAccountedFor'
      <4>1. h.content # Unreadable
        BY <3>3, ConfigAssumption
      <4> QED
        BY <2>1, <3>1, <3>2, <4>1
        DEF ValuesAreAccountedFor, Accounted, ComesFrom, IsApproved
    <3> QED
      BY <2>2, <3>5, <3>6, <3>7, <3>8
  <2> QED
    BY <1>5, <2>4, <2>5 DEF Writes
<1> QED
  BY <1>1, <1>4, <1>5 DEF Write

\* What is found of a file in the middle of a write is the front of what was
\* to be written.
LEMMA HalfIsAccounted ==
    ASSUME NEW f \in Config, Accounted(f), NEW g \in Torn(f), torn'
    PROVE  g = Unreadable \/ (/\ g \in Config
                              /\ \A q \in Paths :
                                    \/ g[q] = None
                                    \/ ComesFrom(q, g[q])
                                    \/ \E v \in Values : /\ ComesFrom(q, v)
                                                        /\ g[q] \in Cuts[v])
PROOF
<1> SUFFICES ASSUME g # Unreadable, NEW q \in Paths, g[q] # None
             PROVE  /\ g \in Config
                    /\ \/ ComesFrom(q, g[q])
                       \/ \E v \in Values : ComesFrom(q, v) /\ g[q] \in Cuts[v]
  BY DEF Torn
<1>1. g \in Config /\ (g[q] = f[q] \/ g[q] \in Cut(f[q]))
  BY DEF Torn
<1>2. f[q] \in Values \cup {None}
  BY DEF Config
<1>3. CASE f[q] = None
  BY <1>1, <1>3 DEF Cut
<1>4. CASE f[q] # None
  <2>1. f[q] \in Values /\ (g[q] = f[q] \/ g[q] \in Cuts[f[q]])
    BY <1>1, <1>2, <1>4 DEF Cut
  <2>2. CASE ComesFrom(q, f[q])
    BY <1>1, <2>1, <2>2
  <2>3. CASE ~ ComesFrom(q, f[q])
    <3>1. PICK v \in Values : ComesFrom(q, v) /\ f[q] \in Cuts[v]
      BY <1>4, <2>3 DEF Accounted
    <3>2. Cuts[f[q]] \subseteq Cuts[v]
      BY <3>1, ConfigAssumption
    <3> QED
      BY <1>1, <2>1, <3>1, <3>2
  <2> QED
    BY <2>2, <2>3
<1> QED
  BY <1>3, <1>4

\* A file is half written only when the original was copied.
LEMMA HalfWriteInv ==
    ASSUME IInv, NEW c \in Callers, HalfWrite(c)
    PROVE  IInv'
PROOF
<1> USE DEF IInv
<1>1. PICK h : h = Head(call[c])
  OBVIOUS
<1>2. /\ call[c] # <<>> /\ call[c] \in Seq(AnyWrite) /\ Sound(call[c])
      /\ UNCHANGED <<gaps, proposals, approvals, audit, newest, call, backups,
                     clashed>>
      /\ h.table = "file" /\ file' \in Torn(h.content) /\ torn' = TRUE
  BY <1>1 DEF HalfWrite, HalfWrites, TypeOK, AnyWrite, tables
<1>3. h \in AnyWrite /\ h = call[c][1] /\ 1 \in 1 .. Len(call[c])
  BY <1>1, <1>2, HeadTailProperties
<1>4. Accounted(h.content) /\ Saved
  BY <1>2, <1>3 DEF Sound, SoundFile
<1>5. h.content \in Config
  BY <1>2, <1>3 DEF AnyWrite, TableWrite, FileWrite
<1>6. PICK g : g = file'
  OBVIOUS
<1>7. g = Unreadable \/ (/\ g \in Config
                         /\ \A q \in Paths :
                               \/ g[q] = None
                               \/ ComesFrom(q, g[q])
                               \/ \E v \in Values : /\ ComesFrom(q, v)
                                                   /\ g[q] \in Cuts[v])
  BY <1>2, <1>4, <1>5, <1>6, HalfIsAccounted
<1>8. TypeOK'
  BY <1>2, <1>6, <1>7 DEF TypeOK, Content
<1>9. ValuesAreAccountedFor'
  BY <1>2, <1>6, <1>7 DEF ValuesAreAccountedFor, Accounted, ComesFrom, IsApproved
<1>10. Saved' /\ OriginalIsKept'
  BY <1>2, <1>4 DEF Saved, OriginalIsKept
<1>11. NewestIsRecorded' /\ (\A r \in audit : Gate(r))' /\ OneCopyEach'
  BY <1>2 DEF NewestIsRecorded, Stands, Gate, Recorded, IsApproved, OneCopyEach,
              Copies
<1>12. ASSUME NEW d \in Callers
       PROVE  Sound(call[d])'
  <2>1. PICK x : x = call[d]
    OBVIOUS
  <2>2. Sound(x) /\ x = call'[d]
    BY <1>2, <2>1
  <2>3. \A i \in 1 .. Len(x) : x[i].table = "backup" =>
            backups'[x[i].stamp] = NoFile \/ clashed'
    BY <1>2, <2>2 DEF Sound, SoundCopy
  <2>4. Sound(x)'
    BY <1>2, <1>10, <2>2, <2>3, SoundStays
  <2> QED
    BY <2>2, <2>4, InHand
<1> QED
  BY <1>8, <1>9, <1>10, <1>11, <1>12

\* A call breaks off before its next write or inside its copy, which nobody
\* relies on.
LEMMA BreakOffInv ==
    ASSUME IInv, NEW c \in Callers, BreakOff(c)
    PROVE  IInv'
PROOF
<1> USE DEF IInv
<1>1. PICK h : h = Head(call[c])
  OBVIOUS
<1>2. /\ call[c] # <<>> /\ call[c] \in Seq(AnyWrite) /\ Sound(call[c])
      /\ call' = [call EXCEPT ![c] = <<>>]
      /\ UNCHANGED <<gaps, proposals, approvals, audit, newest>>
  BY DEF BreakOff, TypeOK, AnyWrite, tables
<1>3. h \in AnyWrite /\ h = call[c][1] /\ 1 \in 1 .. Len(call[c])
  BY <1>1, <1>2, HeadTailProperties
<1>4. /\ call' \in [Callers -> Seq(AnyWrite)] /\ call'[c] = <<>>
      /\ \A d \in Callers : d # c => call'[d] = call[d]
  BY <1>2, EmptySeq DEF TypeOK, AnyWrite
<1>5. /\ UNCHANGED <<file, torn, clashed>>
      /\ backups' \in [Stamps -> Content \cup {NoFile}]
      /\ Saved => Saved'
      /\ \A s \in Stamps : backups'[s] = backups[s] \/ Copies(c, s)
  <2>1. CASE UNCHANGED files
    BY <2>1 DEF files, TypeOK, Saved
  <2>2. CASE TearsCopy(h)
    <3>1. /\ h.stamp \in Stamps /\ h = Copy(h.stamp)
          /\ backups[h.stamp] = NoFile \/ clashed
      BY <1>2, <1>3, <2>2
      DEF TearsCopy, Sound, SoundCopy, AnyWrite, TableWrite, FileWrite, Copy
    <3>2. PICK f \in Torn(file) : backups' = [backups EXCEPT ![h.stamp] = f]
      BY <2>2 DEF TearsCopy
    <3>3. UNCHANGED <<file, torn, clashed>> /\ f \in Content
      BY <2>2 DEF TearsCopy, Torn, Content
    <3>4. \A s \in Stamps : s # h.stamp => backups'[s] = backups[s]
      BY <3>2 DEF TypeOK
    <3>5. NoFile # Original
      BY ConfigAssumption DEF Config
    <3>6. Saved => Saved'
      BY <3>1, <3>3, <3>4, <3>5 DEF Saved
    <3>7. \A s \in Stamps : backups'[s] = backups[s] \/ Copies(c, s)
      BY <1>2, <1>3, <3>1, <3>4 DEF Copies
    <3>8. backups' \in [Stamps -> Content \cup {NoFile}]
      BY <3>1, <3>2, <3>3 DEF TypeOK
    <3> QED
      BY <3>3, <3>6, <3>7, <3>8
  <2> QED
    BY <1>1, <2>1, <2>2 DEF BreakOff
<1>6. TypeOK'
  BY <1>2, <1>4, <1>5 DEF TypeOK, AnyWrite
<1>7. NewestIsRecorded' /\ \A r \in audit' : Gate(r)'
  BY <1>2, GateStays DEF NewestIsRecorded, Stands
<1>8. OriginalIsKept' /\ ValuesAreAccountedFor'
  BY <1>2, <1>5, ValuesStay DEF OriginalIsKept, Saved
<1>9. OneCopyEach'
  <2>1. \A d \in Callers, s \in Stamps : Copies(d, s)' => Copies(d, s)
    BY <1>4 DEF Copies
  <2> QED
    BY <1>5, <2>1 DEF OneCopyEach
<1>10. ASSUME NEW d \in Callers
       PROVE  Sound(call[d])'
  <2>1. PICK x : x = call'[d]
    OBVIOUS
  <2>2. CASE d = c
    <3>1. x = <<>>
      BY <1>4, <2>1, <2>2
    <3>2. Sound(x)'
      BY <3>1 DEF Sound, SoundAudit, SoundFile, SoundCopy
    <3> QED
      BY <2>1, <3>2, InHand
  <2>3. CASE d # c
    <3>1. x = call[d] /\ x \in Seq(AnyWrite) /\ Sound(x)
      BY <1>4, <2>1, <2>3 DEF TypeOK, AnyWrite
    <3>2. ASSUME NEW i \in 1 .. Len(x), x[i].table = "backup"
          PROVE  backups'[x[i].stamp] = NoFile \/ clashed'
      <4>0. SUFFICES ASSUME ~ clashed
                     PROVE  backups'[x[i].stamp] = NoFile
        BY <1>5
      <4>1. i = 1 /\ backups[x[i].stamp] = NoFile
        BY <3>1, <3>2, <4>0 DEF Sound, SoundCopy
      <4>2. x \in Seq(AnyWrite) /\ 1 \in 1 .. Len(x)
        BY <3>1, <4>1
      <4>3. x # <<>> /\ x[1] \in AnyWrite
        BY <4>2, ElementOfSeq, EmptySeq
      <4>4. x[1].stamp \in Stamps /\ x[1] = Copy(x[1].stamp)
        BY <3>2, <4>1, <4>3 DEF AnyWrite, TableWrite, FileWrite, Copy
      <4>5. Copies(d, x[1].stamp)
        BY <3>1, <4>3, <4>4 DEF Copies
      <4>6. ~ Copies(c, x[1].stamp)
        BY <2>3, <4>0, <4>4, <4>5 DEF OneCopyEach
      <4> QED
        BY <1>5, <4>1, <4>4, <4>6
    <3>3. Sound(x)'
      BY <1>2, <1>5, <3>1, <3>2, SoundStays
    <3> QED
      BY <2>1, <3>3, InHand
  <2> QED
    BY <2>2, <2>3
<1> QED
  BY <1>6, <1>7, <1>8, <1>9, <1>10

\* The invariant holds in every state of every behaviour.
LEMMA Invariance == Spec => []IInv
PROOF
<1>1. IInv /\ [Next]_vars => IInv'
  <2> SUFFICES ASSUME IInv, [Next]_vars
               PROVE  IInv'
    OBVIOUS
  <2>1. CASE Next
    BY <2>1, BeginInv, WriteInv, HalfWriteInv, BreakOffInv DEF Next
  <2>2. CASE UNCHANGED vars
    <3>1. UNCHANGED <<gaps, proposals, approvals, audit, newest, file, backups,
                      torn, clashed, call>>
      BY <2>2 DEF vars, tables, files
    <3>2. TypeOK' /\ NewestIsRecorded' /\ OneCopyEach'
      BY <3>1 DEF IInv, TypeOK, NewestIsRecorded, Stands, OneCopyEach, Copies
    <3>3. (\A r \in audit : Gate(r))' /\ ValuesAreAccountedFor'
                                      /\ OriginalIsKept'
      BY <3>1, ValuesStay DEF IInv, Gate, Recorded, Stands, IsApproved,
                              OriginalIsKept
    <3>4. ASSUME NEW d \in Callers
          PROVE  Sound(call[d])'
      <4>1. PICK x : x = call[d]
        OBVIOUS
      <4>2. Sound(x) /\ x = call'[d]
        BY <3>1, <4>1 DEF IInv
      <4>3. \A i \in 1 .. Len(x) : x[i].table = "backup" =>
                backups'[x[i].stamp] = NoFile \/ clashed'
        BY <3>1, <4>2 DEF Sound, SoundCopy
      <4>4. Saved => Saved'
        BY <3>1 DEF Saved
      <4>5. Sound(x)'
        BY <3>1, <4>2, <4>3, <4>4, SoundStays
      <4> QED
        BY <4>2, <4>5, InHand
    <3> QED
      BY <3>2, <3>3, <3>4 DEF IInv
  <2> QED
    BY <2>1, <2>2
<1> QED
  BY <1>1, InitInv, PTL DEF Spec

------------------------------------------------------------------------------

\* The tables, the files and the writes in hand keep their types.
THEOREM TypeCorrect == Spec => []TypeOK
PROOF
<1>1. IInv => TypeOK
  BY DEF IInv
<1> QED
  BY <1>1, Invariance, PTL

\* No step of a code change is recorded without the ones before it, for any
\* number of callers, proposals and rows.
THEOREM GatesStandInOrder == Spec => []GatesInOrder
PROOF
<1>1. IInv => GatesInOrder
  <2> SUFFICES ASSUME IInv, NEW p \in CodeChanges
               PROVE  /\ Recorded(p, "code_change_package_prepared") =>
                            IsApproved(p)
                      /\ Recorded(p, "verification_passed") =>
                            Recorded(p, "code_change_package_prepared")
                      /\ Recorded(p, "human_review_requested") =>
                            Recorded(p, "verification_passed")
                      /\ Recorded(p, "human_review_approved") =>
                            Recorded(p, "human_review_requested")
                      /\ Recorded(p, "branch_pushed") =>
                            Recorded(p, "human_review_approved")
                      /\ Recorded(p, "mr_created") => Recorded(p, "branch_pushed")
                      /\ Recorded(p, "mr_merged") => Recorded(p, "mr_created")
                      /\ Recorded(p, "deployment_plan_prepared") =>
                            Recorded(p, "mr_merged")
                      /\ \/ Recorded(p, "deployment_started")
                         \/ Recorded(p, "deployment_succeeded")
                         \/ Recorded(p, "deployment_failed")
                         => Recorded(p, "deployment_plan_prepared")
                      /\ Recorded(p, "rollback_succeeded") =>
                            \/ Recorded(p, "deployment_succeeded")
                            \/ Recorded(p, "deployment_failed")
    BY DEF GatesInOrder
  <2>1. \A r \in audit : Gate(r)
    BY DEF IInv
  <2>2. /\ Recorded(p, "code_change_package_prepared") => IsApproved(p)
        /\ Recorded(p, "verification_passed") =>
              Recorded(p, "code_change_package_prepared")
        /\ Recorded(p, "human_review_requested") =>
              Recorded(p, "verification_passed")
    BY <2>1 DEF Recorded, Gate
  <2>3. /\ Recorded(p, "human_review_approved") =>
              Recorded(p, "human_review_requested")
        /\ Recorded(p, "branch_pushed") => Recorded(p, "human_review_approved")
        /\ Recorded(p, "mr_created") => Recorded(p, "branch_pushed")
    BY <2>1 DEF Recorded, Gate
  <2>4. /\ Recorded(p, "mr_merged") => Recorded(p, "mr_created")
        /\ Recorded(p, "rollback_succeeded") =>
              \/ Recorded(p, "deployment_succeeded")
              \/ Recorded(p, "deployment_failed")
    BY <2>1 DEF Recorded, Gate
  <2>5. Recorded(p, "deployment_plan_prepared") => Recorded(p, "mr_merged")
    BY <2>1 DEF Recorded, Gate
  <2>6. \/ Recorded(p, "deployment_started")
        \/ Recorded(p, "deployment_succeeded")
        \/ Recorded(p, "deployment_failed")
        => Recorded(p, "deployment_plan_prepared")
    <3> SUFFICES ASSUME NEW e \in {"deployment_started", "deployment_succeeded",
                                   "deployment_failed"},
                        Recorded(p, e)
                 PROVE  Recorded(p, "deployment_plan_prepared")
      OBVIOUS
    <3>1. PICK r \in audit : r.proposal = p /\ r.event = e
      BY DEF Recorded
    <3>2. Stands(p, "deployment_plan_prepared", r.value)
      BY <2>1, <3>1 DEF Gate
    <3> QED
      BY <3>2 DEF Stands, Recorded
  <2> QED
    BY <2>2, <2>3, <2>4, <2>5, <2>6
<1> QED
  BY <1>1, Invariance, PTL

\* Whatever is deployed was planned, merged, published and reviewed.
THEOREM DeployedWasReviewed == Spec => []DeploysWhatWasReviewed
PROOF
<1>1. IInv => DeploysWhatWasReviewed
  <2> SUFFICES ASSUME IInv, NEW d \in audit,
                      d.event \in {"deployment_started", "deployment_succeeded",
                                   "deployment_failed"}
               PROVE  /\ \E r \in audit :
                          /\ r.proposal = d.proposal
                          /\ r.event = "deployment_plan_prepared"
                          /\ r.value = d.value
                      /\ \E m, r \in audit :
                          /\ m.proposal = d.proposal /\ m.event = "mr_merged"
                          /\ m.value.commit = d.value.commit
                          /\ r.proposal = d.proposal /\ r.event = "mr_created"
                          /\ r.value.url = m.value.url
                      /\ Recorded(d.proposal, "human_review_approved")
    BY DEF DeploysWhatWasReviewed
  <2>1. \A r \in audit : Gate(r)
    BY DEF IInv
  <2>2. PICK l \in audit : /\ l.proposal = d.proposal
                           /\ l.event = "deployment_plan_prepared"
                           /\ l.value = d.value
    BY <2>1 DEF Gate, Stands
  <2>3. PICK m \in audit : /\ m.proposal = d.proposal /\ m.event = "mr_merged"
                           /\ m.value.commit = d.value.commit
    BY <2>1, <2>2 DEF Gate
  <2>4. PICK r \in audit : /\ r.proposal = d.proposal /\ r.event = "mr_created"
                           /\ r.value.url = m.value.url
    BY <2>1, <2>3 DEF Gate
  <2>5. PICK b \in audit : b.proposal = d.proposal /\ b.event = "branch_pushed"
    BY <2>1, <2>4 DEF Gate, Recorded
  <2>6. Recorded(d.proposal, "human_review_approved")
    BY <2>1, <2>5 DEF Gate
  <2> QED
    BY <2>2, <2>3, <2>4, <2>6
<1> QED
  BY <1>1, Invariance, PTL

\* Before any write of the file is half done, every value of the configuration
\* is the original one, a low-risk one that was approved, or a roll-back value;
\* afterwards it may be missing or the front of one of these.
THEOREM EveryValueIsAccountedFor == Spec => []ValuesAreAccountedFor
PROOF
<1>1. IInv => ValuesAreAccountedFor
  BY DEF IInv
<1> QED
  BY <1>1, Invariance, PTL

\* The original configuration is in the file or in a backup until two calls use
\* one backup name, whatever is torn.
THEOREM TheOriginalIsKept == Spec => []OriginalIsKept
PROOF
<1>1. IInv => OriginalIsKept
  BY DEF IInv
<1> QED
  BY <1>1, Invariance, PTL

=============================================================================
