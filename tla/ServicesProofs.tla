--------------------------- MODULE ServicesProofs ---------------------------
(***************************************************************************)
(* The components that live in memory, whatever the number of people,      *)
(* workspaces, reports, sessions, callers, bots, stages and turns.  A      *)
(* workspace keeps a human owner, and a decision is right for as long as   *)
(* the generation it was made at stands; what is published is what was     *)
(* reviewed; a session that is refused stays refused; a key names one      *)
(* task; the hand-offs of a stage form one chain; effects happen once, and *)
(* turns tell the truth about them, for any number of threads that share   *)
(* the registry.  Last, all of this, and what is proved of tables, holds   *)
(* when they run side by side.                                             *)
(***************************************************************************)
EXTENDS Services, TableProofs, SequenceTheorems

(* Grants are given in workspaces that exist. *)
GrantsAreInWorkspaces ==
    \A w \in Workspaces \ workspaces, r \in Resources, p \in Ids : access[w][r][p] = "none"

DirInv == DirTypeOK /\ OwnersRemain /\ GrantsAreInWorkspaces

-----------------------------------------------------------------------------
(* More than one owner: whoever is removed, another one is left. *)
LEMMA AnotherOwnerIsLeft ==
    ASSUME NEW w \in Workspaces, NEW p, ~(Cardinality(Owners(w)) <= 1)
    PROVE  \E q \in Owners(w) : q # p
<1>1. IsFiniteSet(Ids)
  BY DirectoryAssumption, FS_Union DEF Ids
<1>2. IsFiniteSet(Owners(w))
  BY <1>1, FS_Subset DEF Owners
<1>3. IsFiniteSet({p}) /\ Cardinality({p}) = 1
  BY FS_Singleton
<1>4. ASSUME Owners(w) \subseteq {p} PROVE FALSE
  BY <1>3, <1>4, FS_Subset
<1> QED
  BY <1>4

(* Nobody but humans are owners. *)
LEMMA OwnersAreHuman ==
    ASSUME DirTypeOK, NEW w \in Workspaces
    PROVE  Owners(w) \subseteq Humans
BY DEF DirTypeOK, Owners

(* The initial directory is empty. *)
LEMMA InitIsDirInv == DirInit => DirInv
BY DEF DirInit, DirInv, DirTypeOK, OwnersRemain, GrantsAreInWorkspaces, Memberships, Roles, Levels

(* A step that adds to members or owners of one workspace, or changes      *)
(* nothing about memberships, leaves every workspace its owners.           *)
LEMMA MoreMembersKeepOwners ==
    ASSUME DirInv, DirTypeOK', workspaces' = workspaces,
           \A w \in Workspaces : Owners(w) \subseteq Owners(w)'
    PROVE  OwnersRemain'
BY DEF DirInv, DirTypeOK, OwnersRemain

(* RegisterPrincipal, CreateWorkspace. *)
LEMMA RegisterKeepsDirInv ==
    ASSUME DirInv, NEW p \in Ids, RegisterPrincipal(p)
    PROVE  DirInv'
<1> USE DEF RegisterPrincipal, DirInv
<1>1. DirTypeOK'
  BY DEF DirTypeOK
<1>2. OwnersRemain'
  BY DEF OwnersRemain, Owners
<1>3. GrantsAreInWorkspaces'
  BY DEF GrantsAreInWorkspaces
<1> QED
  BY <1>1, <1>2, <1>3

LEMMA CreateWorkspaceKeepsDirInv ==
    ASSUME DirInv, NEW w \in Workspaces, NEW p \in Ids, CreateWorkspace(w, p)
    PROVE  DirInv'
<1>1. p \in Humans /\ p \in registered
  BY DEF CreateWorkspace
<1>2. \A v \in Workspaces, q \in Ids :
         membership'[v][q] = IF v = w /\ q = p THEN [role |-> "owner", active |-> TRUE] ELSE membership[v][q]
  BY DEF CreateWorkspace, DirInv, DirTypeOK
<1>3. DirTypeOK'
  BY <1>1, <1>2 DEF CreateWorkspace, DirInv, DirTypeOK, Memberships, Roles
<1>4. OwnersRemain'
  <2> SUFFICES ASSUME NEW v \in workspaces' PROVE Owners(v)' \cap Humans # {}
    BY DEF OwnersRemain
  <2>1. CASE v = w
    BY <1>1, <1>2, <2>1 DEF Owners
  <2>2. CASE v # w
    <3>1. v \in workspaces /\ v \in Workspaces
      BY <2>2 DEF CreateWorkspace, DirInv, DirTypeOK
    <3>2. Owners(v)' = Owners(v)
      BY <1>2, <2>2, <3>1 DEF Owners
    <3> QED
      BY <3>1, <3>2 DEF DirInv, OwnersRemain
  <2> QED
    BY <2>1, <2>2
<1>5. GrantsAreInWorkspaces'
  BY DEF CreateWorkspace, DirInv, GrantsAreInWorkspaces
<1> QED
  BY <1>3, <1>4, <1>5 DEF DirInv

-----------------------------------------------------------------------------
(* AddMember, RemoveMember: who may manage is an owner, and is not the one *)
(* who is removed unless there is another.                                 *)
LEMMA AddMemberKeepsDirInv ==
    ASSUME DirInv, NEW w \in Workspaces, NEW actor \in Ids, NEW p \in Ids, NEW role \in Roles,
           AddMember(w, actor, p, role)
    PROVE  DirInv'
<1>1. \A v \in Workspaces, q \in Ids :
         membership'[v][q] = IF v = w /\ q = p THEN [role |-> role, active |-> TRUE] ELSE membership[v][q]
  BY DEF AddMember, DirInv, DirTypeOK
<1>2. DirTypeOK'
  <2>1. membership' \in [Workspaces -> [Ids -> Memberships]]
    BY DEF AddMember, DirInv, DirTypeOK, Memberships
  <2>2. generation' \in [Workspaces -> Nat]
    BY DEF AddMember, Bump, DirInv, DirTypeOK
  <2> QED
    BY <1>1, <2>1, <2>2 DEF AddMember, MayManage, DirInv, DirTypeOK
<1>3. \A v \in Workspaces : Owners(v) \subseteq Owners(v)'
  BY <1>1 DEF AddMember, Owners
<1>4. OwnersRemain'
  BY <1>2, <1>3, MoreMembersKeepOwners DEF AddMember
<1>5. GrantsAreInWorkspaces'
  BY DEF AddMember, DirInv, GrantsAreInWorkspaces
<1> QED
  BY <1>2, <1>4, <1>5 DEF DirInv

LEMMA RemoveMemberKeepsDirInv ==
    ASSUME DirInv, NEW w \in Workspaces, NEW actor \in Ids, NEW p \in Ids,
           RemoveMember(w, actor, p)
    PROVE  DirInv'
<1>1. \A v \in Workspaces, q \in Ids :
         /\ membership'[v][q].role = membership[v][q].role
         /\ membership'[v][q].active = IF v = w /\ q = p THEN FALSE ELSE membership[v][q].active
  BY DEF RemoveMember, DirInv, DirTypeOK, Memberships
<1>2. DirTypeOK'
  <2>1. membership' \in [Workspaces -> [Ids -> Memberships]]
    BY DEF RemoveMember, DirInv, DirTypeOK, Memberships
  <2>2. generation' \in [Workspaces -> Nat]
    BY DEF RemoveMember, Bump, DirInv, DirTypeOK
  <2> QED
    BY <1>1, <2>1, <2>2 DEF RemoveMember, DirInv, DirTypeOK
<1>3. \A v \in Workspaces : Owners(v) \ {p} \subseteq Owners(v)'
  BY <1>1 DEF Owners
<1>4. \A v \in Workspaces : v # w => Owners(v) \subseteq Owners(v)'
  BY <1>1 DEF Owners
<1>5. \E q \in Owners(w) : q # p
  <2>1. CASE membership[w][p].role = "owner"
    BY <2>1, AnotherOwnerIsLeft DEF RemoveMember, LastOwner
  <2>2. CASE membership[w][p].role # "owner"
    BY <2>2 DEF RemoveMember, MayManage, Owners
  <2> QED
    BY <2>1, <2>2
<1>6. OwnersRemain'
  <2> SUFFICES ASSUME NEW v \in workspaces PROVE Owners(v)' \cap Humans # {}
    BY DEF OwnersRemain, RemoveMember
  <2>1. v \in Workspaces
    BY DEF DirInv, DirTypeOK
  <2>2. CASE v = w
    <3>1. Owners(w)' \subseteq Humans
      BY <1>2 DEF DirTypeOK, Owners
    <3> QED
      BY <1>3, <1>5, <2>1, <2>2, <3>1
  <2>3. CASE v # w
    BY <1>4, <2>1, <2>3 DEF DirInv, OwnersRemain
  <2> QED
    BY <2>2, <2>3
<1>7. GrantsAreInWorkspaces'
  BY DEF RemoveMember, DirInv, GrantsAreInWorkspaces
<1> QED
  BY <1>2, <1>6, <1>7 DEF DirInv

(* GrantResource, RevokeResource. *)
LEMMA ManageAccessKeepsDirInv ==
    ASSUME DirInv, NEW w \in Workspaces, NEW r \in Resources, NEW actor \in Ids, NEW p \in Ids,
           ManageAccess(w, actor, r, p)
    PROVE  DirInv'
<1>1. PICK level \in Levels : access' = [access EXCEPT ![w][r][p] = level]
  BY DEF ManageAccess, GrantResource, RevokeResource, Levels
<1>2. /\ MayManage(w, actor) /\ Bump(w)
      /\ UNCHANGED <<registered, workspaces, membership>>
  BY DEF ManageAccess, GrantResource, RevokeResource
<1>3. DirTypeOK'
  <2>1. access' \in [Workspaces -> [Resources -> [Ids -> Levels]]]
    BY <1>1 DEF DirInv, DirTypeOK
  <2>2. generation' \in [Workspaces -> Nat]
    BY <1>2 DEF Bump, DirInv, DirTypeOK
  <2> QED
    BY <1>2, <2>1, <2>2 DEF DirInv, DirTypeOK
<1>4. OwnersRemain'
  BY <1>2 DEF DirInv, OwnersRemain, Owners
<1>5. GrantsAreInWorkspaces'
  BY <1>1, <1>2 DEF DirInv, DirTypeOK, GrantsAreInWorkspaces, MayManage
<1> QED
  BY <1>3, <1>4, <1>5 DEF DirInv

(* Types, owners and the place of grants are inductive. *)
THEOREM DirectoryInvariant == DirSpec => []DirInv
<1>1. DirInv /\ [DirNext]_dirvars => DirInv'
  <2> SUFFICES ASSUME DirInv, [DirNext]_dirvars PROVE DirInv'
    OBVIOUS
  <2>1. CASE \E p \in Ids : RegisterPrincipal(p)
    BY <2>1, RegisterKeepsDirInv
  <2>2. CASE \E w \in Workspaces, p \in Ids : CreateWorkspace(w, p)
    BY <2>2, CreateWorkspaceKeepsDirInv
  <2>3. CASE \E w \in Workspaces, actor, p \in Ids : ManageMembers(w, actor, p)
    BY <2>3, AddMemberKeepsDirInv, RemoveMemberKeepsDirInv DEF ManageMembers
  <2>4. CASE \E w \in Workspaces, r \in Resources, actor, p \in Ids : ManageAccess(w, actor, r, p)
    BY <2>4, ManageAccessKeepsDirInv
  <2>5. CASE UNCHANGED dirvars
    BY <2>5 DEF dirvars, DirInv, DirTypeOK, OwnersRemain, GrantsAreInWorkspaces, Owners
  <2> QED
    BY <2>1, <2>2, <2>3, <2>4, <2>5 DEF DirNext
<1> QED
  BY <1>1, InitIsDirInv, PTL DEF DirSpec

(* A workspace is never left without an active human owner. *)
THEOREM OwnersAlwaysRemain == DirSpec => []OwnersRemain
<1>1. DirInv => OwnersRemain
  BY DEF DirInv
<1> QED
  BY <1>1, DirectoryInvariant, PTL

-----------------------------------------------------------------------------
(* What one step may do to the decisions about a workspace: a step that    *)
(* lets its generation stand changes no answer of can_access, and a        *)
(* generation only grows.                                                  *)
DecisionsStand(w) ==
    /\ generation'[w] >= generation[w]
    /\ generation'[w] = generation[w] =>
          \A p \in Ids, r \in Resources, write \in BOOLEAN : CanAccess(w, p, r, write)' = CanAccess(w, p, r, write)

LEMMA BumpMovesOn ==
    ASSUME DirInv, NEW w \in Workspaces, NEW v \in Workspaces, Bump(v)
    PROVE  /\ generation'[w] >= generation[w]
           /\ w = v => generation'[w] # generation[w]
BY DEF Bump, DirInv, DirTypeOK

LEMMA StepsKeepDecisions ==
    ASSUME DirInv, NEW w \in Workspaces, [DirNext]_dirvars
    PROVE  DecisionsStand(w)
<1> USE DEF DecisionsStand
<1>0. generation[w] \in Nat
  BY DEF DirInv, DirTypeOK
<1>1. CASE UNCHANGED <<membership, access, generation>>
  BY <1>0, <1>1 DEF CanAccess
<1>2. ASSUME NEW v \in Workspaces, NEW p \in Ids, CreateWorkspace(v, p) PROVE DecisionsStand(w)
  <2>1. generation'[w] = generation[w]
    BY <1>2 DEF CreateWorkspace
  <2>2. CASE w = v
    <3>1. \A r \in Resources, q \in Ids : access'[w][r][q] = "none" /\ access[w][r][q] = "none"
      BY <1>2, <2>2 DEF CreateWorkspace, DirInv, GrantsAreInWorkspaces
    <3> QED
      BY <1>0, <2>1, <3>1 DEF CanAccess
  <2>3. CASE w # v
    <3>1. \A q \in Ids : membership'[w][q] = membership[w][q]
      BY <1>2, <2>3 DEF CreateWorkspace, DirInv, DirTypeOK
    <3> QED
      BY <1>0, <1>2, <2>1, <3>1 DEF CanAccess, CreateWorkspace
  <2> QED
    BY <2>2, <2>3
<1>3. ASSUME NEW v \in Workspaces, NEW actor \in Ids, NEW p \in Ids, ManageMembers(v, actor, p)
      PROVE  DecisionsStand(w)
  <2>1. Bump(v) /\ UNCHANGED access
    BY <1>3 DEF ManageMembers, AddMember, RemoveMember
  <2>2. CASE w = v
    BY <2>1, <2>2, BumpMovesOn
  <2>3. CASE w # v
    <3>1. \A q \in Ids : membership'[w][q] = membership[w][q]
      BY <1>3, <2>3 DEF ManageMembers, AddMember, RemoveMember, DirInv, DirTypeOK
    <3> QED
      BY <2>1, <3>1, BumpMovesOn DEF CanAccess
  <2> QED
    BY <2>2, <2>3
<1>4. ASSUME NEW v \in Workspaces, NEW r \in Resources, NEW actor \in Ids, NEW p \in Ids,
             ManageAccess(v, actor, r, p)
      PROVE  DecisionsStand(w)
  <2>1. Bump(v) /\ UNCHANGED membership
    BY <1>4 DEF ManageAccess, GrantResource, RevokeResource
  <2>2. CASE w = v
    BY <2>1, <2>2, BumpMovesOn
  <2>3. CASE w # v
    <3>1. \A s \in Resources, q \in Ids : access'[w][s][q] = access[w][s][q]
      BY <1>4, <2>3 DEF ManageAccess, GrantResource, RevokeResource, DirInv, DirTypeOK
    <3> QED
      BY <2>1, <3>1, BumpMovesOn DEF CanAccess
  <2> QED
    BY <2>2, <2>3
<1> QED
  BY <1>1, <1>2, <1>3, <1>4 DEF DirNext, RegisterPrincipal, dirvars

(* A decision kept with its generation is right while that stands. *)
THEOREM GenerationAlwaysTells == DirSpec => GenerationTellsDecisions
<1> DEFINE Stands == \A w \in Workspaces : DecisionsStand(w)
<1>1. DirInv /\ [DirNext]_dirvars => Stands
  BY StepsKeepDecisions
<1>2. GenerationTellsDecisions <=> [][Stands]_dirvars
  BY DEF GenerationTellsDecisions, DecisionsStand
<1> HIDE DEF Stands
<1>3. [][Stands]_dirvars => GenerationTellsDecisions
  BY <1>2
<1> QED
  BY <1>1, <1>3, DirectoryInvariant, PTL DEF DirSpec

-----------------------------------------------------------------------------
(* Reports.  A report changes alone, by one of its operations. *)
RepInv == RepTypeOK /\ PublishedAsReviewed

(* What PublishedAsReviewed says of one report. *)
AsReviewed(report) ==
    /\ report.status \in Statuses \ {"draft"} =>
          report.snapshot = report.revision /\ report.evidence = {TRUE}
    /\ report.status \in {"submitted", "published"} =>
          report.submitter = {report.owner} \cap People /\ report.submitter # {}
    /\ report.status = "published" =>
          \E reviewer \in People \ {report.owner} : report.reviewer = {reviewer}

LEMMA OneReportAtATime ==
    ASSUME RepInv, NEW r \in Reports, NEW report \in Report, AsReviewed(report),
           reports' = [reports EXCEPT ![r] = report]
    PROVE  RepInv'
<1>1. RepTypeOK'
  BY DEF RepInv, RepTypeOK
<1>2. \A s \in Reports : AsReviewed(reports[s])
  BY DEF RepInv, PublishedAsReviewed, AsReviewed, In
<1>3. \A s \in Reports : reports'[s] = IF s = r THEN report ELSE reports[s]
  BY DEF RepInv, RepTypeOK
<1>4. \A s \in Reports : AsReviewed(reports'[s])
  BY <1>2, <1>3
<1>5. PublishedAsReviewed'
  BY <1>4 DEF PublishedAsReviewed, AsReviewed, In
<1> QED
  BY <1>1, <1>5 DEF RepInv

(* What the operations of a report start from. *)
LEMMA ReportsAreReports ==
    ASSUME RepInv, NEW r \in Reports, ~In(r, "absent")
    PROVE  reports[r] \in Report /\ AsReviewed(reports[r])
<1>1. reports[r].status # "absent"
  BY DEF In
<1>2. reports[r] \in Report
  BY <1>1 DEF RepInv, RepTypeOK, Absent
<1> QED
  BY <1>2 DEF RepInv, PublishedAsReviewed, AsReviewed, In

LEMMA ApprovedIsAllApproved ==
    ASSUME NEW evidence \in Manifests, FALSE \notin evidence
    PROVE  evidence = {TRUE}
BY DEF Manifests

LEMMA OperationsKeepRepInv ==
    ASSUME RepInv, NEW r \in Reports, NEW actor \in Actors,
           \/ \E evidence \in Manifests : CreateReport(r, actor, evidence)
           \/ Patch(r, actor) \/ Snapshot(r, actor)
           \/ RequestSubmit(r, actor) \/ ReviewAndPublish(r, actor)
    PROVE  RepInv'
<1>0. ~In(r, "absent") => reports[r] \in Report /\ AsReviewed(reports[r])
  BY ReportsAreReports
<1>1. ASSUME NEW evidence \in Manifests, CreateReport(r, actor, evidence) PROVE RepInv'
  <2> DEFINE report == [status |-> "draft", owner |-> actor, evidence |-> evidence, revision |-> 0,
                        snapshot |-> 0, submitter |-> {}, reviewer |-> {}]
  <2>1. report \in Report /\ report.status = "draft"
    BY DEF Report, Statuses
  <2>2. AsReviewed(report)
    BY <2>1 DEF Statuses, AsReviewed
  <2>3. reports' = [reports EXCEPT ![r] = report]
    BY <1>1 DEF CreateReport
  <2> HIDE DEF report
  <2> QED
    BY <2>1, <2>2, <2>3, OneReportAtATime
<1>2. CASE Patch(r, actor)
  <2> DEFINE report == [reports[r] EXCEPT !.revision = @ + 1]
  <2>1. reports[r] \in Report /\ reports[r].status = "draft"
    BY <1>0, <1>2 DEF Patch, In
  <2>2. report \in Report /\ report.status = "draft"
    BY <2>1 DEF Report
  <2>3. AsReviewed(report)
    BY <2>2 DEF Statuses, AsReviewed
  <2>4. reports' = [reports EXCEPT ![r] = report]
    BY <1>2 DEF Patch
  <2> HIDE DEF report
  <2> QED
    BY <2>2, <2>3, <2>4, OneReportAtATime
<1>3. CASE Snapshot(r, actor)
  <2> DEFINE report == [reports[r] EXCEPT !.status = "snapshot", !.snapshot = reports[r].revision]
  <2>1. reports[r] \in Report /\ FALSE \notin reports[r].evidence
    BY <1>0, <1>3 DEF Snapshot, In
  <2>2. reports[r].evidence = {TRUE}
    BY <2>1, ApprovedIsAllApproved DEF Report
  <2>3. report \in Report /\ AsReviewed(report)
    BY <2>1, <2>2 DEF Report, Statuses, AsReviewed
  <2>4. reports' = [reports EXCEPT ![r] = report]
    BY <1>3, <2>1 DEF Snapshot, Report
  <2> HIDE DEF report
  <2> QED
    BY <2>3, <2>4, OneReportAtATime
<1>4. CASE RequestSubmit(r, actor)
  <2> DEFINE report == [reports[r] EXCEPT !.status = "submitted", !.submitter = {actor}]
  <2>1. /\ reports[r] \in Report /\ AsReviewed(reports[r])
        /\ reports[r].status = "snapshot" /\ actor = reports[r].owner /\ actor \in People
    BY <1>0, <1>4 DEF RequestSubmit, In, Actors
  <2>2. report \in Report
    BY <2>1 DEF Report, Statuses
  <2>3. reports[r].snapshot = reports[r].revision /\ reports[r].evidence = {TRUE}
    BY <2>1 DEF AsReviewed, Statuses
  <2>4. /\ report.status = "submitted" /\ report.submitter = {actor} /\ report.owner = actor
        /\ report.snapshot = report.revision /\ report.evidence = {TRUE}
    BY <2>1, <2>3 DEF Report
  <2>5. report.submitter = {report.owner} \cap People /\ report.submitter # {}
    BY <2>1, <2>4
  <2>6. AsReviewed(report)
    BY <2>4, <2>5 DEF AsReviewed
  <2>7. reports' = [reports EXCEPT ![r] = report]
    BY <1>4, <2>1 DEF RequestSubmit, Report
  <2> HIDE DEF report
  <2> QED
    BY <2>2, <2>6, <2>7, OneReportAtATime
<1>5. CASE ReviewAndPublish(r, actor)
  <2> DEFINE report == [reports[r] EXCEPT !.status = "published", !.reviewer = {actor}]
  <2>1. /\ reports[r] \in Report /\ AsReviewed(reports[r])
        /\ reports[r].status = "submitted" /\ {actor} # reports[r].submitter /\ actor \in People
    BY <1>0, <1>5 DEF ReviewAndPublish, In, Actors
  <2>2. actor # reports[r].owner
    BY <2>1 DEF AsReviewed
  <2>3. report \in Report /\ report.reviewer = {actor}
    BY <2>1 DEF Report, Statuses
  <2>4. AsReviewed(report)
    BY <2>1, <2>2, <2>3 DEF Report, Statuses, AsReviewed
  <2>5. reports' = [reports EXCEPT ![r] = report]
    BY <1>5, <2>1 DEF ReviewAndPublish, Report
  <2> HIDE DEF report
  <2> QED
    BY <2>3, <2>4, <2>5, OneReportAtATime
<1> QED
  BY <1>1, <1>2, <1>3, <1>4, <1>5

(* Reports are reports, published as they were reviewed. *)
LEMMA ReportTypes == RepSpec => []RepInv
<1>1. RepInit => RepInv
  <2> SUFFICES ASSUME RepInit PROVE RepInv
    OBVIOUS
  <2>1. \A r \in Reports : reports[r].status = "absent"
    BY DEF RepInit, Absent
  <2>2. PublishedAsReviewed
    BY <2>1 DEF PublishedAsReviewed, In, Statuses
  <2> QED
    BY <2>2 DEF RepInit, RepInv, RepTypeOK
<1>2. RepInv /\ [RepNext]_reports => RepInv'
  <2> SUFFICES ASSUME RepInv, [RepNext]_reports PROVE RepInv'
    OBVIOUS
  <2>1. CASE RepNext
    BY <2>1, OperationsKeepRepInv DEF RepNext
  <2>2. CASE UNCHANGED reports
    BY <2>2 DEF RepInv, RepTypeOK, PublishedAsReviewed, In
  <2> QED
    BY <2>1, <2>2
<1> QED
  BY <1>1, <1>2, PTL DEF RepSpec

(* What is published is what was frozen, on approved evidence, submitted   *)
(* by its owner and published by another human.  reports/workflow.py:33.   *)
THEOREM AlwaysPublishedAsReviewed == RepSpec => []PublishedAsReviewed
<1>1. RepInv => PublishedAsReviewed
  BY DEF RepInv
<1> QED
  BY <1>1, ReportTypes, PTL

-----------------------------------------------------------------------------
(* Sessions.  Only a session that was issued is revoked, and every call    *)
(* has its own time.                                                       *)
SessInv == SessTypeOK /\ \A k \in Tokens : Issued(k) \/ sessions[k].revokedAt = 0

LEMMA SessionTypes == SessSpec => []SessInv
<1> USE DEF SessInv, Issued
<1>1. SessInit => SessInv
  BY DEF SessInit, SessTypeOK, Times
<1>2. SessInv /\ [SessNext]_sessions => SessInv'
  <2> SUFFICES ASSUME SessInv, [SessNext]_sessions PROVE SessInv'
    OBVIOUS
  <2>1. ASSUME NEW k \in Tokens, NEW now \in Clocks, NEW ttl \in Ttls, CreateSession(k, ttl, now)
        PROVE  SessInv'
    BY <2>1, SessionsAssumption DEF CreateSession, SessTypeOK, Times, Clocks
  <2>2. ASSUME NEW k \in Tokens, NEW now \in Clocks, RevokeSession(k, now) PROVE SessInv'
    BY <2>2 DEF RevokeSession, SessTypeOK, Times, Clocks
  <2>3. CASE UNCHANGED sessions
    BY <2>3 DEF SessTypeOK
  <2> QED
    BY <2>1, <2>2, <2>3 DEF SessNext
<1> QED
  BY <1>1, <1>2, PTL DEF SessSpec

(* What DeadSessionsStayDead says of one session and one step. *)
StaysDead(k, at, later) ==
    /\ Issued(k) /\ ~Authenticates(k, at) /\ at <= later =>
          ~Authenticates(k, later)' /\ \A csrf \in Tokens : ~VerifiesCsrf(k, csrf, later)'
    /\ sessions[k].revokedAt # 0 =>
          ~Authenticates(k, at)' /\ sessions'[k].revokedAt = sessions[k].revokedAt

LEMMA StepsKeepSessionsDead ==
    ASSUME SessInv, [SessNext]_sessions, NEW k \in Tokens, NEW at \in Clocks, NEW later \in Clocks
    PROVE  StaysDead(k, at, later)
<1> USE SessionsAssumption DEF SessInv, StaysDead, VerifiesCsrf, Authenticates, Issued, Clocks
<1>1. ASSUME NEW s \in Tokens, NEW now \in Clocks, NEW ttl \in Ttls, CreateSession(s, ttl, now)
      PROVE  StaysDead(k, at, later)
  BY <1>1 DEF CreateSession, SessTypeOK, Times
<1>2. ASSUME NEW s \in Tokens, NEW now \in Clocks, RevokeSession(s, now) PROVE StaysDead(k, at, later)
  BY <1>2 DEF RevokeSession, SessTypeOK, Times
<1>3. CASE UNCHANGED sessions
  BY <1>3 DEF SessTypeOK, Times
<1> QED
  BY <1>1, <1>2, <1>3 DEF SessNext

(* A revoked session is refused for ever, whatever the caller's clock; one *)
(* that is refused at a time is refused at all later ones.                 *)
(* identity/sessions.py:79, 96.                                            *)
THEOREM SessionsStayDead == SessSpec => DeadSessionsStayDead
<1> DEFINE Stay == \A k \in Tokens, at, later \in Clocks : StaysDead(k, at, later)
<1>1. SessInv /\ [SessNext]_sessions => Stay
  BY StepsKeepSessionsDead
<1>2. DeadSessionsStayDead <=> [][Stay]_sessions
  BY DEF DeadSessionsStayDead, StaysDead
<1> HIDE DEF Stay
<1>3. [][Stay]_sessions => DeadSessionsStayDead
  BY <1>2
<1> QED
  BY <1>1, <1>3, SessionTypes, PTL DEF SessSpec

-----------------------------------------------------------------------------
(* Tasks.  However many callers race, a key has one task, and every answer *)
(* and every refusal tells of it.                                          *)

(* A row that answers a, and a row that refused task. *)
AnsweredBy(a, row) == row.id = a.id /\ row.key = a.key /\ row.input = a.input
RefusedBy(task, row) == row.key = task.key \/ (row.id = task.id /\ row.key # task.key)

IntakeInv == IntakeTypeOK /\ RetriesGetTheTask

(* Rows are only added, and one that conflicts with none keeps them apart. *)
LEMMA RowsOnlyComeToBe ==
    ASSUME IntakeInv, tasks \subseteq tasks', IntakeTypeOK',
           \A x, y \in tasks' : x.key = y.key \/ x.id = y.id => x = y,
           \A a \in granted' : a \in granted \/ \E row \in tasks' : AnsweredBy(a, row),
           \A c \in Callers : \A task \in failed'[c] :
              task \in failed[c] \/ \E row \in tasks' : RefusedBy(task, row)
    PROVE  IntakeInv'
<1>1. \A a \in granted : \E row \in tasks : AnsweredBy(a, row)
  BY DEF IntakeInv, RetriesGetTheTask, AnsweredBy
<1>2. \A c \in Callers : \A task \in failed[c] : \E row \in tasks : RefusedBy(task, row)
  BY DEF IntakeInv, RetriesGetTheTask, RefusedBy
<1>3. \A a \in granted' : \E row \in tasks' : AnsweredBy(a, row)
  BY <1>1
<1>4. \A c \in Callers : \A task \in failed'[c] : \E row \in tasks' : RefusedBy(task, row)
  BY <1>2
<1>5. RetriesGetTheTask'
  BY <1>3, <1>4 DEF RetriesGetTheTask, AnsweredBy, RefusedBy
<1> QED
  BY <1>5 DEF IntakeInv

LEMMA CreateTaskKeepsIntakeInv ==
    ASSUME IntakeInv, NEW c \in Callers, NEW task \in Tasks, CreateTask(c, task)
    PROVE  IntakeInv'
<1>1. tasks' = tasks /\ \A x, y \in tasks : x.key = y.key \/ x.id = y.id => x = y
  BY DEF CreateTask, IntakeInv, RetriesGetTheTask
<1>2. IntakeTypeOK'
  BY DEF CreateTask, Grant, IntakeInv, IntakeTypeOK, Tasks, Inserting, Idle
<1>3. \A a \in granted' : a \in granted \/ \E row \in tasks' : AnsweredBy(a, row)
  BY DEF CreateTask, Grant, AnsweredBy
<1>4. \A d \in Callers : failed'[d] \subseteq failed[d]
  BY DEF CreateTask, IntakeInv, IntakeTypeOK
<1> QED
  BY <1>1, <1>2, <1>3, <1>4, RowsOnlyComeToBe

LEMMA InsertTaskKeepsIntakeInv ==
    ASSUME IntakeInv, NEW c \in Callers, InsertTask(c)
    PROVE  IntakeInv'
<1> DEFINE task == intake[c].task
<1>1. task \in Tasks
  BY DEF InsertTask, IntakeInv, IntakeTypeOK, Inserting, Idle
<1>2. intake' \in [Callers -> Inserting \cup {Idle}]
  BY DEF InsertTask, IntakeInv, IntakeTypeOK
<1>3. CASE ~Conflicts(task)
  <2>1. /\ tasks' = tasks \cup {task} /\ UNCHANGED failed
        /\ Grant(task, task.id) \/ UNCHANGED granted
    BY <1>3 DEF InsertTask
  <2>2. \A row \in tasks : row.id # task.id /\ row.key # task.key
    BY <1>3 DEF Conflicts
  <2> HIDE DEF task
  <2>3. IntakeTypeOK'
    BY <1>1, <1>2, <2>1 DEF Grant, IntakeInv, IntakeTypeOK, Tasks
  <2>4. \A x, y \in tasks' : x.key = y.key \/ x.id = y.id => x = y
    BY <2>1, <2>2 DEF IntakeInv, RetriesGetTheTask
  <2>5. \A a \in granted' : a \in granted \/ \E row \in tasks' : AnsweredBy(a, row)
    BY <2>1 DEF Grant, AnsweredBy
  <2> QED
    BY <2>1, <2>3, <2>4, <2>5, RowsOnlyComeToBe
<1>4. CASE Conflicts(task)
  <2>1. tasks' = tasks /\ granted' = granted /\ failed' = [failed EXCEPT ![c] = {task}]
    BY <1>4 DEF InsertTask
  <2>2. \E row \in tasks : RefusedBy(task, row)
    BY <1>4 DEF Conflicts, RefusedBy
  <2> HIDE DEF task
  <2>3. IntakeTypeOK'
    BY <1>1, <1>2, <2>1 DEF IntakeInv, IntakeTypeOK
  <2>4. \A d \in Callers : failed'[d] = IF d = c THEN {task} ELSE failed[d]
    BY <2>1 DEF IntakeInv, IntakeTypeOK
  <2>5. \A x, y \in tasks' : x.key = y.key \/ x.id = y.id => x = y
    BY <2>1 DEF IntakeInv, RetriesGetTheTask
  <2> QED
    BY <2>1, <2>2, <2>3, <2>4, <2>5, RowsOnlyComeToBe
<1> QED
  BY <1>3, <1>4

(* Rows of tasks, and what callers were answered. *)
LEMMA IntakeTypes == IntakeSpec => []IntakeInv
<1>1. IntakeInit => IntakeInv
  BY DEF IntakeInit, IntakeInv, IntakeTypeOK, RetriesGetTheTask
<1>2. IntakeInv /\ [IntakeNext]_intakevars => IntakeInv'
  <2> SUFFICES ASSUME IntakeInv, [IntakeNext]_intakevars PROVE IntakeInv'
    OBVIOUS
  <2>1. CASE IntakeNext
    BY <2>1, CreateTaskKeepsIntakeInv, InsertTaskKeepsIntakeInv DEF IntakeNext
  <2>2. CASE UNCHANGED intakevars
    BY <2>2 DEF intakevars, IntakeInv, IntakeTypeOK, RetriesGetTheTask
  <2> QED
    BY <2>1, <2>2
<1> QED
  BY <1>1, <1>2, PTL DEF IntakeSpec

(* Every answer under a key is of its one task, and who lost the race      *)
(* finds the winner's.  jobs/repository.py:95.                             *)
THEOREM RetriesAlwaysGetTheTask == IntakeSpec => []RetriesGetTheTask
<1>1. IntakeInv => RetriesGetTheTask
  BY DEF IntakeInv
<1> QED
  BY <1>1, IntakeTypes, PTL

-----------------------------------------------------------------------------
(* What the mailbox remembers of a stage is the end of its chain; this is  *)
(* what lets the next hand-off extend it.                                  *)
StageIsChainsEnd ==
    \A s \in Stages : Len(history[s]) > 0 => stage[s].source = {history[s][Len(history[s])].from}

BoxInv == BoxTypeOK /\ HandoffsFormOneChain /\ StageIsChainsEnd

(* What BoxInv says of one stage. *)
OneChain(st, h) ==
    /\ Len(h) = st.hop /\ Len(h) <= MaxHops
    /\ \A i \in 1 .. Len(h) :
          /\ h[i].expected = i - 1
          /\ i > 1 => h[i].from = h[i-1].to /\ h[i].to # h[i-1].from
          /\ i = Len(h) => st.owner = {h[i].to}
    /\ Len(h) > 0 => st.source = {h[Len(h)].from}

LEMMA OneChainEach ==
    (\A s \in Stages : OneChain(stage[s], history[s])) <=> HandoffsFormOneChain /\ StageIsChainsEnd
BY DEF OneChain, HandoffsFormOneChain, StageIsChainsEnd

LEMMA SendKeepsBoxInv ==
    ASSUME BoxInv, NEW k \in Correlations, NEW source \in Peers, NEW target \in Peers,
           NEW kind \in Kinds, NEW body \in Contents, SendLetter(k, source, target, kind, body)
    PROVE  BoxInv'
<1>1. BoxTypeOK'
  BY DEF SendLetter, BoxInv, BoxTypeOK, Letters
<1>2. HandoffsFormOneChain' /\ StageIsChainsEnd'
  BY DEF SendLetter, BoxInv, HandoffsFormOneChain, StageIsChainsEnd
<1> QED
  BY <1>1, <1>2 DEF BoxInv

LEMMA CreateKeepsBoxInv ==
    ASSUME BoxInv, NEW s \in Stages, NEW owner \in Peers, CreateHandoff(s, owner)
    PROVE  BoxInv'
<1>1. /\ stage[s] \in Handoffs /\ history[s] \in Seq(Moves)
      /\ OneChain(stage[s], history[s])
  BY OneChainEach DEF BoxInv, BoxTypeOK
<1>2. stage[s].hop = 0 /\ Len(history[s]) = 0
  <2>1. Len(history[s]) \in Nat
    BY <1>1, LenProperties
  <2>2. ~(Len(history[s]) > 0)
    <3>1. ASSUME Len(history[s]) > 0 PROVE stage[s].owner # {}
      <4>1. Len(history[s]) \in 1 .. Len(history[s])
        BY <2>1, <3>1
      <4>2. stage[s].owner = {history[s][Len(history[s])].to}
        BY <1>1, <4>1 DEF OneChain
      <4> QED
        BY <4>2
    <3> QED
      BY <3>1 DEF CreateHandoff
  <2> QED
    BY <1>1, <2>1, <2>2 DEF OneChain
<1>3. \A t \in Stages : stage'[t] = IF t = s THEN [stage[s] EXCEPT !.owner = {owner}] ELSE stage[t]
  BY DEF CreateHandoff, BoxInv, BoxTypeOK
<1>4. BoxTypeOK'
  BY DEF CreateHandoff, BoxInv, BoxTypeOK, Handoffs
<1>5. OneChain([stage[s] EXCEPT !.owner = {owner}], history[s])
  BY <1>1, <1>2 DEF OneChain, Handoffs
<1>6. \A t \in Stages : OneChain(stage[t], history[t])'
  BY <1>3, <1>5, OneChainEach DEF BoxInv, CreateHandoff
<1>7. HandoffsFormOneChain' /\ StageIsChainsEnd'
  BY <1>6 DEF OneChain, HandoffsFormOneChain, StageIsChainsEnd
<1> QED
  BY <1>4, <1>7 DEF BoxInv

(* A hand-off is decided at the end of the chain, and extends it. *)
LEMMA HandoffKeepsBoxInv ==
    ASSUME BoxInv, NEW s \in Stages, NEW source \in Peers, NEW target \in Peers,
           NEW expected \in 0 .. MaxHops, Handoff(s, source, target, expected)
    PROVE  BoxInv'
<1> DEFINE h == history[s]
           move == [from |-> source, to |-> target, expected |-> expected]
           longer == Append(h, move)
           moved == [owner |-> {target}, hop |-> stage[s].hop + 1, source |-> {source}]
<1>1. /\ stage[s] \in Handoffs /\ h \in Seq(Moves) /\ OneChain(stage[s], h)
  BY OneChainEach DEF BoxInv, BoxTypeOK
<1>2. move \in Moves /\ source \in Members
  BY <1>1 DEF Handoff, Current, Moves, Handoffs
<1>3. /\ longer \in Seq(Moves) /\ Len(longer) = Len(h) + 1 /\ longer[Len(h) + 1] = move
      /\ \A i \in 1 .. Len(h) : longer[i] = h[i]
  BY <1>1, <1>2, AppendProperties
<1>4. Len(h) \in Nat /\ Len(h) = expected /\ expected + 1 <= MaxHops /\ MaxHops \in Nat
  BY <1>1, MailboxAssumption DEF Handoff, Current, OneChain
<1>5. Len(h) > 0 => h[Len(h)].to = source /\ h[Len(h)].from # target
  <2> SUFFICES ASSUME Len(h) > 0 PROVE h[Len(h)].to = source /\ h[Len(h)].from # target
    OBVIOUS
  <2>1. Len(h) \in 1 .. Len(h)
    BY <1>4
  <2>2. stage[s].owner = {h[Len(h)].to} /\ stage[s].source = {h[Len(h)].from}
    BY <1>1, <2>1 DEF OneChain
  <2>3. stage[s].owner = {source} /\ stage[s].source # {target}
    BY DEF Handoff, Current
  <2> QED
    BY <2>2, <2>3
<1>6. /\ stage' = [stage EXCEPT ![s] = moved] /\ history' = [history EXCEPT ![s] = longer]
      /\ moved.hop = Len(h) + 1 /\ moved.owner = {target} /\ moved.source = {source}
  BY <1>4 DEF Handoff, Current
<1>7. moved \in Handoffs
  BY <1>1, <1>2 DEF Handoff, Handoffs
<1>8. move.from = source /\ move.to = target /\ move.expected = expected
  OBVIOUS
<1> HIDE DEF h, move, longer, moved
<1>9. BoxTypeOK'
  BY <1>3, <1>6, <1>7 DEF Handoff, BoxInv, BoxTypeOK
<1>10. OneChain(moved, longer)
  <2>1. ASSUME NEW i \in 1 .. Len(longer)
        PROVE  /\ longer[i].expected = i - 1
               /\ i > 1 => longer[i].from = longer[i-1].to /\ longer[i].to # longer[i-1].from
               /\ i = Len(longer) => moved.owner = {longer[i].to}
    <3>1. CASE i = Len(h) + 1
      <4>1. longer[i] = move /\ (i > 1 => longer[i-1] = h[Len(h)])
        BY <1>3, <1>4, <3>1
      <4> QED
        BY <1>3, <1>4, <1>5, <1>6, <1>8, <3>1, <4>1
    <3>2. CASE i # Len(h) + 1
      <4>1. i \in 1 .. Len(h) /\ i # Len(longer) /\ longer[i] = h[i] /\ (i > 1 => longer[i-1] = h[i-1])
        BY <1>3, <1>4, <3>2
      <4> QED
        BY <1>1, <4>1 DEF OneChain
    <3> QED
      BY <3>1, <3>2
  <2> QED
    BY <1>3, <1>4, <1>6, <1>8, <2>1 DEF OneChain
<1>11. \A t \in Stages : /\ stage'[t] = IF t = s THEN moved ELSE stage[t]
                         /\ history'[t] = IF t = s THEN longer ELSE history[t]
  BY <1>6 DEF BoxInv, BoxTypeOK
<1>12. \A t \in Stages : OneChain(stage[t], history[t])'
  BY <1>10, <1>11, OneChainEach DEF BoxInv
<1>13. HandoffsFormOneChain' /\ StageIsChainsEnd'
  BY <1>12 DEF OneChain, HandoffsFormOneChain, StageIsChainsEnd
<1> QED
  BY <1>9, <1>13 DEF BoxInv

(* Stages, the chains behind them, and the ends they remember. *)
LEMMA MailboxTypes == BoxSpec => []BoxInv
<1>1. BoxInit => BoxInv
  <2> SUFFICES ASSUME BoxInit PROVE BoxInv
    OBVIOUS
  <2>1. BoxTypeOK
    BY DEF BoxInit, BoxTypeOK, Handoffs
  <2>2. \A s \in Stages : stage[s].hop = 0 /\ Len(history[s]) = 0
    BY DEF BoxInit
  <2> QED
    BY <2>1, <2>2, MailboxAssumption DEF BoxInv, HandoffsFormOneChain, StageIsChainsEnd
<1>2. BoxInv /\ [BoxNext]_boxvars => BoxInv'
  <2> SUFFICES ASSUME BoxInv, [BoxNext]_boxvars PROVE BoxInv'
    OBVIOUS
  <2>1. CASE BoxNext
    BY <2>1, SendKeepsBoxInv, CreateKeepsBoxInv, HandoffKeepsBoxInv DEF BoxNext
  <2>2. CASE UNCHANGED boxvars
    BY <2>2 DEF boxvars, BoxInv, BoxTypeOK, HandoffsFormOneChain, StageIsChainsEnd
  <2> QED
    BY <2>1, <2>2
<1> QED
  BY <1>1, <1>2, PTL DEF BoxSpec

(* However many bots hand a stage on, at once or late, its hand-offs form  *)
(* one chain.  runtime/mailbox.py:88.                                      *)
THEOREM HandoffsAlwaysFormOneChain == BoxSpec => []HandoffsFormOneChain
<1>1. BoxInv => HandoffsFormOneChain
  BY DEF BoxInv
<1> QED
  BY <1>1, MailboxTypes, PTL

-----------------------------------------------------------------------------
(* Where the effects of an operation are: every time it took effect or is  *)
(* about to is accounted for, and one that is neither remembered nor under *)
(* way has no more effects than excuses, so that one more is allowed.      *)
Running(o) == {u \in TurnThreads : turn[u].at = "handler" /\ Operation(u) = o}

EffectsAreAccountedFor ==
    \A o \in Operations :
       /\ performed[o] + Cardinality(Running(o)) <= 1 + excuse[o]
       /\ remembered[o] = {} /\ InHandler(o) = {} => performed[o] <= excuse[o]

(* Memory holds what took effect, or is about to be told of it. *)
MemoryIsOfEffects ==
    /\ \A o \in Operations : remembered[o] \subseteq effects[o]
    /\ \A t \in TurnThreads : turn[t].at = "store" => Call(t).payload \in effects[Operation(t)]

(* Where a turn is in its calls. *)
InItsCalls(tr) ==
    /\ tr.at \in {"calls", "handler", "store", "ok"} =>
          /\ tr.key \in Turns
          /\ Len(tr.calls) <= MaxToolCalls /\ Len(tr.results) <= Len(tr.calls)
    /\ tr.at \in {"handler", "store"} =>
          /\ Len(tr.results) < Len(tr.calls)
          /\ tr.calls[Len(tr.results) + 1].tool \in Writes

(* The results of a turn are true of effects eff and memory rem. *)
OperationOf(tr, i) == <<tr.calls[i].tool, tr.key, i>>

ToldTruly(tr, eff, rem) ==
    \A i \in 1 .. Len(tr.results) :
       tr.results[i].status = "ok" /\ tr.calls[i].tool \in Writes =>
          /\ tr.results[i].data # {} /\ tr.results[i].data \subseteq eff[OperationOf(tr, i)]
          /\ rem[OperationOf(tr, i)] # {}

Tells(tr, eff, rem) ==
    /\ tr.at \in {"calls", "handler", "store", "ok"} => ToldTruly(tr, eff, rem)
    /\ tr.at = "ok" => /\ Len(tr.results) = Len(tr.calls)
                       /\ \A i \in 1 .. Len(tr.results) : tr.results[i].status = "ok"
    /\ tr.at \in {"denied", "failed"} /\ tr.calls # <<>> =>
          \E i \in 1 .. Len(tr.results) : tr.results[i].status = tr.at

(* Effects stay, and what is remembered is not forgotten. *)
OnlyGrow(eff, eff2, rem, rem2) ==
    \A o \in Operations : eff[o] \subseteq eff2[o] /\ (rem[o] # {} => rem2[o] # {})

TurnsTell == \A t \in TurnThreads : InItsCalls(turn[t]) /\ Tells(turn[t], effects, remembered)

TurnInv == TurnTypeOK /\ EffectsAreAccountedFor /\ MemoryIsOfEffects /\ TurnsTell

-----------------------------------------------------------------------------
(* A turn that is at a call of a write is at an operation of the registry. *)
LEMMA WritesAreOperations ==
    ASSUME TurnTypeOK, NEW t \in TurnThreads, InItsCalls(turn[t]),
           Len(turn[t].results) < Len(turn[t].calls), turn[t].at \in {"calls", "handler", "store"}
    PROVE  /\ Call(t) \in Calls
           /\ Call(t).tool \in Writes => Operation(t) \in Operations
           /\ Len(turn[t].results) + 1 \in 1 .. Len(turn[t].calls)
<1>1. /\ turn[t].calls \in Seq(Calls) /\ turn[t].results \in Seq(Results)
      /\ Len(turn[t].calls) \in Nat /\ Len(turn[t].results) \in Nat
  BY DEF TurnTypeOK, TurnRecord
<1>2. Len(turn[t].results) + 1 \in 1 .. Len(turn[t].calls)
  BY <1>1
<1>3. Call(t) \in Calls
  BY <1>1, <1>2 DEF Call
<1>4. turn[t].key \in Turns /\ Len(turn[t].calls) <= MaxToolCalls
  BY DEF InItsCalls
<1>5. Len(turn[t].results) + 1 \in 1 .. MaxToolCalls
  BY <1>1, <1>2, <1>4, BotTurnsAssumption
<1> QED
  BY <1>2, <1>3, <1>4, <1>5 DEF Operation, Operations

(* Threads in a handler are finitely many; one that leaves it makes them   *)
(* one less, one that enters it one more.                                  *)
LEMMA RunningIsFinite ==
    ASSUME NEW o
    PROVE  IsFiniteSet(Running(o)) /\ Cardinality(Running(o)) \in Nat
<1>1. Running(o) \subseteq TurnThreads
  BY DEF Running
<1> QED
  BY <1>1, BotTurnsAssumption, FS_Subset, FS_CardinalityType

(* While effects and memory only grow, what the results of a turn say      *)
(* stays true.                                                             *)
LEMMA WhatIsToldStays ==
    ASSUME NEW tr \in TurnRecord, NEW eff, NEW eff2, NEW rem, NEW rem2,
           InItsCalls(tr), Tells(tr, eff, rem),
           OnlyGrow(eff, eff2, rem, rem2)
    PROVE  Tells(tr, eff2, rem2)
<1>1. ASSUME tr.at \in {"calls", "handler", "store", "ok"},
             NEW i \in 1 .. Len(tr.results), tr.results[i].status = "ok", tr.calls[i].tool \in Writes
      PROVE  /\ tr.results[i].data # {} /\ tr.results[i].data \subseteq eff2[OperationOf(tr, i)]
             /\ rem2[OperationOf(tr, i)] # {}
  <2>1. i \in 1 .. MaxToolCalls /\ tr.key \in Turns
    <3>1. Len(tr.results) \in Nat /\ Len(tr.calls) \in Nat
      BY DEF TurnRecord
    <3> QED
      BY <1>1, <3>1, BotTurnsAssumption DEF InItsCalls
  <2>2. OperationOf(tr, i) \in Operations
    BY <1>1, <2>1 DEF Operations, OperationOf
  <2> QED
    BY <1>1, <2>2 DEF Tells, ToldTruly, OnlyGrow
<1> QED
  BY <1>1 DEF Tells, ToldTruly

(* A step that changes the turn of one thread, while effects and memory    *)
(* only grow, leaves the others telling what they told.                    *)
LEMMA OthersTellOn ==
    ASSUME TurnTypeOK, TurnsTell, NEW t \in TurnThreads, NEW tr \in TurnRecord,
           turn' = [turn EXCEPT ![t] = tr],
           OnlyGrow(effects, effects', remembered, remembered'),
           InItsCalls(tr), Tells(tr, effects', remembered')
    PROVE  TurnsTell' /\ turn' \in [TurnThreads -> TurnRecord]
<1>1. ASSUME NEW u \in TurnThreads
      PROVE  InItsCalls(turn'[u]) /\ Tells(turn'[u], effects', remembered')
  <2>1. CASE u = t
    BY <2>1 DEF TurnTypeOK
  <2>2. CASE u # t
    <3>1. turn'[u] = turn[u] /\ turn[u] \in TurnRecord
      BY <2>2 DEF TurnTypeOK
    <3>2. InItsCalls(turn[u]) /\ Tells(turn[u], effects, remembered)
      BY DEF TurnsTell
    <3>3. Tells(turn[u], effects', remembered')
      BY <3>1, <3>2, WhatIsToldStays
    <3> QED
      BY <3>1, <3>2, <3>3
  <2> QED
    BY <2>1, <2>2
<1>2. turn' \in [TurnThreads -> TurnRecord]
  BY DEF TurnTypeOK
<1>3. \A u \in TurnThreads : InItsCalls(turn[u])'
  BY <1>1 DEF InItsCalls
<1>4. \A u \in TurnThreads : Tells(turn[u], effects, remembered)'
  BY <1>1 DEF Tells, ToldTruly, OperationOf
<1> QED
  BY <1>2, <1>3, <1>4 DEF TurnsTell

(* A turn is given the result of its next call, which is true. *)
IsTrueNext(tr, res, eff, rem) ==
    res.status = "ok" /\ tr.calls[Len(tr.results) + 1].tool \in Writes =>
       /\ res.data # {} /\ res.data \subseteq eff[OperationOf(tr, Len(tr.results) + 1)]
       /\ rem[OperationOf(tr, Len(tr.results) + 1)] # {}

WithResult(tr, res) ==
    [at |-> "calls", key |-> tr.key, calls |-> tr.calls, results |-> Append(tr.results, res)]

LEMMA ResultIsAdded ==
    ASSUME NEW tr \in TurnRecord, NEW res \in Results, NEW eff, NEW rem,
           tr.at \in {"calls", "handler", "store"}, InItsCalls(tr), ToldTruly(tr, eff, rem),
           Len(tr.results) < Len(tr.calls), IsTrueNext(tr, res, eff, rem)
    PROVE  /\ WithResult(tr, res) \in TurnRecord /\ WithResult(tr, res).at = "calls"
           /\ InItsCalls(WithResult(tr, res)) /\ Tells(WithResult(tr, res), eff, rem)
<1> DEFINE new == [at |-> "calls", key |-> tr.key, calls |-> tr.calls, results |-> Append(tr.results, res)]
<1>1. tr.calls \in Seq(Calls) /\ tr.results \in Seq(Results) /\ tr.key \in Turns \cup {{}}
  BY DEF TurnRecord
<1>2. /\ Append(tr.results, res) \in Seq(Results)
      /\ Len(Append(tr.results, res)) = Len(tr.results) + 1
      /\ \A i \in 1 .. Len(tr.results) : Append(tr.results, res)[i] = tr.results[i]
      /\ Append(tr.results, res)[Len(tr.results) + 1] = res
  BY <1>1
<1>3. Len(tr.results) \in Nat /\ Len(tr.calls) \in Nat
  BY <1>1
<1>4. new \in TurnRecord
  BY <1>1, <1>2 DEF TurnRecord
<1>5. InItsCalls(new)
  BY <1>2, <1>3 DEF InItsCalls
<1>6. ASSUME NEW i \in 1 .. Len(new.results), new.results[i].status = "ok", new.calls[i].tool \in Writes
      PROVE  /\ new.results[i].data # {} /\ new.results[i].data \subseteq eff[OperationOf(new, i)]
             /\ rem[OperationOf(new, i)] # {}
  <2>1. OperationOf(new, i) = OperationOf(tr, i)
    BY DEF OperationOf
  <2>2. CASE i = Len(tr.results) + 1
    BY <1>2, <1>6, <2>1, <2>2 DEF IsTrueNext
  <2>3. CASE i \in 1 .. Len(tr.results)
    BY <1>2, <1>6, <2>1, <2>3 DEF ToldTruly
  <2>4. Len(new.results) = Len(tr.results) + 1
    BY <1>2
  <2>5. i = Len(tr.results) + 1 \/ i \in 1 .. Len(tr.results)
    BY <1>3, <2>4
  <2> QED
    BY <2>2, <2>3, <2>5
<1> QED
  BY <1>4, <1>5, <1>6 DEF Tells, ToldTruly, WithResult

(* Result is the update of one turn. *)
LEMMA ResultIsOneTurn ==
    ASSUME TurnTypeOK, NEW t \in TurnThreads, NEW status, NEW data, Result(t, status, data)
    PROVE  turn' = [turn EXCEPT ![t] = WithResult(turn[t], [status |-> status, data |-> data])]
BY DEF Result, TurnTypeOK, TurnRecord, WithResult

(* A step of a turn that is in no handler, before or after. *)
LEMMA QuietStep ==
    ASSUME TurnInv, NEW t \in TurnThreads, NEW tr \in TurnRecord,
           turn' = [turn EXCEPT ![t] = tr],
           turn[t].at \notin {"handler", "store"}, tr.at \notin {"handler", "store"},
           InItsCalls(tr), Tells(tr, effects, remembered),
           UNCHANGED <<remembered, performed, effects, excuse>>, started' \in 0 .. MaxTurns
    PROVE  TurnInv'
<1>1. TurnsTell' /\ turn' \in [TurnThreads -> TurnRecord]
  <2>1. OnlyGrow(effects, effects', remembered, remembered')
    BY DEF OnlyGrow
  <2> QED
    BY <2>1, OthersTellOn DEF TurnInv
<1>2. TurnTypeOK'
  BY <1>1 DEF TurnInv, TurnTypeOK
<1>3. \A u \in TurnThreads : u # t => turn'[u] = turn[u]
  BY DEF TurnInv, TurnTypeOK
<1>4. turn'[t] = tr
  BY DEF TurnInv, TurnTypeOK
<1>5. ASSUME NEW o
      PROVE  Running(o)' = Running(o) /\ InHandler(o)' = InHandler(o)
  BY <1>3, <1>4 DEF Running, InHandler, Operation, Call
<1>6. EffectsAreAccountedFor'
  BY <1>5 DEF EffectsAreAccountedFor, TurnInv
<1>7. MemoryIsOfEffects'
  BY <1>3, <1>4 DEF MemoryIsOfEffects, TurnInv, Operation, Call
<1> QED
  BY <1>1, <1>2, <1>6, <1>7 DEF TurnInv

LEMMA StartKeepsTurnInv ==
    ASSUME TurnInv, NEW t \in TurnThreads, NEW key \in Turns, NEW memories, NEW chat,
           NEW calls \in Answers, StartTurn(t, key, memories, chat, calls)
    PROVE  TurnInv'
<1>1. PICK at \in {"needs_input", "failed", "calls"} :
         /\ turn' = [turn EXCEPT ![t] =
                       IF at = "calls" THEN [at |-> at, key |-> key, calls |-> calls, results |-> <<>>]
                       ELSE CallsNothing(at)]
         /\ at = "calls" => ~(Len(calls) > MaxToolCalls)
  BY DEF StartTurn
<1>2. calls \in Seq(Calls) /\ Len(calls) \in Nat /\ MaxToolCalls \in Nat
  BY BotTurnsAssumption
<1>3. turn[t].at = "idle" /\ started' \in 0 .. MaxTurns
  <2>1. started \in 0 .. MaxTurns /\ MaxTurns \in Nat
    BY BotTurnsAssumption DEF TurnInv, TurnTypeOK
  <2> QED
    BY <2>1 DEF StartTurn, Rest, CallsNothing
<1>4. CASE at = "calls"
  <2> DEFINE tr == [at |-> "calls", key |-> key, calls |-> calls, results |-> <<>>]
  <2>1. tr \in TurnRecord
    BY <1>2 DEF TurnRecord
  <2>2. InItsCalls(tr) /\ Tells(tr, effects, remembered)
    BY <1>1, <1>2, <1>4 DEF InItsCalls, Tells, ToldTruly
  <2>3. turn' = [turn EXCEPT ![t] = tr]
    BY <1>1, <1>4
  <2> HIDE DEF tr
  <2>4. tr.at = "calls"
    BY DEF tr
  <2> QED
    BY <1>3, <2>1, <2>2, <2>3, <2>4, QuietStep DEF StartTurn
<1>5. CASE at # "calls"
  <2> DEFINE tr == [at |-> at, key |-> {}, calls |-> <<>>, results |-> <<>>]
  <2>1. tr \in TurnRecord
    BY <1>1, <1>5 DEF TurnRecord
  <2>2. InItsCalls(tr) /\ Tells(tr, effects, remembered)
    BY <1>1, <1>5 DEF InItsCalls, Tells, ToldTruly
  <2>3. turn' = [turn EXCEPT ![t] = tr]
    BY <1>1, <1>5 DEF CallsNothing
  <2>4. tr.at \notin {"handler", "store"}
    BY <1>1, <1>5
  <2> HIDE DEF tr
  <2> QED
    BY <1>3, <2>1, <2>2, <2>3, <2>4, QuietStep DEF StartTurn
<1> QED
  BY <1>4, <1>5

(* What a turn that is at its calls may be told without a handler. *)
LEMMA TellingKeepsTurnInv ==
    ASSUME TurnInv, NEW t \in TurnThreads, Calling(t),
           NEW status \in {"ok", "denied", "failed"}, NEW data \in SUBSET Payloads,
           Result(t, status, data),
           status = "ok" /\ Call(t).tool \in Writes =>
              data # {} /\ data \subseteq effects[Operation(t)] /\ remembered[Operation(t)] # {},
           UNCHANGED <<remembered, performed, effects, excuse, started>>
    PROVE  TurnInv'
<1> DEFINE res == [status |-> status, data |-> data]
<1>1. turn' = [turn EXCEPT ![t] = WithResult(turn[t], res)]
  BY ResultIsOneTurn DEF TurnInv
<1>2. /\ turn[t] \in TurnRecord /\ InItsCalls(turn[t]) /\ Tells(turn[t], effects, remembered)
      /\ turn[t].at = "calls" /\ Len(turn[t].results) < Len(turn[t].calls)
  BY DEF TurnInv, TurnTypeOK, TurnsTell, Calling
<1>3. ToldTruly(turn[t], effects, remembered)
  BY <1>2 DEF Tells
<1>4. res \in Results
  BY DEF Results
<1>5. /\ Operation(t) = OperationOf(turn[t], Len(turn[t].results) + 1)
      /\ Call(t).tool = turn[t].calls[Len(turn[t].results) + 1].tool
  BY DEF Operation, OperationOf, Call
<1>6. IsTrueNext(turn[t], res, effects, remembered)
  BY <1>5 DEF IsTrueNext
<1>7. started' \in 0 .. MaxTurns
  BY DEF TurnInv, TurnTypeOK
<1> HIDE DEF res
<1>8. /\ WithResult(turn[t], res) \in TurnRecord /\ WithResult(turn[t], res).at = "calls"
      /\ InItsCalls(WithResult(turn[t], res)) /\ Tells(WithResult(turn[t], res), effects, remembered)
  BY <1>2, <1>3, <1>4, <1>6, ResultIsAdded
<1> QED
  BY <1>1, <1>2, <1>7, <1>8, QuietStep

LEMMA RefuseKeepsTurnInv ==
    ASSUME TurnInv, NEW t \in TurnThreads, RefuseCall(t)
    PROVE  TurnInv'
<1>1. PICK status \in {"denied", "failed"} : Result(t, status, {})
  BY DEF RefuseCall
<1> QED
  BY <1>1, TellingKeepsTurnInv DEF RefuseCall

LEMMA ReadKeepsTurnInv ==
    ASSUME TurnInv, NEW t \in TurnThreads, ReadCall(t)
    PROVE  TurnInv'
<1>1. Calling(t) /\ Call(t).tool \notin Writes /\ UNCHANGED <<remembered, performed, effects, excuse, started>>
  BY DEF ReadCall, Accepted
<1>2. Call(t) \in Calls
  BY <1>1, WritesAreOperations DEF TurnInv, TurnsTell, Calling
<1>3. {Call(t).payload} \in SUBSET Payloads
  BY <1>2 DEF Calls
<1>4. CASE Result(t, "ok", {Call(t).payload})
  BY <1>1, <1>3, <1>4, TellingKeepsTurnInv
<1>5. CASE Result(t, "failed", {})
  BY <1>1, <1>5, TellingKeepsTurnInv
<1> QED
  BY <1>4, <1>5 DEF ReadCall

(* A turn moves on within the same call. *)
WithAt(tr, at) == [at |-> at, key |-> tr.key, calls |-> tr.calls, results |-> tr.results]

LEMMA MoveIsOneTurn ==
    ASSUME TurnTypeOK, NEW t \in TurnThreads, NEW at \in {"handler", "store", "ok", "denied", "failed"},
           turn' = [turn EXCEPT ![t].at = at]
    PROVE  turn' = [turn EXCEPT ![t] = WithAt(turn[t], at)]
<1>1. turn[t] \in TurnRecord /\ turn = [u \in TurnThreads |-> turn[u]]
  BY DEF TurnTypeOK
<1>2. [turn[t] EXCEPT !.at = at] = WithAt(turn[t], at)
  BY <1>1 DEF TurnRecord, WithAt
<1>3. turn' = [turn EXCEPT ![t] = [turn[t] EXCEPT !.at = at]]
  BY <1>1
<1> QED
  BY <1>2, <1>3

LEMMA MoveTellsOn ==
    ASSUME NEW tr \in TurnRecord, NEW eff, NEW rem, NEW at \in {"handler", "store"},
           tr.at \in {"calls", "handler", "store"}, InItsCalls(tr), Tells(tr, eff, rem),
           Len(tr.results) < Len(tr.calls), tr.calls[Len(tr.results) + 1].tool \in Writes
    PROVE  /\ WithAt(tr, at) \in TurnRecord /\ WithAt(tr, at).at = at
           /\ InItsCalls(WithAt(tr, at)) /\ Tells(WithAt(tr, at), eff, rem)
BY DEF WithAt, TurnRecord, InItsCalls, Tells, ToldTruly, OperationOf

(* What a step of thread t means to the operations of the other threads:   *)
(* nothing.  Its own operation stays the same while its results do.        *)
LEMMA OtherOperations ==
    ASSUME TurnTypeOK, NEW t \in TurnThreads, NEW tr, turn' = [turn EXCEPT ![t] = tr],
           NEW o, o # Operation(t), tr.at \in {"handler", "store"} => Operation(t)' = Operation(t)
    PROVE  Running(o)' = Running(o) /\ InHandler(o)' = InHandler(o)
<1>1. \A u \in TurnThreads : u # t => turn'[u] = turn[u] /\ Operation(u)' = Operation(u)
  BY DEF TurnTypeOK, Operation, Call
<1>2. turn'[t] = tr
  BY DEF TurnTypeOK
<1> QED
  BY <1>1, <1>2 DEF Running, InHandler

LEMMA InvokeKeepsTurnInv ==
    ASSUME TurnInv, NEW t \in TurnThreads, InvokeWrite(t)
    PROVE  TurnInv'
<1>1. /\ Calling(t) /\ Call(t).tool \in Writes
      /\ UNCHANGED <<remembered, performed, effects, started>>
  BY DEF InvokeWrite, Accepted
<1>2. /\ turn[t] \in TurnRecord /\ InItsCalls(turn[t]) /\ Tells(turn[t], effects, remembered)
      /\ turn[t].at = "calls" /\ Len(turn[t].results) < Len(turn[t].calls)
  BY <1>1 DEF TurnInv, TurnTypeOK, TurnsTell, Calling
<1>3. PICK o \in Operations : o = Operation(t)
  BY <1>1, <1>2, WritesAreOperations DEF TurnInv
<1>4. CASE remembered[o] # {}
  <2>1. Result(t, "ok", remembered[o]) /\ UNCHANGED excuse
    BY <1>3, <1>4 DEF InvokeWrite
  <2>2. remembered[o] \in SUBSET Payloads /\ remembered[o] \subseteq effects[o]
    BY <1>3 DEF TurnInv, TurnTypeOK, MemoryIsOfEffects
  <2> QED
    BY <1>1, <1>3, <1>4, <2>1, <2>2, TellingKeepsTurnInv
<1>5. CASE remembered[o] = {}
  <2> DEFINE tr == WithAt(turn[t], "handler")
  <2>1. /\ turn' = [turn EXCEPT ![t].at = "handler"]
        /\ excuse' = [excuse EXCEPT ![o] = @ + (IF InHandler(o) # {} THEN 1 ELSE 0)]
    BY <1>3, <1>5 DEF InvokeWrite
  <2>2. turn' = [turn EXCEPT ![t] = tr]
    BY <2>1, MoveIsOneTurn DEF TurnInv
  <2>3. turn[t].calls[Len(turn[t].results) + 1].tool \in Writes
    BY <1>1 DEF Call
  <2>4. tr \in TurnRecord /\ tr.at = "handler" /\ InItsCalls(tr) /\ Tells(tr, effects, remembered)
    BY <1>2, <2>3, MoveTellsOn
  <2>5. Operation(t)' = o /\ Call(t)' = Call(t)
    BY <1>3, <2>2 DEF TurnInv, TurnTypeOK, Operation, Call, WithAt
  <2> HIDE DEF tr
  <2>6. OnlyGrow(effects, effects', remembered, remembered')
    BY <1>1 DEF OnlyGrow
  <2>7. TurnsTell' /\ turn' \in [TurnThreads -> TurnRecord]
    BY <1>1, <2>2, <2>4, <2>6, OthersTellOn DEF TurnInv
  <2>8. excuse \in [Operations -> Nat] /\ excuse' \in [Operations -> Nat]
    BY <1>3, <2>1 DEF TurnInv, TurnTypeOK
  <2>9. TurnTypeOK'
    BY <1>1, <2>7, <2>8 DEF TurnInv, TurnTypeOK
  <2>10. EffectsAreAccountedFor'
    <3>1. ASSUME NEW p \in Operations, p # o
          PROVE  /\ Running(p)' = Running(p) /\ InHandler(p)' = InHandler(p)
                 /\ excuse'[p] = excuse[p]
      BY <1>3, <2>1, <2>2, <2>5, <2>8, <3>1, OtherOperations DEF TurnInv
    <3>2. Running(o)' = Running(o) \cup {t} /\ t \notin Running(o) /\ InHandler(o)' # {}
          /\ Running(o) \subseteq InHandler(o)
      <4>1. \A u \in TurnThreads : u # t => turn'[u] = turn[u] /\ Operation(u)' = Operation(u)
        BY <2>2 DEF TurnInv, TurnTypeOK, Operation, Call
      <4>2. turn'[t].at = "handler"
        BY <2>2, <2>4 DEF TurnInv, TurnTypeOK
      <4> QED
        BY <1>2, <2>5, <4>1, <4>2 DEF Running, InHandler
    <3>3. Cardinality(Running(o)') = Cardinality(Running(o)) + 1 /\ Cardinality(Running(o)) \in Nat
      BY <3>2, RunningIsFinite, FS_AddElement
    <3>4. performed[o] \in Nat /\ excuse[o] \in Nat
      BY <1>3, <2>8 DEF TurnInv, TurnTypeOK
    <3>5. performed[o] + Cardinality(Running(o)') <= 1 + excuse'[o]
      <4>1. CASE InHandler(o) # {}
        <5>1. excuse'[o] = excuse[o] + 1
          BY <1>3, <2>1, <2>8, <4>1
        <5>2. performed[o] + Cardinality(Running(o)) <= 1 + excuse[o]
          BY <1>3 DEF TurnInv, EffectsAreAccountedFor
        <5> QED
          BY <3>3, <3>4, <5>1, <5>2
      <4>2. CASE InHandler(o) = {}
        <5>1. excuse'[o] = excuse[o] + 0
          BY <1>3, <2>1, <2>8, <4>2
        <5>2. performed[o] <= excuse[o]
          BY <1>3, <1>5, <4>2 DEF TurnInv, EffectsAreAccountedFor
        <5>3. Cardinality(Running(o)) = 0
          BY <3>2, <4>2, FS_EmptySet
        <5> QED
          BY <3>3, <3>4, <5>1, <5>2, <5>3
      <4> QED
        BY <4>1, <4>2
    <3> QED
      BY <1>1, <1>3, <3>1, <3>2, <3>5 DEF TurnInv, EffectsAreAccountedFor
  <2>11. MemoryIsOfEffects'
    BY <1>1, <2>2, <2>4 DEF MemoryIsOfEffects, TurnInv, TurnTypeOK, Operation, Call
  <2> QED
    BY <2>7, <2>9, <2>10, <2>11 DEF TurnInv
<1> QED
  BY <1>4, <1>5

(* Of all operations, o alone changes. *)
OnlyChanges(o) ==
    /\ effects' \in [Operations -> SUBSET Payloads] /\ remembered' \in [Operations -> SUBSET Payloads]
    /\ performed' \in [Operations -> Nat] /\ excuse' \in [Operations -> Nat]
    /\ UNCHANGED started
    /\ \A p \in Operations : p # o => /\ performed'[p] = performed[p] /\ excuse'[p] = excuse[p]
                                     /\ remembered'[p] = remembered[p] /\ effects'[p] = effects[p]

(* The thread leaves its handler or its store: what is left to prove of    *)
(* such a step is about its own operation o and turn tr alone.             *)
LEMMA HandlerStep ==
    ASSUME TurnInv, NEW t \in TurnThreads, NEW tr \in TurnRecord, NEW o \in Operations,
           turn[t].at \in {"handler", "store"}, o = Operation(t),
           turn' = [turn EXCEPT ![t] = tr], InItsCalls(tr), Tells(tr, effects', remembered'),
           tr.at \notin {"handler", "store"} \/ (tr.at = "store" /\ Operation(t)' = o),
           tr.at = "store" => Call(t)' = Call(t) /\ Call(t).payload \in effects'[o],
           OnlyChanges(o), OnlyGrow(effects, effects', remembered, remembered'),
           remembered'[o] \subseteq effects'[o],
           performed'[o] + Cardinality(Running(o) \ {t}) <= 1 + excuse'[o],
           remembered'[o] = {} /\ tr.at # "store" => performed'[o] <= excuse'[o]
    PROVE  TurnInv'
<1>1. TurnTypeOK /\ EffectsAreAccountedFor /\ MemoryIsOfEffects /\ TurnsTell
  BY DEF TurnInv
<1>4. TurnsTell' /\ turn' \in [TurnThreads -> TurnRecord]
  BY <1>1, OthersTellOn
<1>5. TurnTypeOK'
  BY <1>1, <1>4 DEF TurnTypeOK, OnlyChanges
<1>6. \A p \in Operations : p # o => /\ performed'[p] = performed[p] /\ excuse'[p] = excuse[p]
                                    /\ remembered'[p] = remembered[p] /\ effects'[p] = effects[p]
  BY DEF OnlyChanges
<1>7. \A u \in TurnThreads : u # t => /\ turn'[u] = turn[u]
                                      /\ Operation(u)' = Operation(u) /\ Call(u)' = Call(u)
  BY <1>1 DEF TurnTypeOK, Operation, Call
<1>8. turn'[t] = tr
  BY <1>1 DEF TurnTypeOK
<1>9. Running(o)' = Running(o) \ {t}
  BY <1>7, <1>8 DEF Running
<1>10. tr.at = "store" => InHandler(o)' # {}
  BY <1>8 DEF InHandler
<1>11. \A p \in Operations : p # o => Running(p)' = Running(p) /\ InHandler(p)' = InHandler(p)
  BY <1>1, OtherOperations
<1>12. EffectsAreAccountedFor'
  <2>1. ASSUME NEW p \in Operations
        PROVE  /\ performed'[p] + Cardinality(Running(p)') <= 1 + excuse'[p]
               /\ remembered'[p] = {} /\ InHandler(p)' = {} => performed'[p] <= excuse'[p]
    <3>1. CASE p = o
      BY <1>9, <1>10, <3>1
    <3>2. CASE p # o
      BY <1>1, <1>6, <1>11, <3>2 DEF EffectsAreAccountedFor
    <3> QED
      BY <3>1, <3>2
  <2> QED
    BY <2>1 DEF EffectsAreAccountedFor
<1>13. MemoryIsOfEffects'
  <2>1. \A p \in Operations : remembered'[p] \subseteq effects'[p]
    BY <1>1, <1>6 DEF MemoryIsOfEffects
  <2>2. ASSUME NEW u \in TurnThreads, turn'[u].at = "store"
        PROVE  Call(u)'.payload \in effects'[Operation(u)']
    <3>1. CASE u = t
      BY <1>8, <2>2, <3>1
    <3>2. CASE u # t
      <4>1. Call(u).payload \in effects[Operation(u)] /\ Operation(u)' = Operation(u) /\ Call(u)' = Call(u)
        BY <1>1, <1>7, <2>2, <3>2 DEF MemoryIsOfEffects
      <4>2. Operation(u) \in Operations
        <5>1. turn[u].at = "store" /\ InItsCalls(turn[u])
          BY <1>1, <1>7, <2>2, <3>2 DEF TurnsTell
        <5>2. Len(turn[u].results) < Len(turn[u].calls) /\ Call(u).tool \in Writes
          BY <5>1 DEF InItsCalls, Call
        <5> QED
          BY <1>1, <5>1, <5>2, WritesAreOperations
      <4> QED
        BY <4>1, <4>2 DEF OnlyGrow
    <3> QED
      BY <3>1, <3>2
  <2> QED
    BY <2>1, <2>2 DEF MemoryIsOfEffects
<1> QED
  BY <1>4, <1>5, <1>12, <1>13 DEF TurnInv

(* What holds of a thread that is in a handler or at its store. *)
LEMMA InTheHandler ==
    ASSUME TurnInv, NEW t \in TurnThreads, turn[t].at \in {"handler", "store"}
    PROVE  /\ turn[t] \in TurnRecord /\ InItsCalls(turn[t]) /\ Tells(turn[t], effects, remembered)
           /\ Len(turn[t].results) < Len(turn[t].calls)
           /\ Call(t) \in Calls /\ Call(t).tool \in Writes
           /\ turn[t].calls[Len(turn[t].results) + 1].tool \in Writes
           /\ Operation(t) \in Operations
           /\ Operation(t) = OperationOf(turn[t], Len(turn[t].results) + 1)
<1>1. turn[t] \in TurnRecord /\ InItsCalls(turn[t]) /\ Tells(turn[t], effects, remembered)
  BY DEF TurnInv, TurnTypeOK, TurnsTell
<1>2. Len(turn[t].results) < Len(turn[t].calls) /\ Call(t).tool \in Writes
  BY <1>1 DEF InItsCalls, Call
<1>3. Call(t) \in Calls /\ Operation(t) \in Operations
  BY <1>1, <1>2, WritesAreOperations DEF TurnInv
<1>4. Operation(t) = OperationOf(turn[t], Len(turn[t].results) + 1)
  BY DEF Operation, OperationOf, Call
<1> QED
  BY <1>1, <1>2, <1>3, <1>4 DEF Call

LEMMA HandlerKeepsTurnInv ==
    ASSUME TurnInv, NEW t \in TurnThreads, RunHandler(t)
    PROVE  TurnInv'
<1>1. turn[t].at = "handler" /\ UNCHANGED <<remembered, started>>
  BY DEF RunHandler
<1>2. PICK o \in Operations : o = Operation(t)
  BY <1>1, InTheHandler
<1>3. PICK x \in Payloads : x = Call(t).payload
  BY <1>1, InTheHandler DEF Calls
<1>4. /\ remembered \in [Operations -> SUBSET Payloads] /\ performed \in [Operations -> Nat]
      /\ effects \in [Operations -> SUBSET Payloads] /\ excuse \in [Operations -> Nat]
  BY DEF TurnInv, TurnTypeOK
<1>5. /\ remembered' = [remembered EXCEPT ![o] = remembered[o]]
      /\ remembered[o] \in SUBSET Payloads /\ remembered[o] \subseteq effects[o]
      /\ effects[o] \in SUBSET Payloads /\ effects[o] \cup {x} \in SUBSET Payloads
      /\ performed[o] \in Nat /\ excuse[o] \in Nat
      /\ performed[o] + 1 \in Nat /\ excuse[o] + 1 \in Nat
  BY <1>1, <1>2, <1>3, <1>4 DEF TurnInv, MemoryIsOfEffects
<1>6. /\ Cardinality(Running(o) \ {t}) = Cardinality(Running(o)) - 1
      /\ Cardinality(Running(o) \ {t}) \in Nat /\ Cardinality(Running(o)) \in Nat
      /\ performed[o] + Cardinality(Running(o)) <= 1 + excuse[o]
  <2>1. t \in Running(o)
    BY <1>1, <1>2 DEF Running
  <2>2. Cardinality(Running(o) \ {t}) = Cardinality(Running(o)) - 1 /\ Cardinality(Running(o) \ {t}) \in Nat
    BY <2>1, RunningIsFinite, FS_RemoveElement, FS_CardinalityType
  <2> QED
    BY <1>2, <2>2, RunningIsFinite DEF TurnInv, EffectsAreAccountedFor
<1>7. /\ (performed[o] + 1) + Cardinality(Running(o) \ {t}) <= 1 + excuse[o]
      /\ (performed[o] + 1) + Cardinality(Running(o) \ {t}) <= 1 + (excuse[o] + 1)
      /\ performed[o] + 1 <= excuse[o] + 1
      /\ performed[o] + Cardinality(Running(o) \ {t}) <= 1 + excuse[o]
      /\ performed[o] <= excuse[o]
  BY <1>5, <1>6
<1>8. ASSUME HasEffect(t)
      PROVE  /\ performed' = [performed EXCEPT ![o] = performed[o] + 1]
             /\ effects' = [effects EXCEPT ![o] = effects[o] \cup {x}]
             /\ x \in effects'[o]
  BY <1>2, <1>3, <1>4, <1>8 DEF HasEffect
<1>9. OnlyGrow(effects, effects', remembered, remembered')
  <2>1. CASE HasEffect(t)
    BY <1>1, <1>4, <1>8, <2>1 DEF OnlyGrow
  <2>2. CASE effects' = effects
    BY <1>1, <2>2 DEF OnlyGrow
  <2> QED
    BY <2>1, <2>2 DEF RunHandler
<1>10. CASE HasEffect(t) /\ turn' = [turn EXCEPT ![t].at = "store"] /\ UNCHANGED excuse
  <2>1. turn' = [turn EXCEPT ![t] = WithAt(turn[t], "store")]
    BY <1>10, MoveIsOneTurn DEF TurnInv
  <2>2. /\ WithAt(turn[t], "store") \in TurnRecord /\ WithAt(turn[t], "store").at = "store"
        /\ InItsCalls(WithAt(turn[t], "store")) /\ Tells(WithAt(turn[t], "store"), effects, remembered)
    BY <1>1, InTheHandler, MoveTellsOn
  <2>3. Tells(WithAt(turn[t], "store"), effects', remembered')
    BY <1>9, <2>2, WhatIsToldStays
  <2>4. Operation(t)' = o /\ Call(t)' = Call(t)
    BY <1>2, <2>1 DEF TurnInv, TurnTypeOK, Operation, Call, WithAt
  <2>5. excuse' = [excuse EXCEPT ![o] = excuse[o]]
    BY <1>4, <1>10
  <2>6. /\ performed'[o] = performed[o] + 1 /\ excuse'[o] = excuse[o] /\ remembered'[o] = remembered[o]
        /\ remembered'[o] \subseteq effects'[o] /\ OnlyChanges(o)
    BY <1>1, <1>4, <1>5, <1>8, <1>10 DEF OnlyChanges
  <2>7. performed'[o] + Cardinality(Running(o) \ {t}) <= 1 + excuse'[o]
    BY <1>7, <2>6
  <2> QED
    BY <1>1, <1>2, <1>3, <1>8, <1>9, <1>10, <2>1, <2>2, <2>3, <2>4, <2>6, <2>7, HandlerStep
<1>11. ASSUME Result(t, "failed", {})
       PROVE  \E tr \in TurnRecord : /\ turn' = [turn EXCEPT ![t] = tr] /\ tr.at = "calls"
                                     /\ InItsCalls(tr) /\ Tells(tr, effects', remembered')
  <2> DEFINE res == [status |-> "failed", data |-> {}]
  <2>1. turn' = [turn EXCEPT ![t] = WithResult(turn[t], res)]
    BY <1>11, ResultIsOneTurn DEF TurnInv
  <2>2. res \in Results /\ IsTrueNext(turn[t], res, effects, remembered)
    BY DEF Results, IsTrueNext
  <2>3. ToldTruly(turn[t], effects, remembered)
    BY <1>1, InTheHandler DEF Tells
  <2> HIDE DEF res
  <2>4. /\ WithResult(turn[t], res) \in TurnRecord /\ WithResult(turn[t], res).at = "calls"
        /\ InItsCalls(WithResult(turn[t], res)) /\ Tells(WithResult(turn[t], res), effects, remembered)
    BY <1>1, <2>2, <2>3, InTheHandler, ResultIsAdded
  <2>5. Tells(WithResult(turn[t], res), effects', remembered')
    BY <1>9, <2>4, WhatIsToldStays
  <2> QED
    BY <2>1, <2>4, <2>5
<1>12. CASE HasEffect(t) /\ excuse' = [excuse EXCEPT ![Operation(t)] = @ + 1] /\ Result(t, "failed", {})
  <2>1. excuse' = [excuse EXCEPT ![o] = excuse[o] + 1]
    BY <1>2, <1>4, <1>12
  <2>2. PICK tr \in TurnRecord : /\ turn' = [turn EXCEPT ![t] = tr] /\ tr.at = "calls"
                                /\ InItsCalls(tr) /\ Tells(tr, effects', remembered')
    BY <1>11, <1>12
  <2>3. /\ performed'[o] = performed[o] + 1 /\ excuse'[o] = excuse[o] + 1 /\ remembered'[o] = remembered[o]
        /\ remembered'[o] \subseteq effects'[o] /\ OnlyChanges(o)
    BY <1>1, <1>4, <1>5, <1>8, <1>12, <2>1 DEF OnlyChanges
  <2>4. /\ performed'[o] + Cardinality(Running(o) \ {t}) <= 1 + excuse'[o]
        /\ performed'[o] <= excuse'[o]
    BY <1>7, <2>3
  <2> QED
    BY <1>1, <1>2, <1>9, <2>2, <2>3, <2>4, HandlerStep
<1>13. CASE Result(t, "failed", {}) /\ UNCHANGED <<performed, effects, excuse>>
  <2>1. OnlyChanges(o) /\ remembered'[o] \subseteq effects'[o]
    BY <1>1, <1>4, <1>5, <1>13 DEF OnlyChanges
  <2>2. PICK tr \in TurnRecord : /\ turn' = [turn EXCEPT ![t] = tr] /\ tr.at = "calls"
                                /\ InItsCalls(tr) /\ Tells(tr, effects', remembered')
    BY <1>11, <1>13
  <2> QED
    BY <1>1, <1>2, <1>7, <1>9, <1>13, <2>1, <2>2, HandlerStep
<1> QED
  BY <1>10, <1>12, <1>13 DEF RunHandler

LEMMA StoreKeepsTurnInv ==
    ASSUME TurnInv, NEW t \in TurnThreads, StoreResult(t)
    PROVE  TurnInv'
<1>1. turn[t].at = "store" /\ UNCHANGED <<performed, effects, excuse, started>>
  BY DEF StoreResult
<1>2. PICK o \in Operations : o = Operation(t)
  BY <1>1, InTheHandler
<1>3. PICK x \in Payloads : x = Call(t).payload
  BY <1>1, InTheHandler DEF Calls
<1>4. /\ remembered \in [Operations -> SUBSET Payloads] /\ performed \in [Operations -> Nat]
      /\ effects \in [Operations -> SUBSET Payloads] /\ excuse \in [Operations -> Nat]
  BY DEF TurnInv, TurnTypeOK
<1>5. x \in effects[o]
  BY <1>1, <1>2, <1>3 DEF TurnInv, MemoryIsOfEffects
<1>6. remembered' = [remembered EXCEPT ![o] = {x}] /\ Result(t, "ok", {x})
  BY <1>2, <1>3 DEF StoreResult
<1>7. OnlyGrow(effects, effects', remembered, remembered')
  BY <1>1, <1>4, <1>6 DEF OnlyGrow
<1>8. OnlyChanges(o) /\ remembered'[o] \subseteq effects'[o] /\ remembered'[o] # {}
  BY <1>1, <1>4, <1>5, <1>6 DEF OnlyChanges
<1>9. PICK tr \in TurnRecord : /\ turn' = [turn EXCEPT ![t] = tr] /\ tr.at = "calls"
                              /\ InItsCalls(tr) /\ Tells(tr, effects', remembered')
  <2> DEFINE res == [status |-> "ok", data |-> {x}]
  <2>1. turn' = [turn EXCEPT ![t] = WithResult(turn[t], res)]
    BY <1>6, ResultIsOneTurn DEF TurnInv
  <2>2. IsTrueNext(turn[t], res, effects', remembered')
    <3>1. o = OperationOf(turn[t], Len(turn[t].results) + 1)
      BY <1>1, <1>2, InTheHandler
    <3>2. x \in effects'[o]
      BY <1>1, <1>5
    <3> QED
      BY <1>8, <3>1, <3>2 DEF IsTrueNext
  <2>3. ToldTruly(turn[t], effects', remembered')
    <3>1. Tells(turn[t], effects', remembered')
      BY <1>1, <1>7, InTheHandler, WhatIsToldStays
    <3> QED
      BY <1>1, <3>1 DEF Tells
  <2>4. res \in Results
    BY DEF Results
  <2> HIDE DEF res
  <2>5. /\ WithResult(turn[t], res) \in TurnRecord /\ WithResult(turn[t], res).at = "calls"
        /\ InItsCalls(WithResult(turn[t], res)) /\ Tells(WithResult(turn[t], res), effects', remembered')
    BY <1>1, <2>2, <2>3, <2>4, InTheHandler, ResultIsAdded
  <2> QED
    BY <2>1, <2>5
<1>10. performed'[o] + Cardinality(Running(o) \ {t}) <= 1 + excuse'[o]
  <2>1. Running(o) \ {t} = Running(o)
    BY <1>1 DEF Running
  <2> QED
    BY <1>1, <2>1 DEF TurnInv, EffectsAreAccountedFor
<1> QED
  BY <1>1, <1>2, <1>7, <1>8, <1>9, <1>10, HandlerStep

(* The calls of a turn are all answered: its status is the worst of them.  *)
LEMMA EndKeepsTurnInv ==
    ASSUME TurnInv, NEW t \in TurnThreads, EndTurn(t)
    PROVE  TurnInv'
<1>1. turn[t] \in TurnRecord /\ InItsCalls(turn[t]) /\ Tells(turn[t], effects, remembered)
  BY DEF TurnInv, TurnTypeOK, TurnsTell
<1>2. PICK at \in {"ok", "denied", "failed"} : at = Status(turn[t].results)
  BY DEF Status
<1>3. turn' = [turn EXCEPT ![t] = WithAt(turn[t], at)]
  BY <1>2, MoveIsOneTurn DEF TurnInv, EndTurn
<1>4. /\ turn[t].results \in Seq(Results) /\ Len(turn[t].results) \in Nat /\ Len(turn[t].calls) \in Nat
      /\ \A i \in 1 .. Len(turn[t].results) : turn[t].results[i] \in Results
  BY <1>1 DEF TurnRecord
<1>5. Len(turn[t].results) = Len(turn[t].calls) /\ turn[t].at = "calls"
  BY <1>1, <1>4 DEF EndTurn, Calling, InItsCalls
<1>6. at = "ok" => \A i \in 1 .. Len(turn[t].results) : turn[t].results[i].status = "ok"
  BY <1>2, <1>4 DEF Status, StatusesOf, Results
<1>7. at \in {"denied", "failed"} => \E i \in 1 .. Len(turn[t].results) : turn[t].results[i].status = at
  BY <1>2 DEF Status, StatusesOf
<1>8. /\ WithAt(turn[t], at) \in TurnRecord /\ WithAt(turn[t], at).at = at
      /\ InItsCalls(WithAt(turn[t], at)) /\ Tells(WithAt(turn[t], at), effects, remembered)
  <2>1. WithAt(turn[t], at) \in TurnRecord
    BY <1>1 DEF TurnRecord, WithAt
  <2>2. InItsCalls(WithAt(turn[t], at))
    BY <1>1, <1>5 DEF InItsCalls, WithAt
  <2>3. ToldTruly(WithAt(turn[t], at), effects, remembered)
    BY <1>1, <1>5 DEF Tells, ToldTruly, WithAt, OperationOf
  <2> QED
    BY <1>5, <1>6, <1>7, <2>1, <2>2, <2>3 DEF Tells, WithAt
<1>9. started' \in 0 .. MaxTurns /\ UNCHANGED <<remembered, performed, effects, excuse>>
  BY DEF EndTurn, TurnInv, TurnTypeOK
<1> QED
  BY <1>3, <1>5, <1>8, <1>9, QuietStep

LEMMA AnswerKeepsTurnInv ==
    ASSUME TurnInv, NEW t \in TurnThreads, AnswerTurn(t)
    PROVE  TurnInv'
<1>1. Rest \in TurnRecord /\ InItsCalls(Rest) /\ Tells(Rest, effects, remembered) /\ Rest.at = "idle"
  BY DEF Rest, CallsNothing, TurnRecord, InItsCalls, Tells
<1>2. /\ turn' = [turn EXCEPT ![t] = Rest] /\ turn[t].at \notin {"handler", "store"}
      /\ UNCHANGED <<remembered, performed, effects, excuse>> /\ started' \in 0 .. MaxTurns
  BY DEF AnswerTurn, TurnInv, TurnTypeOK
<1> HIDE DEF Rest
<1> QED
  BY <1>1, <1>2, QuietStep

LEMMA InitIsTurnInv == TurnInit => TurnInv
<1> SUFFICES ASSUME TurnInit PROVE TurnInv
  OBVIOUS
<1>1. Rest \in TurnRecord /\ InItsCalls(Rest) /\ Tells(Rest, effects, remembered) /\ Rest.at = "idle"
  BY DEF Rest, CallsNothing, TurnRecord, InItsCalls, Tells
<1>2. TurnTypeOK
  BY <1>1, BotTurnsAssumption DEF TurnInit, TurnTypeOK
<1>3. TurnsTell /\ MemoryIsOfEffects
  BY <1>1 DEF TurnInit, TurnsTell, MemoryIsOfEffects
<1>4. \A o : Running(o) = {}
  BY <1>1 DEF TurnInit, Running
<1>5. EffectsAreAccountedFor
  BY <1>4, FS_EmptySet DEF TurnInit, EffectsAreAccountedFor
<1> QED
  BY <1>2, <1>3, <1>5 DEF TurnInv

(* Types, the account of effects, what memory holds and what turns tell    *)
(* hold together, in every reachable state.                                *)
THEOREM TurnInvariant == TurnSpec => []TurnInv
<1>1. TurnInv /\ [TurnNext]_turnvars => TurnInv'
  <2> SUFFICES ASSUME TurnInv, [TurnNext]_turnvars PROVE TurnInv'
    OBVIOUS
  <2>1. ASSUME NEW t \in TurnThreads, RunTurn(t)
        PROVE  TurnInv'
    BY <2>1, RefuseKeepsTurnInv, ReadKeepsTurnInv, InvokeKeepsTurnInv, HandlerKeepsTurnInv,
       StoreKeepsTurnInv, EndKeepsTurnInv, AnswerKeepsTurnInv DEF RunTurn
  <2>2. ASSUME NEW t \in TurnThreads, NEW key \in Turns, NEW memories \in SUBSET Memories,
               NEW chat \in Histories, NEW calls \in Answers, StartTurn(t, key, memories, chat, calls)
        PROVE  TurnInv'
    BY <2>2, StartKeepsTurnInv
  <2>3. CASE UNCHANGED turnvars
    <3>1. \A o : Running(o)' = Running(o) /\ InHandler(o)' = InHandler(o)
      BY <2>3 DEF turnvars, Running, InHandler, Operation, Call
    <3>2. EffectsAreAccountedFor'
      BY <2>3, <3>1 DEF turnvars, TurnInv, EffectsAreAccountedFor
    <3>3. TurnTypeOK' /\ MemoryIsOfEffects' /\ TurnsTell'
      BY <2>3 DEF turnvars, TurnInv, TurnTypeOK, MemoryIsOfEffects, TurnsTell, Operation, Call
    <3> QED
      BY <3>2, <3>3 DEF TurnInv
  <2> QED
    BY <2>1, <2>2, <2>3 DEF TurnNext
<1> QED
  BY InitIsTurnInv, <1>1, PTL DEF TurnSpec

(* However often a turn is repeated, each of its operations takes effect   *)
(* once, but for broken handlers and overlapping calls.                    *)
THEOREM EffectsAlwaysHappenOnce == TurnSpec => []EffectsHappenOnce
<1>1. TurnInv => EffectsHappenOnce
  <2> SUFFICES ASSUME TurnInv, NEW o \in Operations PROVE performed[o] <= 1 + excuse[o]
    BY DEF EffectsHappenOnce
  <2>1. performed[o] \in Nat /\ excuse[o] \in Nat /\ Cardinality(Running(o)) \in Nat
    BY RunningIsFinite DEF TurnInv, TurnTypeOK
  <2> QED
    BY <2>1 DEF TurnInv, EffectsAreAccountedFor
<1> QED
  BY TurnInvariant, <1>1, PTL

(* An operation had no more effects than times it took effect. *)
EffectsAreCounted ==
    \A o \in Operations : IsFiniteSet(effects[o]) /\ Cardinality(effects[o]) <= performed[o]

LEMMA StepsKeepEffectsCounted ==
    ASSUME TurnInv, EffectsAreCounted, TurnNext
    PROVE  EffectsAreCounted'
<1>1. CASE UNCHANGED <<performed, effects>>
  BY <1>1 DEF EffectsAreCounted
<1>2. ASSUME NEW t \in TurnThreads, HasEffect(t), turn[t].at = "handler"
      PROVE  EffectsAreCounted'
  <2> DEFINE o == Operation(t)
             x == Call(t).payload
  <2>1. /\ performed \in [Operations -> Nat] /\ effects \in [Operations -> SUBSET Payloads]
        /\ o \in Operations
    BY <1>2, InTheHandler DEF TurnInv, TurnTypeOK
  <2>2. performed'[o] = performed[o] + 1 /\ effects'[o] = effects[o] \cup {x}
    BY <1>2, <2>1 DEF HasEffect
  <2>3. ASSUME NEW p \in Operations, p # o PROVE performed'[p] = performed[p] /\ effects'[p] = effects[p]
    BY <1>2, <2>1, <2>3 DEF HasEffect
  <2> HIDE DEF o, x
  <2>4. IsFiniteSet(effects[o]) /\ Cardinality(effects[o]) <= performed[o] /\ performed[o] \in Nat
    BY <2>1 DEF EffectsAreCounted
  <2>5. /\ IsFiniteSet(effects'[o])
        /\ Cardinality(effects'[o]) = Cardinality(effects[o]) \/ Cardinality(effects'[o]) = Cardinality(effects[o]) + 1
        /\ Cardinality(effects[o]) \in Nat
    BY <2>2, <2>4, FS_AddElement, FS_CardinalityType
  <2>6. Cardinality(effects'[o]) <= performed'[o]
    BY <2>2, <2>4, <2>5
  <2> QED
    BY <2>3, <2>5, <2>6 DEF EffectsAreCounted
<1>3. ASSUME NEW t \in TurnThreads, RunTurn(t)
      PROVE  (UNCHANGED <<performed, effects>>) \/ (HasEffect(t) /\ turn[t].at = "handler")
  BY <1>3 DEF RunTurn, RefuseCall, ReadCall, InvokeWrite, RunHandler, StoreResult, EndTurn, AnswerTurn
<1> QED
  BY <1>1, <1>2, <1>3 DEF TurnNext, StartTurn

(* What a turn that is ok tells of a write is an effect the operation had, *)
(* the only one if nothing broke or overlapped; a turn that is not ok      *)
(* names a call to blame.                                                  *)
THEOREM TurnsAlwaysTellEffects == TurnSpec => []TurnTellsEffects
<1>1. TurnInit => EffectsAreCounted
  BY FS_EmptySet DEF TurnInit, EffectsAreCounted
<1>2. TurnInv /\ EffectsAreCounted /\ [TurnNext]_turnvars => EffectsAreCounted'
  <2>1. EffectsAreCounted /\ UNCHANGED turnvars => EffectsAreCounted'
    BY DEF turnvars, EffectsAreCounted
  <2> QED
    BY <2>1, StepsKeepEffectsCounted
<1>3. TurnInv /\ EffectsAreCounted => TurnTellsEffects
  <2> SUFFICES ASSUME TurnInv, EffectsAreCounted, NEW t \in TurnThreads
               PROVE  /\ turn[t].at = "ok" =>
                            /\ Len(turn[t].results) = Len(turn[t].calls)
                            /\ \A i \in 1 .. Len(turn[t].results) : turn[t].calls[i].tool \in Writes =>
                                  LET o == OperationOf(turn[t], i)
                                  IN  /\ turn[t].results[i].data # {} /\ turn[t].results[i].data \subseteq effects[o]
                                      /\ remembered[o] # {}
                                      /\ excuse[o] = 0 => turn[t].results[i].data = effects[o]
                      /\ turn[t].at \in {"denied", "failed"} /\ turn[t].calls # <<>> =>
                            \E i \in 1 .. Len(turn[t].results) : turn[t].results[i].status = turn[t].at
    BY DEF TurnTellsEffects, OperationOf
  <2>1. turn[t] \in TurnRecord /\ InItsCalls(turn[t]) /\ Tells(turn[t], effects, remembered)
    BY DEF TurnInv, TurnTypeOK, TurnsTell
  <2>2. ASSUME turn[t].at = "ok", NEW i \in 1 .. Len(turn[t].results), turn[t].calls[i].tool \in Writes,
               NEW o, o = OperationOf(turn[t], i)
        PROVE  /\ turn[t].results[i].data # {} /\ turn[t].results[i].data \subseteq effects[o]
               /\ remembered[o] # {}
               /\ excuse[o] = 0 => turn[t].results[i].data = effects[o]
    <3>1. /\ turn[t].results[i].data # {} /\ turn[t].results[i].data \subseteq effects[o]
          /\ remembered[o] # {}
      BY <2>1, <2>2 DEF Tells, ToldTruly
    <3>2. o \in Operations
      <4>1. Len(turn[t].results) \in Nat /\ Len(turn[t].calls) \in Nat
        BY <2>1 DEF TurnRecord
      <4>2. i \in 1 .. MaxToolCalls /\ turn[t].key \in Turns
        BY <2>1, <2>2, <4>1, BotTurnsAssumption DEF InItsCalls
      <4> QED
        BY <2>2, <4>2 DEF Operations, OperationOf
    <3>3. ASSUME excuse[o] = 0 PROVE turn[t].results[i].data = effects[o]
      <4>1. performed[o] <= 1
        <5>1. performed[o] \in Nat /\ Cardinality(Running(o)) \in Nat
          BY <3>2, RunningIsFinite DEF TurnInv, TurnTypeOK
        <5>2. performed[o] + Cardinality(Running(o)) <= 1 + excuse[o]
          BY <3>2 DEF TurnInv, EffectsAreAccountedFor
        <5> QED
          BY <3>3, <5>1, <5>2
      <4>2. IsFiniteSet(effects[o]) /\ Cardinality(effects[o]) <= 1 /\ Cardinality(effects[o]) \in Nat
        <5>1. IsFiniteSet(effects[o]) /\ Cardinality(effects[o]) <= performed[o] /\ performed[o] \in Nat
          BY <3>2 DEF EffectsAreCounted, TurnInv, TurnTypeOK
        <5> QED
          BY <4>1, <5>1, FS_CardinalityType
      <4>3. PICK x \in effects[o] : x \in turn[t].results[i].data
        BY <3>1
      <4>4. effects[o] = {x}
        <5>1. Cardinality(effects[o] \ {x}) = Cardinality(effects[o]) - 1 /\ IsFiniteSet(effects[o] \ {x})
          BY <4>2, <4>3, FS_RemoveElement
        <5>2. Cardinality(effects[o] \ {x}) = 0
          BY <4>2, <5>1, FS_CardinalityType
        <5>3. effects[o] \ {x} = {}
          BY <5>1, <5>2, FS_EmptySet
        <5> QED
          BY <4>3, <5>3
      <4> QED
        BY <3>1, <4>3, <4>4
    <3> QED
      BY <3>1, <3>3
  <2>3. turn[t].at = "ok" => Len(turn[t].results) = Len(turn[t].calls)
    BY <2>1 DEF Tells
  <2>4. turn[t].at \in {"denied", "failed"} /\ turn[t].calls # <<>> =>
           \E i \in 1 .. Len(turn[t].results) : turn[t].results[i].status = turn[t].at
    BY <2>1 DEF Tells
  <2> QED
    BY <2>2, <2>3, <2>4
<1> QED
  BY TurnInvariant, <1>1, <1>2, <1>3, PTL DEF TurnSpec

-----------------------------------------------------------------------------
(* Side by side, every component does what it does alone.                  *)
THEOREM PartsAreTheirSpecs ==
    Spec => DirSpec /\ SessSpec /\ RepSpec /\ IntakeSpec /\ BoxSpec /\ TurnSpec /\ ReadSpec
<1>1. Init => DirInit /\ SessInit /\ RepInit /\ IntakeInit /\ BoxInit /\ TurnInit /\ ReadInit
  BY DEF Init
<1>2. [Next]_svars => /\ [DirNext]_dirvars /\ [SessNext]_sessions /\ [RepNext]_reports
                      /\ [IntakeNext]_intakevars /\ [BoxNext]_boxvars /\ [TurnNext]_turnvars
                      /\ [ReadNext]_tablevars
  <2>1. Next => \/ DirNext \/ UNCHANGED dirvars
    BY DEF Next, Rests
  <2>2. Next => SessNext \/ UNCHANGED sessions
    BY DEF Next, Rests
  <2>3. Next => RepNext \/ UNCHANGED reports
    BY DEF Next, Rests
  <2>4. Next => IntakeNext \/ UNCHANGED intakevars
    BY DEF Next, Rests
  <2>5. Next => BoxNext \/ UNCHANGED boxvars
    BY DEF Next, Rests
  <2>6. Next => TurnNext \/ UNCHANGED turnvars
    BY DEF Next, Rests
  <2>7. Next => ReadNext \/ UNCHANGED tablevars
    BY DEF Next, Rests
  <2>8. UNCHANGED svars => /\ UNCHANGED dirvars /\ UNCHANGED sessions /\ UNCHANGED reports
                           /\ UNCHANGED intakevars /\ UNCHANGED boxvars /\ UNCHANGED turnvars
                           /\ UNCHANGED tablevars
    BY DEF svars
  <2> QED
    BY <2>1, <2>2, <2>3, <2>4, <2>5, <2>6, <2>7, <2>8
<1> QED
  BY <1>1, <1>2, PTL DEF Spec, DirSpec, SessSpec, RepSpec, IntakeSpec, BoxSpec, TurnSpec, ReadSpec

(* The state of every component always has its type. *)
THEOREM ServicesAlwaysTyped == Spec => []ServicesTypeOK
<1>1. DirInv /\ SessInv /\ RepInv /\ IntakeInv /\ BoxInv /\ TurnInv => ServicesTypeOK
  BY DEF DirInv, SessInv, RepInv, IntakeInv, BoxInv, TurnInv, ServicesTypeOK
<1> QED
  BY <1>1, PartsAreTheirSpecs, DirectoryInvariant, SessionTypes, ReportTypes, IntakeTypes, MailboxTypes,
     TurnInvariant, PTL

(* What each component promises alone holds of all of them together.       *)
THEOREM ServicesKeepPromises ==
    Spec => /\ [](OwnersRemain /\ PublishedAsReviewed /\ RetriesGetTheTask /\ HandoffsFormOneChain)
            /\ [](EffectsHappenOnce /\ TurnTellsEffects)
            /\ [](QualityAgreesWithProfile /\ ProfileIsExact /\ AnalysesAgree)
            /\ GenerationTellsDecisions /\ DeadSessionsStayDead /\ VerdictsStand
BY PartsAreTheirSpecs, OwnersAlwaysRemain, AlwaysPublishedAsReviewed, RetriesAlwaysGetTheTask,
   HandoffsAlwaysFormOneChain, EffectsAlwaysHappenOnce, TurnsAlwaysTellEffects,
   RulesAlwaysAgreeWithProfile, ProfileIsAlwaysExact, AnalysesAlwaysAgree,
   GenerationAlwaysTells, SessionsStayDead, VerdictsAlwaysStand, PTL
=============================================================================
