--------------------------- MODULE JobLedgerProofs ---------------------------
(***************************************************************************)
(* For any number of jobs, keys and workers, and any lease: the ledger's   *)
(* columns agree, only the newest lease writes, and the ledger implements  *)
(* the abstract lease.  All three follow from what a step may do to one    *)
(* job.                                                                    *)
(***************************************************************************)
EXTENDS JobLedger, TLAPS

JobRows == [state : JobStates, key : Keys \cup {NONE}, owner : Workers \cup {NONE}, fence : Nat,
            saved : Nat, reason : Reasons \cup {NONE}, result : Nat]
Deadlines == (0 .. Lease) \cup {NONE}
Tasks == [job : Jobs, fence : Nat, at : {"claimed", "handling"}] \cup {NONE}

(* Beside what JobsAgree says: a job that was never admitted has no lease  *)
(* and no key, one that was has both, and no checkpoint is newer than the  *)
(* newest lease.                                                           *)
JobsAreAdmitted ==
    /\ \A j \in Jobs : /\ jobs[j].state = "absent" => jobs[j].fence = 0
                       /\ jobs[j].state # "absent" => jobs[j].key \in Keys
                       /\ jobs[j].saved <= jobs[j].fence
    /\ \A k \in Keys : idempotency[k] # NONE => jobs[idempotency[k]].state # "absent"

JInv == JobsAgree /\ JobsAreAdmitted

(* How the state of a job that was admitted and its fence may change. *)
StateMove(before, after, grants) ==
    \/ before \in Active \cup {"queued"} /\ after = "leased" /\ grants = 1
    \/ before \in Active /\ after \in Active \cup Settled \cup {"queued", "waiting"} /\ grants = 0
    \/ before = "waiting" /\ after = "queued" /\ grants = 0
    \/ before \in Active \cup {"queued", "waiting"} /\ after = "cancelled" /\ grants = 0

(* One job becomes job, with the given deadline; nothing of the others. *)
Changes(j, job, deadline) ==
    /\ job \in JobRows /\ deadline \in Deadlines
    /\ jobs' = [jobs EXCEPT ![j] = job] /\ ttl' = [ttl EXCEPT ![j] = deadline]
    /\ task' \in [Workers -> Tasks] /\ UNCHANGED <<order, idempotency>>
    /\ job.key = jobs[j].key
    /\ job.owner # NONE <=> job.state \in Active
    /\ deadline # NONE <=> job.state \in Active
    /\ job.state = "waiting" => job.reason # NONE
    /\ job.saved = jobs[j].saved \/ job.saved = jobs[j].fence
    /\ job.result = jobs[j].result \/ job.result = jobs[j].fence
    /\ \E grants \in {0, 1} : /\ StateMove(jobs[j].state, job.state, grants)
                              /\ job.fence = jobs[j].fence + grants

-----------------------------------------------------------------------------
LEMMA RowTypes ==
    ASSUME JInv, NEW j \in Jobs
    PROVE  /\ jobs[j] \in JobRows /\ ttl[j] \in Deadlines
           /\ jobs[j].state \in JobStates /\ jobs[j].fence \in Nat /\ jobs[j].saved \in Nat
           /\ jobs[j].result \in Nat
BY DEF JInv, JobsAgree, JTypeOK, JobRows, Deadlines

LEMMA StatesAreStates ==
    /\ {"queued", "waiting", "leased", "running", "cancelled"} \subseteq JobStates
    /\ Settled \subseteq JobStates
BY DEF JobStates, Active, Settled, Terminal

LEMMA NoneIsNothing ==
    /\ \A w \in Workers : w # NONE
    /\ \A r \in Reasons : r # NONE
    /\ \A n \in Nat : n # NONE
    /\ \A j \in Jobs : j # NONE
    /\ Lease \in Nat /\ Lease # NONE
BY JobAssumption

(* What a worker's step knows of its job. *)
LEMMA TaskTypes ==
    ASSUME JInv, NEW w \in Workers, task[w] # NONE
    PROVE  task[w].job \in Jobs /\ task[w].fence \in Nat
BY DEF JInv, JobsAgree, JTypeOK

LEMMA HandlingKnows ==
    ASSUME JInv, NEW w \in Workers, Handling(w)
    PROVE  /\ task[w].job \in Jobs
           /\ jobs[task[w].job].state \in Active
           /\ jobs[task[w].job].fence = task[w].fence
           /\ jobs[task[w].job].owner = w
BY TaskTypes DEF Handling, Guard

-----------------------------------------------------------------------------
(* Each operation of the ledger changes one job so. *)
LEMMA ClaimChanges ==
    ASSUME JInv, NEW w \in Workers, NEW j \in Jobs, Claim(w, j)
    PROVE  \E job, deadline : Changes(j, job, deadline)
<1> DEFINE job == [jobs[j] EXCEPT !.state = "leased", !.owner = w, !.fence = jobs[j].fence + 1, !.reason = NONE]
<1>1. jobs[j] \in JobRows /\ jobs[j].fence \in Nat
  BY RowTypes
<1>2. jobs[j].state \in Active \cup {"queued"}
  BY DEF Claim, Oldest, Claimable
<1>3. /\ job.state = "leased" /\ job.owner = w /\ job.fence = jobs[j].fence + 1
      /\ job.key = jobs[j].key /\ job.saved = jobs[j].saved /\ job.result = jobs[j].result
  BY <1>1 DEF JobRows
<1>4. job \in JobRows
  <2>1. "leased" \in JobStates /\ jobs[j].fence + 1 \in Nat
    BY <1>1, StatesAreStates
  <2> QED
    BY <1>1, <2>1 DEF JobRows
<1>5. jobs' = [jobs EXCEPT ![j] = job]
  BY DEF Claim
<1>6. task' \in [Workers -> Tasks]
  BY <1>1 DEF Claim, JInv, JobsAgree, JTypeOK, Tasks
<1>7. StateMove(jobs[j].state, job.state, 1)
  BY <1>2, <1>3 DEF StateMove
<1>8. job.state \in Active /\ job.state # "waiting"
  BY <1>3 DEF Active
<1>9. ttl' = [ttl EXCEPT ![j] = Lease] /\ UNCHANGED <<order, idempotency>>
  BY DEF Claim
<1>10. Lease \in Deadlines /\ Lease # NONE /\ w # NONE
  BY NoneIsNothing DEF Deadlines
<1> HIDE DEF job
<1> QED
  BY <1>3, <1>4, <1>5, <1>6, <1>7, <1>8, <1>9, <1>10 DEF Changes

LEMMA StartChanges ==
    ASSUME JInv, NEW w \in Workers, Start(w)
    PROVE  \E j \in Jobs : \E job, deadline : Changes(j, job, deadline)
<1> DEFINE j == task[w].job
           job == [jobs[j] EXCEPT !.state = "running"]
<1>1. j \in Jobs
  BY TaskTypes DEF Start
<1>2. jobs[j] \in JobRows /\ ttl[j] \in Deadlines /\ jobs[j].fence \in Nat
  BY <1>1, RowTypes
<1>3. jobs[j].state = "leased" /\ jobs[j].owner # NONE /\ ttl[j] # NONE
  BY <1>1 DEF Start, JInv, JobsAgree, JobLeaseColumnsAgree, Active
<1>4. /\ job \in JobRows /\ job.state = "running" /\ job.owner = jobs[j].owner /\ job.fence = jobs[j].fence
      /\ job.key = jobs[j].key /\ job.saved = jobs[j].saved /\ job.result = jobs[j].result
  BY <1>2 DEF JobRows, JobStates, Active
<1>5. jobs' = [jobs EXCEPT ![j] = job] /\ ttl' = [ttl EXCEPT ![j] = ttl[j]]
  BY <1>1 DEF Start, JInv, JobsAgree, JTypeOK
<1>6. task' \in [Workers -> Tasks]
  BY DEF Start, JInv, JobsAgree, JTypeOK, Tasks
<1>7. StateMove(jobs[j].state, job.state, 0) /\ job.state \in Active /\ job.state # "waiting"
  BY <1>3, <1>4 DEF StateMove, Active
<1>8. job.fence = jobs[j].fence + 0
  BY <1>2, <1>4
<1>9. UNCHANGED <<order, idempotency>>
  BY DEF Start
<1> HIDE DEF job, j
<1> QED
  BY <1>1, <1>2, <1>3, <1>4, <1>5, <1>6, <1>7, <1>8, <1>9 DEF Changes

LEMMA HeartbeatChanges ==
    ASSUME JInv, NEW w \in Workers, Heartbeat(w)
    PROVE  \E j \in Jobs : \E job, deadline : Changes(j, job, deadline)
<1> DEFINE j == task[w].job
<1>1. j \in Jobs /\ jobs[j].state \in Active
  BY HandlingKnows DEF Heartbeat
<1>2. jobs[j] \in JobRows /\ jobs[j].fence = jobs[j].fence + 0
  BY <1>1, RowTypes
<1>3. jobs[j].owner # NONE /\ jobs[j].state # "waiting"
  BY <1>1 DEF JInv, JobsAgree, JobLeaseColumnsAgree, Active
<1>4. jobs' = [jobs EXCEPT ![j] = jobs[j]] /\ ttl' = [ttl EXCEPT ![j] = Lease]
  BY <1>1 DEF Heartbeat, JInv, JobsAgree, JTypeOK
<1>5. Lease \in Deadlines /\ Lease # NONE
  BY NoneIsNothing DEF Deadlines
<1>6. task' \in [Workers -> Tasks] /\ UNCHANGED <<order, idempotency>>
  BY DEF Heartbeat, JInv, JobsAgree, JTypeOK, Tasks
<1>7. StateMove(jobs[j].state, jobs[j].state, 0)
  BY <1>1 DEF StateMove
<1> HIDE DEF j
<1> QED
  BY <1>1, <1>2, <1>3, <1>4, <1>5, <1>6, <1>7 DEF Changes

LEMMA CheckpointChanges ==
    ASSUME JInv, NEW w \in Workers, Checkpoint(w)
    PROVE  \E j \in Jobs : \E job, deadline : Changes(j, job, deadline)
<1> DEFINE j == task[w].job
           job == [jobs[j] EXCEPT !.saved = task[w].fence]
<1>1. j \in Jobs /\ jobs[j].state \in Active /\ task[w].fence = jobs[j].fence
  BY HandlingKnows DEF Checkpoint
<1>2. jobs[j] \in JobRows /\ ttl[j] \in Deadlines /\ jobs[j].fence \in Nat
  BY <1>1, RowTypes
<1>3. jobs[j].owner # NONE /\ ttl[j] # NONE
  BY <1>1 DEF JInv, JobsAgree, JobLeaseColumnsAgree
<1>4. /\ job \in JobRows /\ job.state = jobs[j].state /\ job.owner = jobs[j].owner
      /\ job.fence = jobs[j].fence /\ job.key = jobs[j].key
      /\ job.saved = jobs[j].fence /\ job.result = jobs[j].result
  BY <1>1, <1>2 DEF JobRows
<1>5. jobs' = [jobs EXCEPT ![j] = job] /\ ttl' = [ttl EXCEPT ![j] = ttl[j]]
  BY <1>1 DEF Checkpoint, JInv, JobsAgree, JTypeOK
<1>6. task' \in [Workers -> Tasks] /\ UNCHANGED <<order, idempotency>>
  BY DEF Checkpoint, JInv, JobsAgree, JTypeOK, Tasks
<1>7. StateMove(jobs[j].state, job.state, 0) /\ job.state \in Active /\ job.state # "waiting"
  BY <1>1, <1>4 DEF StateMove, Active
<1>8. job.fence = jobs[j].fence + 0
  BY <1>2, <1>4
<1> HIDE DEF job, j
<1> QED
  BY <1>1, <1>2, <1>3, <1>4, <1>5, <1>6, <1>7, <1>8 DEF Changes

(* wait, complete and fail. *)
LEMMA ReleaseChanges ==
    ASSUME JInv, NEW w \in Workers, NEW state \in Settled \cup {"queued", "waiting"},
           NEW reason \in Reasons \cup {NONE}, state = "waiting" => reason # NONE,
           NEW result \in {0, task[w].fence}, Release(w, state, reason, result)
    PROVE  \E j \in Jobs : \E job, deadline : Changes(j, job, deadline)
<1> DEFINE j == task[w].job
           kept == IF result = 0 THEN jobs[j].result ELSE result
           job == [jobs[j] EXCEPT !.state = state, !.owner = NONE, !.reason = reason, !.result = kept]
<1>1. j \in Jobs /\ jobs[j].state \in Active /\ task[w].fence = jobs[j].fence
  BY HandlingKnows DEF Release
<1>2. jobs[j] \in JobRows /\ jobs[j].fence \in Nat /\ jobs[j].result \in Nat
  BY <1>1, RowTypes
<1>3. kept \in Nat /\ (kept = jobs[j].result \/ kept = jobs[j].fence)
  BY <1>1, <1>2
<1>4. jobs' = [jobs EXCEPT ![j] = job] /\ ttl' = [ttl EXCEPT ![j] = NONE]
  BY DEF Release
<1>5. task' \in [Workers -> Tasks] /\ UNCHANGED <<order, idempotency>>
  BY DEF Release, JInv, JobsAgree, JTypeOK, Tasks
<1> HIDE DEF kept
<1>6. /\ job.state = state /\ job.owner = NONE /\ job.fence = jobs[j].fence + 0
      /\ job.key = jobs[j].key /\ job.saved = jobs[j].saved /\ job.result = kept /\ job.reason = reason
  BY <1>2, <1>3 DEF JobRows
<1>7. job \in JobRows
  BY <1>2, <1>3, StatesAreStates DEF JobRows
<1>8. StateMove(jobs[j].state, job.state, 0) /\ job.state \notin Active
  BY <1>1, <1>6 DEF StateMove, Active, Settled
<1> HIDE DEF job, j
<1> QED
  BY <1>1, <1>3, <1>4, <1>5, <1>6, <1>7, <1>8 DEF Changes, Deadlines

LEMMA ResumeChanges ==
    ASSUME JInv, NEW j \in Jobs, Resume(j)
    PROVE  \E job, deadline : Changes(j, job, deadline)
<1> DEFINE job == [jobs[j] EXCEPT !.state = "queued", !.owner = NONE, !.reason = NONE]
<1>1. jobs[j] \in JobRows /\ jobs[j].fence \in Nat
  BY RowTypes
<1>2. /\ job.state = "queued" /\ job.owner = NONE /\ job.fence = jobs[j].fence + 0
      /\ job.key = jobs[j].key /\ job.saved = jobs[j].saved /\ job.result = jobs[j].result
  BY <1>1 DEF JobRows
<1>3. job \in JobRows
  BY <1>1, StatesAreStates DEF JobRows
<1>4. jobs' = [jobs EXCEPT ![j] = job] /\ ttl' = [ttl EXCEPT ![j] = NONE]
  BY DEF Resume
<1>5. task' \in [Workers -> Tasks] /\ UNCHANGED <<order, idempotency>>
  BY DEF Resume, JInv, JobsAgree, JTypeOK, Tasks
<1>6. StateMove(jobs[j].state, job.state, 0) /\ job.state \notin Active /\ job.state # "waiting"
  BY <1>2 DEF Resume, StateMove, Active
<1> HIDE DEF job
<1> QED
  BY <1>2, <1>3, <1>4, <1>5, <1>6 DEF Changes, Deadlines

LEMMA CancelChanges ==
    ASSUME JInv, NEW j \in Jobs, Cancel(j)
    PROVE  \E job, deadline : Changes(j, job, deadline)
<1> DEFINE job == [jobs[j] EXCEPT !.state = "cancelled", !.owner = NONE]
<1>1. jobs[j] \in JobRows /\ jobs[j].fence \in Nat /\ jobs[j].state \in JobStates
  BY RowTypes
<1>2. /\ job.state = "cancelled" /\ job.owner = NONE /\ job.fence = jobs[j].fence + 0
      /\ job.key = jobs[j].key /\ job.saved = jobs[j].saved /\ job.result = jobs[j].result
  BY <1>1 DEF JobRows
<1>3. job \in JobRows
  BY <1>1, StatesAreStates DEF JobRows
<1>4. jobs' = [jobs EXCEPT ![j] = job] /\ ttl' = [ttl EXCEPT ![j] = NONE]
  BY DEF Cancel
<1>5. task' \in [Workers -> Tasks] /\ UNCHANGED <<order, idempotency>>
  BY DEF Cancel, JInv, JobsAgree, JTypeOK, Tasks
<1>6. jobs[j].state \in Active \cup {"queued", "waiting"}
  BY <1>1 DEF Cancel, JobStates
<1>7. StateMove(jobs[j].state, job.state, 0) /\ job.state \notin Active /\ job.state # "waiting"
  BY <1>2, <1>6 DEF StateMove, Active
<1> HIDE DEF job
<1> QED
  BY <1>2, <1>3, <1>4, <1>5, <1>7 DEF Changes, Deadlines

(* Time, and a worker that gives up, change no job. *)
Passes == /\ UNCHANGED <<jobs, order, idempotency>>
          /\ task' \in [Workers -> Tasks]
          /\ ttl' \in [Jobs -> Deadlines]
          /\ \A j \in Jobs : ttl'[j] = NONE <=> ttl[j] = NONE

LEMMA StepsOfTheLedger ==
    ASSUME JInv, [Next]_jvars
    PROVE  \/ \E j \in Jobs, k \in Keys : Enqueue(j, k)
           \/ \E j \in Jobs : \E job, deadline : Changes(j, job, deadline)
           \/ Passes
<1>1. ASSUME NEW w \in Workers, RunOnce(w)
      PROVE  (\E j \in Jobs : \E job, deadline : Changes(j, job, deadline)) \/ Passes
  <2>1. CASE \E reason \in Reasons : Wait(w, reason)
    BY <2>1, ReleaseChanges, NoneIsNothing DEF Wait
  <2>2. CASE Complete(w)
    BY <2>2, ReleaseChanges DEF Complete, Settled
  <2>3. ASSUME NEW retryable \in BOOLEAN, Fail(w, retryable)
        PROVE  \E j \in Jobs : \E job, deadline : Changes(j, job, deadline)
    <3>1. CASE retryable
      BY <2>3, <3>1, ReleaseChanges DEF Fail
    <3>2. CASE ~retryable
      BY <2>3, <3>2, ReleaseChanges DEF Fail, Settled
    <3> QED
      BY <3>1, <3>2
  <2>4. CASE Abandon(w)
    BY <2>4 DEF Abandon, Passes, JInv, JobsAgree, JTypeOK, Tasks, Deadlines
  <2> QED
    BY <1>1, <2>1, <2>2, <2>3, <2>4, ClaimChanges, StartChanges, HeartbeatChanges, CheckpointChanges
       DEF RunOnce
<1>2. CASE Tick
  <2>1. \A j \in Jobs : ttl[j] \in Deadlines /\ ttl'[j] = IF ttl[j] \in 1 .. Lease THEN ttl[j] - 1 ELSE ttl[j]
    BY <1>2, RowTypes DEF Tick
  <2>2. \A j \in Jobs : ttl'[j] \in Deadlines /\ (ttl'[j] = NONE <=> ttl[j] = NONE)
    BY <2>1, NoneIsNothing DEF Deadlines
  <2> QED
    BY <1>2, <2>2 DEF Tick, Passes, JInv, JobsAgree, JTypeOK, Tasks
<1>3. CASE UNCHANGED jvars
  BY <1>3 DEF jvars, Passes, JInv, JobsAgree, JTypeOK, Tasks, Deadlines
<1> QED
  BY <1>1, <1>2, <1>3, ResumeChanges, CancelChanges DEF Next

-----------------------------------------------------------------------------
LEMMA EnqueueKeepsJInv ==
    ASSUME JInv, NEW j \in Jobs, NEW k \in Keys, Enqueue(j, k)
    PROVE  JInv'
<1> DEFINE job == [Absent EXCEPT !.state = "queued", !.key = k]
<1>1. /\ job \in JobRows /\ job.state = "queued" /\ job.key = k /\ job.owner = NONE
      /\ job.fence = 0 /\ job.saved = 0
  BY DEF JobRows, Absent, JobStates
<1>2. /\ jobs' = [jobs EXCEPT ![j] = job] /\ idempotency' = [idempotency EXCEPT ![k] = j]
      /\ order' = Append(order, j) /\ UNCHANGED <<ttl, task>>
      /\ jobs[j].state = "absent" /\ idempotency[k] = NONE
  BY DEF Enqueue, Admit
<1> HIDE DEF job
<1>3. JTypeOK'
  BY <1>1, <1>2 DEF JInv, JobsAgree, JTypeOK, JobRows
<1>4. /\ \A i \in Jobs : jobs'[i] = IF i = j THEN job ELSE jobs[i]
      /\ \A l \in Keys : idempotency'[l] = IF l = k THEN j ELSE idempotency[l]
  BY <1>2 DEF JInv, JobsAgree, JTypeOK
<1>5. JobLeaseColumnsAgree'
  BY <1>1, <1>2, <1>4 DEF JInv, JobsAgree, JobLeaseColumnsAgree, Active
<1>6. OneJobPerKey'
  <2>1. \A i \in Jobs \ {j} : jobs[i].state # "absent" => jobs[i].key \in Keys /\ jobs[i].key # k
    BY <1>2, NoneIsNothing DEF JInv, JobsAgree, OneJobPerKey, JobsAreAdmitted
  <2>2. \A l \in Keys : idempotency[l] # j
    BY <1>2, NoneIsNothing DEF JInv, JobsAreAdmitted
  <2>3. \A l \in Keys : idempotency[l] \in Jobs \cup {NONE}
    BY DEF JInv, JobsAgree, JTypeOK
  <2>4. \A i \in Jobs : jobs'[i].state # "absent" => idempotency'[jobs'[i].key] = i
    BY <1>1, <1>4, <2>1 DEF JInv, JobsAgree, OneJobPerKey
  <2>5. \A l \in Keys : idempotency'[l] # NONE => jobs'[idempotency'[l]].key = l
    BY <1>1, <1>4, <2>2, <2>3 DEF JInv, JobsAgree, OneJobPerKey
  <2> QED
    BY <2>4, <2>5 DEF OneJobPerKey
<1>7. JobsAreAdmitted'
  <2>1. \A l \in Keys : idempotency[l] \in Jobs \cup {NONE}
    BY DEF JInv, JobsAgree, JTypeOK
  <2> QED
    BY <1>1, <1>4, <2>1 DEF JInv, JobsAreAdmitted
<1> QED
  BY <1>3, <1>5, <1>6, <1>7 DEF JInv, JobsAgree

LEMMA ChangesKeepJInv ==
    ASSUME JInv, NEW j \in Jobs, NEW job, NEW deadline, Changes(j, job, deadline)
    PROVE  JInv'
<1>1. /\ \A i \in Jobs : jobs'[i] = IF i = j THEN job ELSE jobs[i]
      /\ \A i \in Jobs : ttl'[i] = IF i = j THEN deadline ELSE ttl[i]
  BY DEF Changes, JInv, JobsAgree, JTypeOK
<1>2. jobs[j].state # "absent" /\ job.state # "absent"
  BY DEF Changes, StateMove, Active, Settled
<1>3. JTypeOK'
  BY DEF Changes, JInv, JobsAgree, JTypeOK, JobRows, Deadlines, Tasks
<1>4. JobLeaseColumnsAgree'
  BY <1>1 DEF Changes, JInv, JobsAgree, JobLeaseColumnsAgree
<1>5. \A l \in Keys : idempotency[l] \in Jobs \cup {NONE}
  BY DEF JInv, JobsAgree, JTypeOK
<1>6. OneJobPerKey'
  BY <1>1, <1>2, <1>5 DEF Changes, JInv, JobsAgree, OneJobPerKey
<1>7. job.saved <= job.fence
  BY RowTypes DEF Changes, JInv, JobsAreAdmitted
<1>8. JobsAreAdmitted'
  BY <1>1, <1>2, <1>5, <1>7 DEF Changes, JInv, JobsAreAdmitted
<1> QED
  BY <1>3, <1>4, <1>6, <1>8 DEF JInv, JobsAgree

LEMMA PassesKeepsJInv ==
    ASSUME JInv, Passes
    PROVE  JInv'
<1>1. JTypeOK'
  BY DEF Passes, JInv, JobsAgree, JTypeOK, Deadlines, Tasks
<1>2. JobLeaseColumnsAgree' /\ OneJobPerKey' /\ JobsAreAdmitted'
  BY DEF Passes, JInv, JobsAgree, JobLeaseColumnsAgree, OneJobPerKey, JobsAreAdmitted
<1> QED
  BY <1>1, <1>2 DEF JInv, JobsAgree

(* The inductive invariant of the ledger. *)
THEOREM LedgerInvariant == JSpec => []JInv
<1>1. Init => JInv
  <2> SUFFICES ASSUME Init PROVE JInv
    OBVIOUS
  <2>1. Absent \in JobRows /\ Absent.state = "absent" /\ Absent.owner = NONE /\ Absent.fence = 0 /\ Absent.saved = 0
    BY DEF Absent, JobRows, JobStates
  <2>2. \A j \in Jobs : jobs[j] = Absent /\ ttl[j] = NONE
    BY DEF Init
  <2>3. JTypeOK
    BY <2>1 DEF Init, JTypeOK, JobRows
  <2> QED
    BY <2>1, <2>2, <2>3 DEF Init, JInv, JobsAgree, JobLeaseColumnsAgree, OneJobPerKey, JobsAreAdmitted, Active
<1>2. JInv /\ [Next]_jvars => JInv'
  BY StepsOfTheLedger, EnqueueKeepsJInv, ChangesKeepJInv, PassesKeepsJInv
<1> QED
  BY <1>1, <1>2, PTL DEF JSpec

(* Owners, deadlines, wait reasons and keys of jobs agree, whoever works   *)
(* on them, cancels them or enqueues them again.  jobs/ledger.py:246, 70.  *)
THEOREM JobsAlwaysAgree == JSpec => []JobsAgree
<1>1. JInv => JobsAgree
  BY DEF JInv
<1> QED
  BY <1>1, LedgerInvariant, PTL

(* What NewestLeaseWrites says of one step. *)
NewestWrites ==
    \A j \in Jobs : /\ jobs'[j].saved >= jobs[j].saved
                    /\ jobs'[j].saved # jobs[j].saved => jobs'[j].saved = jobs[j].fence
                    /\ jobs'[j].result # jobs[j].result => jobs'[j].result = jobs[j].fence

LEMMA StepsAreOfTheNewest ==
    ASSUME JInv, [Next]_jvars
    PROVE  NewestWrites
<1>1. \A j \in Jobs : jobs[j].saved \in Nat /\ jobs[j].fence \in Nat /\ jobs[j].saved <= jobs[j].fence
  BY RowTypes DEF JInv, JobsAreAdmitted
<1>2. ASSUME NEW j \in Jobs, NEW k \in Keys, Enqueue(j, k) PROVE NewestWrites
  <2>1. jobs[j].saved = 0
    BY <1>1, <1>2 DEF Enqueue, Admit, JInv, JobsAreAdmitted
  <2>2. jobs[j].fence = 0
    BY <1>2 DEF Enqueue, Admit, JInv, JobsAreAdmitted
  <2>3. \A i \in Jobs : IF i = j THEN jobs'[i].saved = 0 /\ jobs'[i].result = 0 ELSE jobs'[i] = jobs[i]
    BY <1>2 DEF Enqueue, Admit, Absent, JInv, JobsAgree, JTypeOK
  <2> QED
    BY <1>1, <2>1, <2>2, <2>3 DEF NewestWrites
<1>3. ASSUME NEW j \in Jobs, NEW job, NEW deadline, Changes(j, job, deadline) PROVE NewestWrites
  <2>1. \A i \in Jobs : jobs'[i] = IF i = j THEN job ELSE jobs[i]
    BY <1>3 DEF Changes, JInv, JobsAgree, JTypeOK
  <2> QED
    BY <1>1, <1>3, <2>1 DEF Changes, NewestWrites
<1>4. CASE Passes
  BY <1>1, <1>4 DEF Passes, NewestWrites
<1> QED
  BY <1>2, <1>3, <1>4, StepsOfTheLedger

(* A handler whose lease was taken over leaves no trace.                   *)
(* jobs/ledger.py:115.                                                     *)
THEOREM OnlyTheNewestLeaseWrites == JSpec => NewestLeaseWrites
<1>1. NewestLeaseWrites <=> [][NewestWrites]_jvars
  BY DEF NewestLeaseWrites, NewestWrites
<1>2. JInv /\ [Next]_jvars => NewestWrites
  BY StepsAreOfTheNewest
<1>3. [][NewestWrites]_jvars => NewestLeaseWrites
  BY <1>1
<1> HIDE DEF NewestWrites
<1> QED
  BY <1>2, <1>3, LedgerInvariant, PTL DEF JSpec
-----------------------------------------------------------------------------
LEMMA Phases ==
    /\ PhaseOf("absent") = "absent" /\ PhaseOf("queued") = "idle"
    /\ PhaseOf("waiting") = "parked" /\ PhaseOf("cancelled") = "cancelled"
    /\ \A state \in Active : PhaseOf(state) = "held" /\ state \notin Settled
    /\ \A state \in Settled : PhaseOf(state) = "settled"
    /\ {"absent", "queued", "waiting", "cancelled"} \cap Settled = {}
BY DEF PhaseOf, Active, Settled

(* Functions that differ at one job differ by an EXCEPT. *)
LEMMA OneJobDiffers ==
    ASSUME NEW f, NEW g, NEW j \in Jobs, NEW v,
           f = [i \in Jobs |-> f[i]], g = [i \in Jobs |-> g[i]],
           g[j] = v, \A i \in Jobs : i # j => g[i] = f[i]
    PROVE  g = [f EXCEPT ![j] = v]
OBVIOUS

LEMMA NothingDiffers ==
    ASSUME NEW f, NEW j \in Jobs, f = [i \in Jobs |-> f[i]]
    PROVE  [f EXCEPT ![j] = f[j]] = f
BY OneJobDiffers

(* A row that is replaced moves the abstraction of its job alone. *)
LEMMA RowMovesAbstraction ==
    ASSUME JInv, NEW j \in Jobs, NEW job, jobs' = [jobs EXCEPT ![j] = job]
    PROVE  /\ AbstractPhase' = [AbstractPhase EXCEPT ![j] = PhaseOf(job.state)]
           /\ AbstractToken' = [AbstractToken EXCEPT ![j] = job.fence]
           /\ AbstractSettledBy' = [AbstractSettledBy EXCEPT ![j] = Settler(job)]
<1>1. jobs'[j] = job /\ \A i \in Jobs : i # j => jobs'[i] = jobs[i]
  BY DEF JInv, JobsAgree, JTypeOK
<1>2. PhaseOf(jobs[j].state)' = PhaseOf(job.state) /\ Settler(jobs[j])' = Settler(job)
  BY <1>1 DEF PhaseOf, Settler
<1>3. \A i \in Jobs : i # j => /\ PhaseOf(jobs[i].state)' = PhaseOf(jobs[i].state)
                              /\ Settler(jobs[i])' = Settler(jobs[i])
  BY <1>1 DEF PhaseOf, Settler
<1>4. AbstractPhase' = [AbstractPhase EXCEPT ![j] = PhaseOf(job.state)]
  BY <1>2, <1>3, OneJobDiffers DEF AbstractPhase
<1>5. AbstractToken' = [AbstractToken EXCEPT ![j] = job.fence]
  <2> DEFINE before == AbstractToken
             after == [i \in Jobs |-> jobs'[i].fence]
             fence == job.fence
  <2>1. before = [i \in Jobs |-> before[i]] /\ after = [i \in Jobs |-> after[i]]
    BY DEF AbstractToken
  <2>2. after[j] = fence /\ \A i \in Jobs : i # j => after[i] = before[i]
    BY <1>1 DEF AbstractToken
  <2>3. AbstractToken' = after
    BY DEF AbstractToken
  <2> HIDE DEF before, after, fence
  <2>4. after = [before EXCEPT ![j] = fence]
    BY <2>1, <2>2, OneJobDiffers
  <2> QED
    BY <2>3, <2>4 DEF before, fence
<1>6. AbstractSettledBy' = [AbstractSettledBy EXCEPT ![j] = Settler(job)]
  BY <1>2, <1>3, OneJobDiffers DEF AbstractSettledBy
<1> QED
  BY <1>4, <1>5, <1>6

LEMMA EnqueueOpens ==
    ASSUME JInv, NEW j \in Jobs, NEW k \in Keys, Enqueue(j, k)
    PROVE  Fencing!Open(j)
<1> DEFINE job == [Absent EXCEPT !.state = "queued", !.key = k]
<1>1. jobs' = [jobs EXCEPT ![j] = job] /\ jobs[j].state = "absent" /\ jobs[j].fence = 0
  BY DEF Enqueue, Admit, JInv, JobsAreAdmitted
<1>2. job.state = "queued" /\ job.fence = 0
  BY DEF Absent
<1>3. Settler(job) = 0 /\ Settler(jobs[j]) = 0
  BY <1>1, <1>2, Phases DEF Settler
<1> HIDE DEF job
<1>4. /\ AbstractPhase' = [AbstractPhase EXCEPT ![j] = PhaseOf(job.state)]
      /\ AbstractToken' = [AbstractToken EXCEPT ![j] = job.fence]
      /\ AbstractSettledBy' = [AbstractSettledBy EXCEPT ![j] = Settler(job)]
  BY <1>1, RowMovesAbstraction
<1>5. AbstractPhase' = [AbstractPhase EXCEPT ![j] = "idle"] /\ AbstractPhase[j] = "absent"
  BY <1>1, <1>2, <1>4, Phases DEF AbstractPhase
<1>6. AbstractToken' = AbstractToken /\ AbstractSettledBy' = AbstractSettledBy
  BY <1>1, <1>2, <1>3, <1>4 DEF AbstractToken, AbstractSettledBy
<1> QED
  BY <1>5, <1>6 DEF Fencing!Open, Fencing!Move

LEMMA ChangeIsAbstractStep ==
    ASSUME JInv, NEW j \in Jobs, NEW job, NEW deadline, Changes(j, job, deadline)
    PROVE  Fencing!FNext \/ UNCHANGED Fencing!fvars
<1> DEFINE before == jobs[j].state
           after == job.state
<1>1. PICK grants \in {0, 1} : StateMove(before, after, grants) /\ job.fence = jobs[j].fence + grants
  BY DEF Changes
<1>2. /\ jobs[j].fence \in Nat
      /\ AbstractPhase[j] = PhaseOf(before) /\ AbstractToken[j] = jobs[j].fence
      /\ AbstractSettledBy[j] = Settler(jobs[j])
  BY RowTypes DEF AbstractPhase, AbstractToken, AbstractSettledBy
<1>3. /\ AbstractPhase' = [AbstractPhase EXCEPT ![j] = PhaseOf(after)]
      /\ AbstractToken' = [AbstractToken EXCEPT ![j] = job.fence]
      /\ AbstractSettledBy' = [AbstractSettledBy EXCEPT ![j] = Settler(job)]
  BY RowMovesAbstraction DEF Changes
<1>4. grants = 0 => AbstractToken' = AbstractToken
  <2> SUFFICES ASSUME grants = 0 PROVE AbstractToken' = AbstractToken
    OBVIOUS
  <2>1. AbstractToken = [i \in Jobs |-> AbstractToken[i]]
    BY DEF AbstractToken
  <2>2. job.fence = AbstractToken[j]
    BY <1>1, <1>2
  <2> QED
    BY <1>3, <2>1, <2>2, NothingDiffers
<1>5. before \notin Settled
  BY <1>1 DEF StateMove, Active, Settled
<1>6. after \notin Settled => AbstractSettledBy' = AbstractSettledBy
  BY <1>2, <1>3, <1>5 DEF Settler, AbstractSettledBy
<1> USE DEF Fencing!FNext, Fencing!Move
<1>7. CASE before \in Active \cup {"queued"} /\ after = "leased" /\ grants = 1
  <2>1. PhaseOf(before) \in {"idle", "held"} /\ PhaseOf(after) = "held" /\ after \notin Settled
    BY <1>7, Phases DEF Active
  <2>2. Fencing!Grant(j)
    BY <1>1, <1>2, <1>3, <1>6, <1>7, <2>1 DEF Fencing!Grant
  <2> QED
    BY <2>2
<1>8. CASE before \in Active /\ after \in Active \cup Settled \cup {"queued", "waiting"} /\ grants = 0
  <2>1. PhaseOf(before) = "held"
    BY <1>8, Phases
  <2>2. CASE after \in Active
    <3>1. PhaseOf(after) = AbstractPhase[j] /\ after \notin Settled
      BY <1>2, <2>1, <2>2, Phases
    <3>2. AbstractPhase = [i \in Jobs |-> AbstractPhase[i]]
      BY DEF AbstractPhase
    <3>3. AbstractPhase' = AbstractPhase
      BY <1>3, <3>1, <3>2, NothingDiffers
    <3> QED
      BY <1>4, <1>6, <1>8, <3>1, <3>3 DEF Fencing!fvars
  <2>3. CASE after \in Settled
    <3>1. PhaseOf(after) = "settled" /\ Settler(job) = jobs[j].fence
      BY <1>1, <1>2, <1>8, <2>3, Phases DEF Settler
    <3>2. Fencing!Settle(j)
      BY <1>2, <1>3, <1>4, <1>8, <2>1, <3>1 DEF Fencing!Settle
    <3> QED
      BY <3>2
  <2>4. CASE after = "queued"
    <3>1. PhaseOf(after) = "idle" /\ after \notin Settled
      BY <2>4, Phases
    <3>2. Fencing!Requeue(j)
      BY <1>2, <1>3, <1>4, <1>6, <1>8, <2>1, <3>1 DEF Fencing!Requeue
    <3> QED
      BY <3>2
  <2>5. CASE after = "waiting"
    <3>1. PhaseOf(after) = "parked" /\ after \notin Settled
      BY <2>5, Phases
    <3>2. Fencing!Park(j)
      BY <1>2, <1>3, <1>4, <1>6, <1>8, <2>1, <3>1 DEF Fencing!Park
    <3> QED
      BY <3>2
  <2> QED
    BY <1>8, <2>2, <2>3, <2>4, <2>5
<1>9. CASE before = "waiting" /\ after = "queued" /\ grants = 0
  <2>1. PhaseOf(before) = "parked" /\ PhaseOf(after) = "idle" /\ after \notin Settled
    BY <1>9, Phases
  <2>2. Fencing!Wake(j)
    BY <1>2, <1>3, <1>4, <1>6, <1>9, <2>1 DEF Fencing!Wake
  <2> QED
    BY <2>2
<1>10. CASE before \in Active \cup {"queued", "waiting"} /\ after = "cancelled" /\ grants = 0
  <2>1. PhaseOf(before) \in {"idle", "held", "parked"} /\ PhaseOf(after) = "cancelled" /\ after \notin Settled
    BY <1>10, Phases
  <2>2. Fencing!Cancel(j)
    BY <1>2, <1>3, <1>4, <1>6, <1>10, <2>1 DEF Fencing!Cancel
  <2> QED
    BY <2>2
<1> QED
  BY <1>1, <1>7, <1>8, <1>9, <1>10 DEF StateMove

(* The ledger implements the abstract lease: one holder at a time, growing *)
(* tokens, one outcome given by the newest, and cancellation at any time   *)
(* before it.                                                              *)
THEOREM LedgerImplementsLeaseFence == JSpec => ImplementsLeaseFence
<1>1. Init => Fencing!FInit
  <2> SUFFICES ASSUME Init PROVE Fencing!FInit
    OBVIOUS
  <2>1. \A j \in Jobs : jobs[j].state = "absent" /\ jobs[j].fence = 0
    BY DEF Init, Absent
  <2>2. \A j \in Jobs : PhaseOf(jobs[j].state) = "absent" /\ jobs[j].state \notin Settled
    BY <2>1, Phases
  <2> QED
    BY <2>1, <2>2 DEF Fencing!FInit, AbstractPhase, AbstractToken, AbstractSettledBy, Settler
<1>2. JInv /\ [Next]_jvars => [Fencing!FNext]_(Fencing!fvars)
  <2> SUFFICES ASSUME JInv, [Next]_jvars PROVE Fencing!FNext \/ UNCHANGED Fencing!fvars
    OBVIOUS
  <2>1. CASE Passes
    BY <2>1 DEF Passes, Fencing!fvars, AbstractPhase, AbstractToken, AbstractSettledBy, PhaseOf, Settler
  <2>2. CASE \E j \in Jobs, k \in Keys : Enqueue(j, k)
    BY <2>2, EnqueueOpens DEF Fencing!FNext
  <2> QED
    BY <2>1, <2>2, StepsOfTheLedger, ChangeIsAbstractStep
<1> QED
  BY <1>1, <1>2, LedgerInvariant, PTL DEF JSpec, ImplementsLeaseFence, Fencing!FSpec
=============================================================================
