------------------------------ MODULE JobLedger ------------------------------
(***************************************************************************)
(* JobLedger, the in-memory ledger, and the ControlWorkers that work on    *)
(* it.  A worker claims the oldest claimable job, starts it, and enters    *)
(* its handler; while the handler is busy, time passes, the lease may run  *)
(* out, other workers may take the job over, and anybody may cancel it.    *)
(*                                                                         *)
(* The handler's result and its checkpoints are named by the fence of the  *)
(* lease they were made under.  ttl is the time lease_expires_at leaves;   *)
(* all callers share one process and its clock.  A method is one step: the *)
(* ledger has no lock, and whoever shares one between threads must not let *)
(* two of its calls overlap.  Jobs are as old as their order of insertion, *)
(* which is what the times enqueue takes say unless a caller passes others.*)
(*                                                                         *)
(* A definition whose name has an underscore is a faulty variant of the    *)
(* one after it, which some property must tell from the real one.          *)
(***************************************************************************)
EXTENDS Naturals, Sequences

CONSTANTS Jobs,         \* job ids
          Keys,         \* (workspace, idempotency key) pairs
          Workers,
          Lease,        \* lease seconds, in ticks
          Reasons,      \* the wait reasons used
          MaxFence,     \* bound: claims of one job
          NONE

ASSUME JobAssumption == /\ Lease \in Nat \ {0} /\ MaxFence \in Nat
                        /\ NONE \notin Jobs /\ NONE \notin Workers \cup Reasons \cup Nat

VARIABLES jobs,         \* jobs[j]: the Job
          ttl,          \* ttl[j]: lease_expires_at, relative to now
          order,        \* job ids as they were created
          idempotency,  \* idempotency[k]: the job admitted under k, or NONE
          task          \* task[w]: the lease run_once of w works under, or NONE

jvars == <<jobs, ttl, order, idempotency, task>>

Active == {"leased", "running"}
Settled == {"completed", "failed"}
Terminal == Settled \cup {"cancelled"}
JobStates == Active \cup Terminal \cup {"absent", "queued", "waiting"}

Absent == [state |-> "absent", key |-> NONE, owner |-> NONE, fence |-> 0, saved |-> 0,
           reason |-> NONE, result |-> 0]

Init == /\ jobs = [j \in Jobs |-> Absent]
        /\ ttl = [j \in Jobs |-> NONE]
        /\ order = <<>>
        /\ idempotency = [k \in Keys |-> NONE]
        /\ task = [w \in Workers |-> NONE]

Admit(j, k) ==
    /\ jobs[j].state = "absent"
    /\ jobs' = [jobs EXCEPT ![j] = [Absent EXCEPT !.state = "queued", !.key = k]]
    /\ idempotency' = [idempotency EXCEPT ![k] = j]
    /\ order' = Append(order, j)
    /\ UNCHANGED <<ttl, task>>

Enqueue_ByJobId(j, k) == Admit(j, k)

(* enqueue: a key that is known is answered with its job, or refused when  *)
(* kind or payload differ; either way nothing is written.                  *)
Enqueue(j, k) == idempotency[k] = NONE /\ Admit(j, k)

Claimable(j) == jobs[j].state = "queued" \/ (jobs[j].state \in Active /\ ttl[j] = 0)

Oldest(j) == \E n \in DOMAIN order :
                /\ order[n] = j /\ Claimable(j)
                /\ \A m \in 1 .. n - 1 : ~Claimable(order[m])

(* run_once claims one job... *)
Claim(w, j) ==
    /\ task[w] = NONE /\ Oldest(j) /\ jobs[j].fence < MaxFence
    /\ jobs' = [jobs EXCEPT ![j] = [@ EXCEPT !.state = "leased", !.owner = w,
                                             !.fence = jobs[j].fence + 1, !.reason = NONE]]
    /\ ttl' = [ttl EXCEPT ![j] = Lease]
    /\ task' = [task EXCEPT ![w] = [job |-> j, fence |-> jobs[j].fence + 1, at |-> "claimed"]]
    /\ UNCHANGED <<order, idempotency>>

Guard_None(w) == TRUE

(* _guard: the lease a worker works under is still the current one. *)
Guard(w) == LET job == jobs[task[w].job] IN job.owner = w /\ job.fence = task[w].fence

(* ...starts it, and enters the handler. *)
Start(w) ==
    /\ task[w] # NONE /\ task[w].at = "claimed" /\ Guard(w)
    /\ jobs[task[w].job].state = "leased"
    /\ jobs' = [jobs EXCEPT ![task[w].job].state = "running"]
    /\ task' = [task EXCEPT ![w].at = "handling"]
    /\ UNCHANGED <<ttl, order, idempotency>>

Handling(w) == /\ task[w] # NONE /\ task[w].at = "handling"
               /\ Guard(w) /\ jobs[task[w].job].state \in Active

Heartbeat(w) ==
    /\ Handling(w)
    /\ ttl' = [ttl EXCEPT ![task[w].job] = Lease]
    /\ UNCHANGED <<jobs, order, idempotency, task>>

Checkpoint(w) ==
    /\ Handling(w)
    /\ jobs' = [jobs EXCEPT ![task[w].job].saved = task[w].fence]
    /\ UNCHANGED <<ttl, order, idempotency, task>>

(* wait, fail and complete give the lease up with the outcome. *)
Release(w, state, reason, result) ==
    LET j == task[w].job
    IN  /\ Handling(w)
        /\ jobs' = [jobs EXCEPT ![j] = [@ EXCEPT !.state = state, !.owner = NONE,
                       !.reason = reason, !.result = IF result = 0 THEN jobs[j].result ELSE result]]
        /\ ttl' = [ttl EXCEPT ![j] = NONE]
        /\ task' = [task EXCEPT ![w] = NONE]
        /\ UNCHANGED <<order, idempotency>>

Wait(w, reason) == Release(w, "waiting", reason, 0)
Complete(w) == Release(w, "completed", NONE, task[w].fence)
Fail(w, retryable) == Release(w, IF retryable THEN "queued" ELSE "failed", NONE, 0)

(* FenceError, or a process that stops anywhere: run_once ends and nothing *)
(* is written.                                                             *)
Abandon(w) == /\ task[w] # NONE
              /\ task' = [task EXCEPT ![w] = NONE]
              /\ UNCHANGED <<jobs, ttl, order, idempotency>>

Resume_AnyState(j) ==
    /\ jobs[j].state \notin {"absent", "queued"} \cup Active
    /\ jobs' = [jobs EXCEPT ![j] = [@ EXCEPT !.state = "queued", !.owner = NONE, !.reason = NONE]]
    /\ ttl' = [ttl EXCEPT ![j] = NONE]
    /\ UNCHANGED <<order, idempotency, task>>

Resume(j) ==
    /\ jobs[j].state = "waiting"
    /\ jobs' = [jobs EXCEPT ![j] = [@ EXCEPT !.state = "queued", !.owner = NONE, !.reason = NONE]]
    /\ ttl' = [ttl EXCEPT ![j] = NONE]
    /\ UNCHANGED <<order, idempotency, task>>

(* cancel: of a job in any state but a final one, its worker is not asked. *)
(* The wait reason stays.                                                  *)
Cancel(j) ==
    /\ jobs[j].state \notin Terminal \cup {"absent"}
    /\ jobs' = [jobs EXCEPT ![j] = [@ EXCEPT !.state = "cancelled", !.owner = NONE]]
    /\ ttl' = [ttl EXCEPT ![j] = NONE]
    /\ UNCHANGED <<order, idempotency, task>>

Tick == /\ ttl' = [j \in Jobs |-> IF ttl[j] \in 1 .. Lease THEN ttl[j] - 1 ELSE ttl[j]]
        /\ UNCHANGED <<jobs, order, idempotency, task>>

RunOnce(w) == \/ \E j \in Jobs : Claim(w, j)
              \/ Start(w) \/ Heartbeat(w) \/ Checkpoint(w)
              \/ \E reason \in Reasons : Wait(w, reason)
              \/ Complete(w)
              \/ \E retryable \in BOOLEAN : Fail(w, retryable)
              \/ Abandon(w)

Next == \/ \E j \in Jobs : \/ \E k \in Keys : Enqueue(j, k)
                           \/ Resume(j) \/ Cancel(j)
        \/ \E w \in Workers : RunOnce(w)
        \/ Tick

JSpec == Init /\ [][Next]_jvars

-----------------------------------------------------------------------------
(* The variables have their types; a heartbeat replaces the deadline and   *)
(* never adds to it.                                                       *)
JTypeOK ==
    /\ jobs \in [Jobs -> [state : JobStates, key : Keys \cup {NONE},
                          owner : Workers \cup {NONE}, fence : Nat, saved : Nat,
                          reason : Reasons \cup {NONE}, result : Nat]]
    /\ ttl \in [Jobs -> (0 .. Lease) \cup {NONE}]
    /\ order \in Seq(Jobs)
    /\ idempotency \in [Keys -> Jobs \cup {NONE}]
    /\ task \in [Workers -> [job : Jobs, fence : Nat, at : {"claimed", "handling"}] \cup {NONE}]

(* Whatever its worker and its canceller do, a job has an owner and a      *)
(* deadline exactly while it is leased or running, and never waits for     *)
(* nothing.                                                                *)
JobLeaseColumnsAgree ==
    \A j \in Jobs : /\ jobs[j].owner # NONE <=> jobs[j].state \in Active
                    /\ ttl[j] # NONE <=> jobs[j].state \in Active
                    /\ jobs[j].state = "waiting" => jobs[j].reason # NONE

(* An idempotency key admits one job for ever: enqueuing it again, under   *)
(* another job id, admits nothing.                                         *)
OneJobPerKey ==
    /\ \A j \in Jobs : jobs[j].state # "absent" => idempotency[jobs[j].key] = j
    /\ \A k \in Keys : idempotency[k] # NONE => jobs[idempotency[k]].key = k

(* What the ledger says of its jobs agrees, whoever works on them, cancels *)
(* or enqueues them again.  jobs/ledger.py:246, 70.                        *)
JobsAgree == JTypeOK /\ JobLeaseColumnsAgree /\ OneJobPerKey

(* A handler whose lease was taken over leaves no trace: the result is     *)
(* that of the newest lease, and no older checkpoint replaces a newer one. *)
NewestLeaseWrites ==
    [][\A j \in Jobs : /\ jobs'[j].saved >= jobs[j].saved
                       /\ jobs'[j].saved # jobs[j].saved => jobs'[j].saved = jobs[j].fence
                       /\ jobs'[j].result # jobs[j].result => jobs'[j].result = jobs[j].fence]_jvars

(* The ledger implements the abstract lease, cancellation included. *)
PhaseOf(state) == CASE state = "absent" -> "absent"
                    [] state = "queued" -> "idle"
                    [] state \in Active -> "held"
                    [] state = "waiting" -> "parked"
                    [] state = "cancelled" -> "cancelled"
                    [] OTHER -> "settled"

Settler(row) == IF row.state \in Settled THEN row.fence ELSE 0

AbstractPhase == [j \in Jobs |-> PhaseOf(jobs[j].state)]
AbstractToken == [j \in Jobs |-> jobs[j].fence]
AbstractSettledBy == [j \in Jobs |-> Settler(jobs[j])]

Fencing == INSTANCE LeaseFence WITH
              Runs <- Jobs, phase <- AbstractPhase,
              token <- AbstractToken, settledBy <- AbstractSettledBy

ImplementsLeaseFence == Fencing!FSpec
=============================================================================
