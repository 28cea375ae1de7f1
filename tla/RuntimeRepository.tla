-------------------------- MODULE RuntimeRepository --------------------------
(***************************************************************************)
(* PostgresRuntimeRepository: the runs, attempts and run_events tables and *)
(* every method that changes them, as the transactions of one workspace.   *)
(*                                                                         *)
(* A lease (the RunLease a worker holds) is the attempt row it was issued  *)
(* with.  The model keeps every lease ever issued, and any of them may be  *)
(* used at any time: by the worker that is still alive, by one that was    *)
(* paused past its deadline, by a heartbeat thread that outlived its run.  *)
(*                                                                         *)
(* lease_expires_at is kept relative to the true time: ttl is what is left *)
(* of it, Tick lets it run down.  The methods read the caller's clock, not *)
(* the database's; a caller whose clock reads d more than the true time    *)
(* (d in Drifts; negative: slow, or read before a long wait) sees the      *)
(* lease expire when ttl <= d and writes Lease + d.                        *)
(*                                                                         *)
(* A definition whose name has an underscore is a faulty variant of the    *)
(* one after it, which some property must tell from the real one.          *)
(***************************************************************************)
EXTENDS Integers, FiniteSets

CONSTANTS Runs,         \* run ids, ordered as (created_at, id) orders them
          Workers,      \* worker ids
          SlotOf,       \* SlotOf[r]: the (conversation, bot) r answers for, or NONE
          Lease,        \* lease seconds, in ticks
          Ahead,        \* how far a caller's clock may be ahead,
          Behind,       \* and behind
          Reasons,      \* the wait reasons used
          Errors,       \* the error codes used
          Notes,        \* the keys handed to append_run_event
          MaxFence,     \* bound: claims of one run
          MaxRevision,  \* bound: checkpoints of one run
          NONE          \* SQL NULL

ASSUME RunsAssumption == Runs \subseteq Nat
ASSUME ClockAssumption == Lease \in Nat \ {0} /\ Ahead \in Nat /\ Behind \in Nat
ASSUME BoundAssumption == MaxFence \in Nat /\ MaxRevision \in Nat
ASSUME NoneAssumption == /\ NONE \notin Workers /\ NONE \notin Reasons
                         /\ NONE \notin Errors /\ NONE \notin Int
                         /\ NONE \notin [run : Runs, fence : Nat, clock : Int]
\* callers of append_run_event do not imitate the repository's own keys
ASSUME NotesAssumption == \A key \in Notes : key \notin {"leased", "running", "queued",
                                                        "waiting", "completed", "failed"}

VARIABLES runs,         \* the runs table
          ttl,          \* lease_expires_at - now of each run, NONE when NULL
          attempts,     \* the attempts table: every lease ever issued
          runEvents,    \* the run_events table
          claim         \* claim[w]: the claim transaction w has open, or NONE

vars == <<runs, ttl, attempts, runEvents, claim>>

States == {"absent", "queued", "leased", "running", "waiting", "completed", "failed"}
Active == {"leased", "running"}
Occupying_NotWaiting == {"queued", "leased", "running"}
Occupying == {"queued", "leased", "running", "waiting"}   \* runs_one_main_active
Terminal == {"completed", "failed"}
Releases == {"queued", "waiting", "completed", "failed"}  \* transitions that free the lease

Drifts == -Behind .. Ahead
Floor == -Behind                      \* below it a lease is expired for everybody

TTLs == (Floor .. Lease + Ahead) \cup {NONE}
RunRows == [state : States, owner : Workers \cup {NONE}, fence : Nat,
            revision : Nat, checkpoint : Nat, reason : Reasons \cup {NONE},
            error : Errors \cup {NONE}, result : Nat]
Attempts == [run : Runs, worker : Workers, fence : Nat, number : Nat]

\* A transaction that has selected its row FOR UPDATE: the row, the fence it
\* read, and the caller's timestamp relative to the true time.
Claims == [run : Runs, fence : Nat, clock : Floor - Lease .. Ahead]

\* key <<run, fence, type>>; detail is the metadata that can differ
Event(r, f, t, d) == [run |-> r, fence |-> f, type |-> t, detail |-> d]

Absent == [state |-> "absent", owner |-> NONE, fence |-> 0, revision |-> 0, checkpoint |-> 0,
           reason |-> NONE, error |-> NONE, result |-> 0]

Init == /\ runs = [r \in Runs |-> Absent]
        /\ ttl = [r \in Runs |-> NONE]
        /\ attempts = {}
        /\ runEvents = {}
        /\ claim = [w \in Workers |-> NONE]

(***************************************************************************)
(* Row locks.  An UPDATE of a row that a claim has selected FOR UPDATE     *)
(* waits for that transaction, and then evaluates its WHERE again.         *)
(***************************************************************************)
Unlocked_NoRowLock(r) == TRUE

Unlocked(r) == \A w \in Workers : claim[w] # NONE => claim[w].run # r

(***************************************************************************)
(* _insert_run_event: INSERT ... ON CONFLICT (workspace_id, event_key) DO  *)
(* NOTHING, then the stored row must say the same or the transaction is    *)
(* rolled back.                                                            *)
(***************************************************************************)
InsertRunEvent(e) ==
    /\ \A x \in runEvents :
          (x.run = e.run /\ x.fence = e.fence /\ x.type = e.type) => x = e
    /\ runEvents' = runEvents \cup {e}

(***************************************************************************)
(* create_run.  The primary key and the partial unique index               *)
(* runs_one_main_active refuse the row otherwise.                          *)
(***************************************************************************)
SlotFree(r) == SlotOf[r] # NONE =>
                  \A q \in Runs : SlotOf[q] = SlotOf[r] => runs[q].state \notin Occupying

CreateRun(r) ==
    /\ runs[r].state = "absent"
    /\ SlotFree(r)
    /\ runs' = [runs EXCEPT ![r].state = "queued"]
    /\ UNCHANGED <<ttl, attempts, runEvents, claim>>

(***************************************************************************)
(* claim_run: one transaction, from the SELECT that locks the oldest       *)
(* claimable row nobody has locked to the COMMIT that issues the lease.    *)
(***************************************************************************)
Claimable_Unexpired(r, d) == runs[r].state \in Active \cup {"queued"}

Claimable(r, d) == \/ runs[r].state = "queued"
                   \/ runs[r].state \in Active /\ ttl[r] # NONE /\ ttl[r] <= d

ClaimSelect(w, r, d) ==
    /\ claim[w] = NONE
    /\ Claimable(r, d) /\ Unlocked(r)
    /\ \A q \in Runs : q < r => ~(Claimable(q, d) /\ Unlocked(q))
    /\ runs[r].fence < MaxFence
    /\ claim' = [claim EXCEPT ![w] = [run |-> r, fence |-> runs[r].fence, clock |-> d]]
    /\ UNCHANGED <<runs, ttl, attempts, runEvents>>

\* SELECT COALESCE(MAX(attempt_number), 0) + 1
NextNumber(r) ==
    LET used == {0} \cup {a.number : a \in {b \in attempts : b.run = r}}
    IN  1 + (CHOOSE n \in used : \A m \in used : m <= n)

ClaimCommit(w) ==
    /\ claim[w] # NONE
    /\ LET r == claim[w].run
           f == claim[w].fence + 1
       IN  /\ \A a \in attempts : a.run = r => a.fence # f    \* UNIQUE (run_id, fence)
           /\ runs' = [runs EXCEPT ![r].state = "leased", ![r].owner = w, ![r].fence = f]
           /\ ttl' = [ttl EXCEPT ![r] = claim[w].clock + Lease]
           /\ attempts' = attempts \cup
                {[run |-> r, worker |-> w, fence |-> f, number |-> NextNumber(r)]}
           /\ InsertRunEvent(Event(r, f, "leased", w))
    /\ claim' = [claim EXCEPT ![w] = NONE]

\* The claimer dies, or a statement fails: the transaction is rolled back.
ClaimAbort(w) ==
    /\ claim[w] # NONE
    /\ claim' = [claim EXCEPT ![w] = NONE]
    /\ UNCHANGED <<runs, ttl, attempts, runEvents>>

(***************************************************************************)
(* The guarded updates.  WHERE lease_owner = :worker_id AND fence = :fence *)
(* is all _transition asks; heartbeat and checkpoint also ask for an       *)
(* active state.  When no row matches the caller gets a FenceError and     *)
(* nothing is written.                                                     *)
(***************************************************************************)
Owns_AnyFence(a) == runs[a.run].owner = a.worker

Owns(a) == runs[a.run].owner = a.worker /\ runs[a.run].fence = a.fence

Transition(a, state, reason, error, result) ==
    /\ Unlocked(a.run) /\ Owns(a)
    /\ LET release == state \in Releases
       IN  /\ runs' = [runs EXCEPT ![a.run] =
                [@ EXCEPT !.state = state,
                          !.owner = IF release THEN NONE ELSE a.worker,
                          !.reason = reason,
                          !.result = IF result = 0 THEN runs[a.run].result ELSE result,
                          !.error = error]]
           /\ ttl' = [ttl EXCEPT ![a.run] = IF release THEN NONE ELSE @]
    /\ InsertRunEvent(Event(a.run, a.fence, state, IF error = NONE THEN reason ELSE error))
    /\ UNCHANGED <<attempts, claim>>

StartRun(a) == Transition(a, "running", NONE, NONE, 0)

Wait(a, reason) == Transition(a, "waiting", reason, NONE, 0)

\* The result of an attempt is named by the attempt's fence.
Complete(a) == Transition(a, "completed", NONE, NONE, a.fence)

Fail(a, error, retryable) ==
    Transition(a, IF retryable THEN "queued" ELSE "failed", NONE, error, 0)

Heartbeat(a, d) ==
    /\ Unlocked(a.run) /\ Owns(a) /\ runs[a.run].state \in Active
    /\ ttl' = [ttl EXCEPT ![a.run] = d + Lease]
    /\ UNCHANGED <<runs, attempts, runEvents, claim>>

\* What an attempt saves is named by its fence as well.
Save(a) == runs' = [runs EXCEPT ![a.run].revision = @ + 1, ![a.run].checkpoint = a.fence]

Checkpoint_Unfenced(a) ==
    /\ Unlocked(a.run) /\ runs[a.run].revision < MaxRevision
    /\ Save(a)
    /\ UNCHANGED <<ttl, attempts, runEvents, claim>>

Checkpoint(a) ==
    /\ Unlocked(a.run) /\ Owns(a) /\ runs[a.run].state \in Active
    /\ runs[a.run].revision < MaxRevision
    /\ Save(a)
    /\ UNCHANGED <<ttl, attempts, runEvents, claim>>

(***************************************************************************)
(* resume_run: no lease is needed to wake a waiting run, and no run event  *)
(* is written.                                                             *)
(***************************************************************************)
ResumeRun_AnyState(r) ==
    /\ Unlocked(r) /\ runs[r].state \in Terminal
    /\ runs' = [runs EXCEPT ![r].state = "queued"]
    /\ UNCHANGED <<ttl, attempts, runEvents, claim>>

ResumeRun(r) ==
    /\ Unlocked(r) /\ runs[r].state = "waiting"
    /\ runs' = [runs EXCEPT ![r] = [@ EXCEPT !.state = "queued", !.owner = NONE,
                                             !.reason = NONE, !.error = NONE]]
    /\ ttl' = [ttl EXCEPT ![r] = NONE]
    /\ UNCHANGED <<attempts, runEvents, claim>>

(* append_run_event, with a key of the caller's own and no attempt.  The    *)
(* table's key is unique in the workspace; here the keys of two runs are   *)
(* different keys, and an attempt's id beside the key is left out.         *)
AppendRunEvent(r, key, value) ==
    /\ runs[r].state # "absent"       \* run_events_workspace_run_fk: the row is there,
    /\ Unlocked(r)                    \* and checking it waits for a claim's row lock
    /\ InsertRunEvent(Event(r, 0, key, value))
    /\ UNCHANGED <<runs, ttl, attempts, claim>>

(* Time passes for every deadline and every open claim's timestamp. *)
Tick ==
    /\ ttl' = [r \in Runs |-> IF ttl[r] \in Int /\ ttl[r] > Floor THEN ttl[r] - 1 ELSE ttl[r]]
    /\ claim' = [w \in Workers |->
          IF claim[w] # NONE /\ claim[w].clock > Floor - Lease
          THEN [claim[w] EXCEPT !.clock = @ - 1] ELSE claim[w]]
    /\ UNCHANGED <<runs, attempts, runEvents>>

LeaseCall(a) ==
    \/ StartRun(a)
    \/ \E reason \in Reasons : Wait(a, reason)
    \/ Complete(a)
    \/ \E error \in Errors, retryable \in BOOLEAN : Fail(a, error, retryable)
    \/ \E d \in Drifts : Heartbeat(a, d)
    \/ Checkpoint(a)

Next ==
    \/ \E r \in Runs : CreateRun(r) \/ ResumeRun(r)
    \/ \E w \in Workers, r \in Runs, d \in Drifts : ClaimSelect(w, r, d)
    \/ \E w \in Workers : ClaimCommit(w) \/ ClaimAbort(w)
    \/ \E a \in attempts : LeaseCall(a)
    \/ \E r \in Runs, key \in Notes, value \in Errors : AppendRunEvent(r, key, value)
    \/ Tick

Spec == Init /\ [][Next]_vars

-----------------------------------------------------------------------------
(***************************************************************************)
(* Properties.                                                             *)
(***************************************************************************)

(* Every variable has its type.  A lease never reaches further than one    *)
(* lease time from the caller's clock: a heartbeat replaces the deadline,  *)
(* it does not add to it.                                                  *)
TypeOK == /\ runs \in [Runs -> RunRows]
          /\ ttl \in [Runs -> TTLs]
          /\ attempts \subseteq Attempts
          /\ claim \in [Workers -> Claims \cup {NONE}]

(* The columns of a run that describe its lease agree.  _transition asks   *)
(* only for owner and fence, never for a state: that it cannot move a run  *)
(* that is queued, waiting or finished rests on exactly this.              *)
LeaseColumnsAgree ==
    \A r \in Runs :
        /\ runs[r].state \in Active <=> runs[r].owner # NONE
        /\ runs[r].state \in Active <=> ttl[r] # NONE
        /\ runs[r].state = "waiting" <=> runs[r].reason # NONE
        /\ runs[r].state = "completed" <=> runs[r].result # 0

(* The attempts of a run are numbered by its fences, one attempt for each  *)
(* fence up to the current one, and the owner of an active run is the      *)
(* worker of its newest attempt.                                           *)
AttemptsMatchFences ==
    /\ \A a \in attempts : a.number = a.fence /\ a.fence \in 1 .. runs[a.run].fence
    /\ \A a, b \in attempts : a.run = b.run /\ a.fence = b.fence => a = b
    /\ \A r \in Runs : \A f \in 1 .. runs[r].fence :
          \E a \in attempts : a.run = r /\ a.fence = f
    /\ \A a \in attempts : runs[a.run].state \in Active /\ a.fence = runs[a.run].fence
                            => runs[a.run].owner = a.worker

(* What an open claim has read is still true when it writes: no two claims *)
(* hold one run, and the run it locked has neither moved on nor finished.  *)
(* claim_run's UPDATE names the run by id alone and relies on it.          *)
ClaimReadsHold ==
    /\ \A w, v \in Workers : claim[w] # NONE /\ claim[v] # NONE /\ w # v
                             => claim[w].run # claim[v].run
    /\ \A w \in Workers : claim[w] # NONE =>
          /\ runs[claim[w].run].fence = claim[w].fence
          /\ runs[claim[w].run].state \in Active \cup {"queued"}

(* What the tables say of a run agrees at every moment, whoever claims,    *)
(* commits or comes back late: its lease columns with one another, its     *)
(* attempts with its fences, and an open claim with the row it has locked. *)
(* jobs/repository.py:232, 711, 217.                                       *)
RowsAgree == TypeOK /\ LeaseColumnsAgree /\ AttemptsMatchFences /\ ClaimReadsHold

(* One conversation and bot have at most one run that is not finished.     *)
OneMainRun ==
    \A r, q \in Runs : /\ SlotOf[r] # NONE /\ SlotOf[r] = SlotOf[q]
                       /\ runs[r].state \notin Terminal \cup {"absent"}
                       /\ runs[q].state \notin Terminal \cup {"absent"}
                       => r = q

EventsOf(r, types) == {e \in runEvents : e.run = r /\ e.type \in types}

(* The journal tells the outcome: a run is finished exactly when one       *)
(* terminal event is recorded, that event is of its state and of its last  *)
(* attempt, and a completed run carries that attempt's result.             *)
OutcomeIsJournaledOnce ==
    \A r \in Runs :
        /\ \A e \in EventsOf(r, Terminal) : runs[r].state = e.type /\ runs[r].fence = e.fence
        /\ \A d, e \in EventsOf(r, Terminal) : d = e
        /\ runs[r].state \in Terminal => EventsOf(r, Terminal) # {}
        /\ runs[r].state = "completed" => runs[r].result = runs[r].fence

(* An attempt gives its run back at most once, whatever its worker does    *)
(* afterwards; while the run is held no release of the current fence is on *)
(* record, and a waiting run's is there with its reason.                   *)
AttemptReleasesOnce ==
    \A r \in Runs :
        /\ \A d, e \in EventsOf(r, Releases) : d.fence = e.fence => d = e
        /\ \A e \in EventsOf(r, Releases) : runs[r].state \in Active => e.fence < runs[r].fence
        /\ runs[r].state = "waiting" =>
              Event(r, runs[r].fence, "waiting", runs[r].reason) \in runEvents

(* The journal and the run tell the same story: one outcome, of the last   *)
(* attempt, and one release of each attempt.  jobs/repository.py:731.      *)
JournalTellsTheRun == OutcomeIsJournaledOnce /\ AttemptReleasesOnce

(* A finished run never changes again: not when a worker that was claiming *)
(* it, or one whose lease was taken over, comes back late.                 *)
FinishedStaysFinished ==
    [][\A r \in Runs : runs[r].state \in Terminal => runs'[r] = runs[r]]_vars

(* A lease is taken from its holder only after its deadline.               *)
LeaseRespected ==
    [][\A r \in Runs : runs[r].owner # NONE /\ runs'[r].fence # runs[r].fence
                          => ttl[r] <= 0]_vars

(* No claim, wait, retry or resume loses or rewinds a checkpoint.  Only    *)
(* the attempt that holds the lease replaces it: not one whose run was     *)
(* claimed since, given back or finished, though its worker may be the     *)
(* same; so that what a newer attempt saved is never overwritten by an     *)
(* older one.  jobs/repository.py:386.                                     *)
ProgressKept ==
    [][\A r \in Runs :
          /\ runs'[r].revision >= runs[r].revision
          /\ runs'[r].checkpoint >= runs[r].checkpoint
          /\ runs'[r].revision # runs[r].revision \/ runs'[r].checkpoint # runs[r].checkpoint =>
                /\ runs[r].owner # NONE /\ runs'[r].fence = runs[r].fence
                /\ runs'[r].checkpoint = runs[r].fence]_vars

(* The repository implements the abstract lease: the fence is the token,   *)
(* and the run was settled by the fence its terminal event names.          *)
PhaseOf(state) == CASE state = "absent" -> "absent"
                    [] state = "queued" -> "idle"
                    [] state \in Active -> "held"
                    [] state = "waiting" -> "parked"
                    [] OTHER -> "settled"

OutcomeFence(r) == IF EventsOf(r, Terminal) = {} THEN 0
                   ELSE (CHOOSE e \in EventsOf(r, Terminal) : TRUE).fence

Fencing == INSTANCE LeaseFence WITH
              phase <- [r \in Runs |-> PhaseOf(runs[r].state)],
              token <- [r \in Runs |-> runs[r].fence],
              settledBy <- [r \in Runs |-> OutcomeFence(r)]

ImplementsLeaseFence == Fencing!FSpec
=============================================================================
