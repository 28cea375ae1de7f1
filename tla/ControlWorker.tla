---------------------------- MODULE ControlWorker ----------------------------
(***************************************************************************)
(* PostgresControlWorker: worker processes that claim runs, run a handler  *)
(* under a heartbeat thread, and commit what the handler came to.  The     *)
(* process may die anywhere, any call may fail on the database, a          *)
(* heartbeat call may outlive its run, and the lease may run out while the *)
(* handler is busy.                                                        *)
(*                                                                         *)
(* The methods of the repository are the atomic transactions that          *)
(* RuntimeRepository takes apart.  Fences do not appear: a process's own   *)
(* lease on r is still the current one exactly while owner[r] is the       *)
(* process, since it claims nothing else meanwhile; only the heartbeat     *)
(* call left over from an earlier lease must be told apart, and Claim does *)
(* that.  So no counter has to be bounded, and runs may go on for ever.    *)
(***************************************************************************)
EXTENDS Naturals, FiniteSets

CONSTANTS Runs,         \* run ids in claim order, (created_at, id)
          Workers,      \* worker ids
          Lease,        \* lease seconds, in ticks
          NONE

ASSUME WorkerAssumption == Runs \subseteq Nat /\ Lease \in Nat \ {0} /\ NONE \notin Workers \cup Nat

VARIABLES state,        \* state[r], owner[r], ttl[r]: the lease columns of the runs table;
          owner,        \* ttl is the time lease_expires_at still leaves,
          ttl,          \* NONE when it is NULL
          pc,           \* pc[w]: where run_once stands
          job,          \* job[w]: the run it is about
          beat,         \* beat[w]: its heartbeat thread
          outcome,      \* outcome[w]: what the handler came to
          stray,        \* stray[w]: run of a heartbeat call still on its way, or NONE
          hooked        \* hooked[r]: how often after_commit was called for r, up to 2

rows == <<state, owner, ttl>>
wvars == <<state, owner, ttl, pc, job, beat, outcome, stray, hooked>>

Active == {"leased", "running"}
Finished == {"completed", "failed"}
\* what a handler may come to; "invalid": a wait reason or a result the repository refuses
Outcomes == {"done", "wait", "retry", "fail", "invalid"}
After(o) == CASE o = "done" -> "completed" [] o = "wait" -> "waiting"
              [] o = "retry" -> "queued" [] o = "fail" -> "failed"

Init == /\ state = [r \in Runs |-> "absent"]
        /\ owner = [r \in Runs |-> NONE]
        /\ ttl = [r \in Runs |-> NONE]
        /\ pc = [w \in Workers |-> "poll"]
        /\ job = [w \in Workers |-> NONE]
        /\ beat = [w \in Workers |-> "off"]
        /\ outcome = [w \in Workers |-> NONE]
        /\ stray = [w \in Workers |-> NONE]
        /\ hooked = [r \in Runs |-> 0]

(* lease_owner and fence of r are those of the lease w was given. *)
Holds(w, r) == owner[r] = w

(* run_once is over: run_forever polls again. *)
BackToPoll(w) == /\ pc' = [pc EXCEPT ![w] = "poll"]
                 /\ job' = [job EXCEPT ![w] = NONE]
                 /\ beat' = [beat EXCEPT ![w] = "off"]
                 /\ outcome' = [outcome EXCEPT ![w] = NONE]

Enqueue(r) == /\ state[r] = "absent"
              /\ state' = [state EXCEPT ![r] = "queued"]
              /\ UNCHANGED <<owner, ttl, pc, job, beat, outcome, stray, hooked>>

Resume(r) == /\ state[r] = "waiting"
             /\ state' = [state EXCEPT ![r] = "queued"]
             /\ UNCHANGED <<owner, ttl, pc, job, beat, outcome, stray, hooked>>

Claimable_QueuedOnly(r) == state[r] = "queued"

Claimable(r) == state[r] = "queued" \/ (state[r] \in Active /\ ttl[r] = 0)

(* claim_run: the oldest claimable run.  A heartbeat still on its way for  *)
(* an earlier lease on it, of this very worker, now carries a stale fence. *)
Claim(w) ==
    /\ pc[w] = "poll"
    /\ \E r \in Runs :
          /\ Claimable(r) /\ \A q \in Runs : q < r => ~Claimable(q)
          /\ state' = [state EXCEPT ![r] = "leased"]
          /\ owner' = [owner EXCEPT ![r] = w]
          /\ ttl' = [ttl EXCEPT ![r] = Lease]
          /\ job' = [job EXCEPT ![w] = r]
          /\ stray' = [stray EXCEPT ![w] = IF @ = r THEN NONE ELSE @]
    /\ pc' = [pc EXCEPT ![w] = "claimed"]
    /\ UNCHANGED <<beat, outcome, hooked>>

(* start_run, then the handler is entered with its heartbeat thread. *)
Start(w) ==
    /\ pc[w] = "claimed" /\ Holds(w, job[w])
    /\ state' = [state EXCEPT ![job[w]] = "running"]
    /\ pc' = [pc EXCEPT ![w] = "handling"]
    /\ beat' = [beat EXCEPT ![w] = "on"]
    /\ UNCHANGED <<owner, ttl, job, outcome, stray, hooked>>

(* The heartbeat thread: the first exception ends it. *)
Beat(w) ==
    /\ pc[w] = "handling" /\ beat[w] = "on"
    /\ IF Holds(w, job[w])
       THEN ttl' = [ttl EXCEPT ![job[w]] = Lease] /\ UNCHANGED beat
       ELSE beat' = [beat EXCEPT ![w] = "failed"] /\ UNCHANGED ttl
    /\ UNCHANGED <<state, owner, pc, job, outcome, stray, hooked>>

BeatBreaks(w) ==
    /\ pc[w] = "handling" /\ beat[w] = "on"
    /\ beat' = [beat EXCEPT ![w] = "failed"]
    /\ UNCHANGED <<state, owner, ttl, pc, job, outcome, stray, hooked>>

(* The handler returns or raises; the heartbeat thread is stopped and      *)
(* joined with a timeout, so that one call of it may still be on its way.  *)
(* An outcome after a failed heartbeat is dropped, an error is not.        *)
HandlerEnds(w, o) ==
    /\ pc[w] = "handling"
    /\ stray' \in {stray, [stray EXCEPT ![w] = IF beat[w] = "on" THEN job[w] ELSE @]}
    /\ IF beat[w] = "failed" /\ o \in {"done", "invalid"}
       THEN BackToPoll(w)
       ELSE /\ pc' = [pc EXCEPT ![w] = "commit"]
            /\ outcome' = [outcome EXCEPT ![w] = o]
            /\ beat' = [beat EXCEPT ![w] = "off"]
            /\ UNCHANGED job
    /\ UNCHANGED <<state, owner, ttl, hooked>>

StrayBeat_Unguarded(w) ==
    /\ stray[w] # NONE
    /\ ttl' = [ttl EXCEPT ![stray[w]] = Lease]
    /\ stray' = [stray EXCEPT ![w] = NONE]
    /\ UNCHANGED <<state, owner, pc, job, beat, outcome, hooked>>

StrayBeat_NotStopped(w) ==
    /\ stray[w] # NONE
    /\ ttl' = IF Holds(w, stray[w]) THEN [ttl EXCEPT ![stray[w]] = Lease] ELSE ttl
    /\ UNCHANGED <<state, owner, pc, job, beat, outcome, stray, hooked>>

(* The late heartbeat call reaches the database. *)
StrayBeat(w) ==
    /\ stray[w] # NONE
    /\ ttl' = IF Holds(w, stray[w]) THEN [ttl EXCEPT ![stray[w]] = Lease] ELSE ttl
    /\ stray' = [stray EXCEPT ![w] = NONE]
    /\ UNCHANGED <<state, owner, pc, job, beat, outcome, hooked>>

Commit_Unfenced(w, o) ==
    /\ pc[w] = "commit" /\ outcome[w] = o /\ o # "invalid"
    /\ state' = [state EXCEPT ![job[w]] = After(o)]
    /\ owner' = [owner EXCEPT ![job[w]] = NONE]
    /\ ttl' = [ttl EXCEPT ![job[w]] = NONE]
    /\ IF o = "done"
       THEN pc' = [pc EXCEPT ![w] = "hook"] /\ UNCHANGED <<job, beat, outcome>>
       ELSE BackToPoll(w)
    /\ UNCHANGED <<stray, hooked>>

(* wait, fail or complete; the completed run's hook is still to be called. *)
Commit(w, o) ==
    /\ pc[w] = "commit" /\ outcome[w] = o /\ o # "invalid" /\ Holds(w, job[w])
    /\ state' = [state EXCEPT ![job[w]] = After(o)]
    /\ owner' = [owner EXCEPT ![job[w]] = NONE]
    /\ ttl' = [ttl EXCEPT ![job[w]] = NONE]
    /\ IF o = "done"
       THEN pc' = [pc EXCEPT ![w] = "hook"] /\ UNCHANGED <<job, beat, outcome>>
       ELSE BackToPoll(w)
    /\ UNCHANGED <<stray, hooked>>

(* FenceError: the lease was taken over meanwhile.  A refused outcome ends *)
(* the same way, and leaves the run to its deadline.                       *)
Rejected(w) ==
    /\ pc[w] \in {"claimed", "commit"}
    /\ ~Holds(w, job[w]) \/ outcome[w] = "invalid"
    /\ BackToPoll(w)
    /\ UNCHANGED <<state, owner, ttl, stray, hooked>>

(* The database call fails and nothing is written. *)
CallBreaks(w) == /\ pc[w] \in {"claimed", "commit"}
                 /\ BackToPoll(w)
                 /\ UNCHANGED <<state, owner, ttl, stray, hooked>>

(* after_commit is called, and may raise: the run stays completed. *)
Hook(w) == /\ pc[w] = "hook"
           /\ hooked' = [hooked EXCEPT ![job[w]] = IF @ < 2 THEN @ + 1 ELSE @]
           /\ BackToPoll(w)
           /\ UNCHANGED <<state, owner, ttl, stray>>

(* The process dies, its threads with it; a commit whose answer was lost   *)
(* is Commit followed by this.                                             *)
Crash(w) == /\ pc[w] # "down"
            /\ pc' = [pc EXCEPT ![w] = "down"]
            /\ job' = [job EXCEPT ![w] = NONE]
            /\ beat' = [beat EXCEPT ![w] = "off"]
            /\ outcome' = [outcome EXCEPT ![w] = NONE]
            /\ stray' = [stray EXCEPT ![w] = NONE]
            /\ UNCHANGED <<state, owner, ttl, hooked>>

Restart(w) == /\ pc[w] = "down"
              /\ pc' = [pc EXCEPT ![w] = "poll"]
              /\ UNCHANGED <<state, owner, ttl, job, beat, outcome, stray, hooked>>

Tick == /\ ttl' = [r \in Runs |-> IF ttl[r] \in 1 .. Lease THEN ttl[r] - 1 ELSE ttl[r]]
        /\ UNCHANGED <<state, owner, pc, job, beat, outcome, stray, hooked>>

RunOnce(w) == \/ Claim(w) \/ Start(w) \/ (\E o \in Outcomes : HandlerEnds(w, o) \/ Commit(w, o))
              \/ Rejected(w) \/ Hook(w)

Work == \/ \E r \in Runs : Enqueue(r) \/ Resume(r)
        \/ \E w \in Workers : RunOnce(w) \/ Beat(w) \/ StrayBeat(w)
        \/ Tick

Faults == \E w \in Workers : BeatBreaks(w) \/ CallBreaks(w) \/ Crash(w) \/ Restart(w)

Next == Work \/ Faults

WSpec == Init /\ [][Next]_wvars

(***************************************************************************)
(* Fairness.  Time passes, a dead process is restarted, waiting runs are   *)
(* woken, and run_once goes on: all of it the scheduler's and the          *)
(* operator's.                                                             *)
(***************************************************************************)
Scheduling == /\ WF_wvars(Tick)
              /\ \A r \in Runs : WF_wvars(Resume(r))
              /\ \A w \in Workers : WF_wvars(RunOnce(w)) /\ WF_wvars(Restart(w))

FairWSpec == WSpec /\ Scheduling

(* Faults, late workers and unhappy handlers do not hit every attempt at a *)
(* run for ever: a step towards its completion that is possible again and  *)
(* again is taken some time, by some worker.                               *)
Attempt(r, w) == job[w] = r /\ Holds(w, r)

LuckyWSpec ==
    /\ FairWSpec
    /\ \A r \in Runs :
          /\ SF_wvars(\E w \in Workers : Claim(w) /\ job'[w] = r)
          /\ SF_wvars(\E w \in Workers : Attempt(r, w) /\ Start(w))
          /\ SF_wvars(\E w \in Workers : Attempt(r, w) /\ beat[w] = "on" /\ HandlerEnds(w, "done"))
          /\ SF_wvars(\E w \in Workers : Attempt(r, w) /\ Commit(w, "done"))

-----------------------------------------------------------------------------
(* A deadline exists exactly while somebody owns the run: a heartbeat that *)
(* arrives after the run was given back does not put one on it.            *)
DeadlineIffOwned ==
    \A r \in Runs : /\ ttl[r] # NONE <=> owner[r] # NONE
                    /\ ttl[r] # NONE <=> state[r] \in Active

(* The variables have their types, and a heartbeat replaces the deadline   *)
(* by one lease time and never adds to it.                                 *)
WTypeOK ==
    /\ state \in [Runs -> Active \cup Finished \cup {"absent", "queued", "waiting"}]
    /\ owner \in [Runs -> Workers \cup {NONE}]
    /\ ttl \in [Runs -> (0 .. Lease) \cup {NONE}]
    /\ pc \in [Workers -> {"poll", "claimed", "handling", "commit", "hook", "down"}]
    /\ job \in [Workers -> Runs \cup {NONE}]
    /\ beat \in [Workers -> {"off", "on", "failed"}]
    /\ outcome \in [Workers -> Outcomes \cup {NONE}]
    /\ stray \in [Workers -> Runs \cup {NONE}]
    /\ hooked \in [Runs -> 0 .. 2]
    /\ DeadlineIffOwned

(* after_commit is called at most once for a run, and only for one that is *)
(* completed, whichever attempts were lost on the way.                     *)
HookedOnceCompleted ==
    \A r \in Runs : hooked[r] <= 1 /\ (hooked[r] > 0 => state[r] = "completed")

(* A run that is still owned but that nobody is working on waits only for  *)
(* its deadline: no heartbeat thread keeps an abandoned lease alive, save  *)
(* by a single late call.                                                  *)
AbandonedLeaseRunsOut ==
    [][\A r \in Runs :
          ttl[r] # NONE /\ ttl'[r] # NONE /\ ttl'[r] > ttl[r] =>
             \/ \E w \in Workers : job'[w] = r /\ owner'[r] = w
             \/ \E w \in Workers : stray[w] = r /\ stray'[w] = NONE]_wvars

(* Every run is finished some time: leases of dead or confused processes   *)
(* are taken over, dropped outcomes are worked out again, and waiting and  *)
(* retried runs come back.                                                 *)
RunsFinish == \A r \in Runs : state[r] = "queued" ~> state[r] \in Finished
=============================================================================
