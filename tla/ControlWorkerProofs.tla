------------------------- MODULE ControlWorkerProofs -------------------------
(***************************************************************************)
(* For any number of runs and workers and any lease time: the commit hook  *)
(* runs at most once for a run and only after it is completed, and only a  *)
(* holder, a new claim or one late heartbeat renews a deadline, whatever   *)
(* crashes and lost calls hit the workers.                                 *)
(***************************************************************************)
EXTENDS ControlWorker, TLAPS

\* run_once of w is about a run.
AtRun(w) == pc[w] \in {"claimed", "handling", "commit", "hook"}

(* A worker between its commit and its hook is the only one for that run,  *)
(* which is completed and whose hook was not called yet.                   *)
HooksAreDue ==
    /\ \A w \in Workers : AtRun(w) => job[w] \in Runs
    /\ \A w \in Workers : pc[w] = "hook" => state[job[w]] = "completed" /\ hooked[job[w]] = 0
    /\ \A v, w \in Workers : pc[v] = "hook" /\ pc[w] = "hook" /\ job[v] = job[w] => v = w

WInv == WTypeOK /\ HookedOnceCompleted /\ HooksAreDue

\* Nobody comes to a hook, and none that is due is overtaken.
HooksStand == /\ hooked' = hooked
              /\ \A w \in Workers : pc'[w] = "hook" => pc[w] = "hook" /\ job'[w] = job[w]
              /\ \A w \in Workers : AtRun(w)' => job'[w] \in Runs

-----------------------------------------------------------------------------
(* A step that leaves completed runs completed and brings no worker to its *)
(* hook keeps what is said of hooks.                                       *)
LEMMA QuietStepsKeepHooks ==
    ASSUME WInv, HooksStand,
           \A r \in Runs : state[r] = "completed" => state'[r] = "completed"
    PROVE  HookedOnceCompleted' /\ HooksAreDue'
<1>1. HookedOnceCompleted'
  BY DEF WInv, HookedOnceCompleted, HooksStand
<1>2. \A w \in Workers : pc'[w] = "hook" =>
         pc[w] = "hook" /\ job'[w] = job[w] /\ job[w] \in Runs /\ state[job[w]] = "completed" /\ hooked[job[w]] = 0
  BY DEF WInv, HooksAreDue, HooksStand, AtRun
<1>3. \A w \in Workers : pc'[w] = "hook" => state'[job'[w]] = "completed" /\ hooked'[job'[w]] = 0
  BY <1>2 DEF HooksStand
<1>4. \A v, w \in Workers : pc'[v] = "hook" /\ pc'[w] = "hook" /\ job'[v] = job'[w] => v = w
  BY <1>2 DEF WInv, HooksAreDue
<1> QED
  BY <1>1, <1>3, <1>4 DEF HooksAreDue, HooksStand

(* A run somebody holds is active, so it is not completed. *)
LEMMA HeldRunsAreActive ==
    ASSUME WInv, NEW w \in Workers, NEW r \in Runs, Holds(w, r)
    PROVE  state[r] \in Active /\ ttl[r] # NONE /\ state[r] # "completed"
<1>1. owner[r] # NONE
  BY WorkerAssumption DEF Holds
<1> QED
  BY <1>1 DEF WInv, WTypeOK, DeadlineIffOwned, Active

LEMMA EnqueueAndResumeKeepWInv ==
    ASSUME WInv, NEW r \in Runs, Enqueue(r) \/ Resume(r)
    PROVE  WInv'
<1>1. /\ state[r] \in {"absent", "waiting"} /\ state' = [state EXCEPT ![r] = "queued"]
      /\ UNCHANGED <<owner, ttl, pc, job, beat, outcome, stray, hooked>>
  BY DEF Enqueue, Resume
<1>2. WTypeOK'
  BY <1>1 DEF WInv, WTypeOK, DeadlineIffOwned, Active
<1>3. \A q \in Runs : state[q] = "completed" => state'[q] = "completed"
  BY <1>1 DEF WInv, WTypeOK
<1>4. HooksStand
  BY <1>1 DEF HooksStand, WInv, HooksAreDue, AtRun
<1> QED
  BY <1>2, <1>3, <1>4, QuietStepsKeepHooks DEF WInv

LEMMA ClaimKeepsWInv ==
    ASSUME WInv, NEW w \in Workers, Claim(w)
    PROVE  WInv'
<1>1. PICK r \in Runs : /\ Claimable(r)
                        /\ state' = [state EXCEPT ![r] = "leased"]
                        /\ owner' = [owner EXCEPT ![r] = w]
                        /\ ttl' = [ttl EXCEPT ![r] = Lease]
                        /\ job' = [job EXCEPT ![w] = r]
                        /\ stray' = [stray EXCEPT ![w] = IF @ = r THEN NONE ELSE @]
  BY DEF Claim
<1>2. pc' = [pc EXCEPT ![w] = "claimed"] /\ UNCHANGED <<beat, outcome, hooked>>
  BY DEF Claim
<1>3. state[r] # "completed"
  BY <1>1 DEF Claimable, Active
<1>4. WTypeOK'
  <2>1. DeadlineIffOwned'
    BY <1>1, WorkerAssumption DEF WInv, WTypeOK, DeadlineIffOwned, Active
  <2> QED
    BY <2>1, <1>1, <1>2, WorkerAssumption DEF WInv, WTypeOK, Active
<1>5. \A q \in Runs : state[q] = "completed" => state'[q] = "completed"
  BY <1>1, <1>3 DEF WInv, WTypeOK
<1>6. HooksStand
  BY <1>1, <1>2 DEF HooksStand, WInv, WTypeOK, HooksAreDue, AtRun
<1> QED
  BY <1>4, <1>5, <1>6, QuietStepsKeepHooks DEF WInv

LEMMA StartKeepsWInv ==
    ASSUME WInv, NEW w \in Workers, Start(w)
    PROVE  WInv'
<1>1. job[w] \in Runs
  BY DEF Start, WInv, HooksAreDue, AtRun
<1>2. state[job[w]] \in Active /\ state[job[w]] # "completed"
  BY <1>1, HeldRunsAreActive DEF Start
<1>3. WTypeOK'
  BY <1>1, <1>2 DEF Start, WInv, WTypeOK, DeadlineIffOwned, Active
<1>4. \A q \in Runs : state[q] = "completed" => state'[q] = "completed"
  BY <1>2 DEF Start, WInv, WTypeOK
<1>5. HooksStand
  BY <1>1 DEF Start, HooksStand, WInv, WTypeOK, HooksAreDue, AtRun
<1> QED
  BY <1>3, <1>4, <1>5, QuietStepsKeepHooks DEF WInv

(* Heartbeats move a deadline that is there. *)
LEMMA BeatsKeepWInv ==
    ASSUME WInv, NEW w \in Workers, Beat(w) \/ BeatBreaks(w) \/ StrayBeat(w)
    PROVE  WInv'
<1>1. UNCHANGED <<state, owner, pc, job, outcome, hooked>>
  BY DEF Beat, BeatBreaks, StrayBeat
<1>2. ttl' = ttl \/ \E r \in Runs : Holds(w, r) /\ ttl' = [ttl EXCEPT ![r] = Lease]
  <2>1. Beat(w) => job[w] \in Runs
    BY DEF Beat, WInv, HooksAreDue, AtRun
  <2>2. StrayBeat(w) => stray[w] \in Runs
    BY DEF StrayBeat, WInv, WTypeOK
  <2> QED
    BY <2>1, <2>2 DEF Beat, BeatBreaks, StrayBeat
<1>3. ttl' \in [Runs -> (0 .. Lease) \cup {NONE}] /\ \A r \in Runs : ttl'[r] = NONE <=> ttl[r] = NONE
  <2>1. \A r \in Runs : Holds(w, r) => ttl[r] # NONE
    BY HeldRunsAreActive
  <2> QED
    BY <1>2, <2>1, WorkerAssumption DEF WInv, WTypeOK
<1>4. beat' \in [Workers -> {"off", "on", "failed"}] /\ stray' \in [Workers -> Runs \cup {NONE}]
  BY DEF Beat, BeatBreaks, StrayBeat, WInv, WTypeOK
<1>5. WTypeOK'
  BY <1>1, <1>3, <1>4 DEF WInv, WTypeOK, DeadlineIffOwned
<1>6. HooksStand
  BY <1>1 DEF HooksStand, WInv, HooksAreDue, AtRun
<1> QED
  BY <1>1, <1>5, <1>6, QuietStepsKeepHooks DEF WInv
(* The handler ends, a call is refused or breaks, the process dies or      *)
(* comes back: the rows stay as they are, and nobody comes to a hook.      *)
LEMMA WorkerStepsKeepWInv ==
    ASSUME WInv, NEW w \in Workers,
           (\E o \in Outcomes : HandlerEnds(w, o)) \/ Rejected(w) \/ CallBreaks(w) \/ Crash(w) \/ Restart(w)
    PROVE  WInv'
<1>1. UNCHANGED <<state, owner, ttl, hooked>>
  BY DEF HandlerEnds, Rejected, CallBreaks, Crash, Restart
<1>2. \E at \in {"poll", "commit", "down"} : pc' = [pc EXCEPT ![w] = at]
  BY DEF HandlerEnds, Rejected, CallBreaks, Crash, Restart, BackToPoll
<1>3. job' = [job EXCEPT ![w] = NONE] \/ job' = job
  BY DEF HandlerEnds, Rejected, CallBreaks, Crash, Restart, BackToPoll
<1>4. pc'[w] = "commit" => pc[w] = "handling" /\ job' = job
  BY DEF HandlerEnds, Rejected, CallBreaks, Crash, Restart, BackToPoll, WInv, WTypeOK
<1>5. /\ beat' \in [Workers -> {"off", "on", "failed"}]
      /\ outcome' \in [Workers -> Outcomes \cup {NONE}]
  BY DEF HandlerEnds, Rejected, CallBreaks, Crash, Restart, BackToPoll, WInv, WTypeOK
<1>6. stray' \in [Workers -> Runs \cup {NONE}]
  <2>1. CASE \E o \in Outcomes : HandlerEnds(w, o)
    <3>1. job[w] \in Runs
      BY <2>1 DEF HandlerEnds, WInv, HooksAreDue, AtRun
    <3>2. stray' = stray \/ stray' = [stray EXCEPT ![w] = IF beat[w] = "on" THEN job[w] ELSE @]
      BY <2>1 DEF HandlerEnds
    <3> QED
      BY <3>1, <3>2 DEF WInv, WTypeOK
  <2>2. CASE Rejected(w) \/ CallBreaks(w) \/ Crash(w) \/ Restart(w)
    BY <2>2 DEF Rejected, CallBreaks, Crash, Restart, WInv, WTypeOK
  <2> QED
    BY <2>1, <2>2
<1>7. WTypeOK'
  <2>1. pc' \in [Workers -> {"poll", "claimed", "handling", "commit", "hook", "down"}]
    BY <1>2 DEF WInv, WTypeOK
  <2>2. job' \in [Workers -> Runs \cup {NONE}]
    BY <1>3 DEF WInv, WTypeOK
  <2> QED
    BY <2>1, <2>2, <1>1, <1>5, <1>6 DEF WInv, WTypeOK, DeadlineIffOwned
<1>8. HooksStand
  BY <1>1, <1>2, <1>3, <1>4 DEF HooksStand, WInv, WTypeOK, HooksAreDue, AtRun
<1> QED
  BY <1>1, <1>7, <1>8, QuietStepsKeepHooks DEF WInv

(* A run that is committed was active, so it has no hook behind it, and    *)
(* nobody else is about to call one.                                       *)
LEMMA CommitKeepsWInv ==
    ASSUME WInv, NEW w \in Workers, NEW o \in Outcomes, Commit(w, o)
    PROVE  WInv'
<1> DEFINE r == job[w]
<1>1. r \in Runs /\ Holds(w, r) /\ o # "invalid" /\ pc[w] = "commit"
  BY DEF Commit, WInv, HooksAreDue, AtRun
<1>2. state[r] \in Active /\ state[r] # "completed"
  BY <1>1, HeldRunsAreActive
<1>3. /\ state' = [state EXCEPT ![r] = After(o)]
      /\ owner' = [owner EXCEPT ![r] = NONE] /\ ttl' = [ttl EXCEPT ![r] = NONE]
      /\ UNCHANGED <<stray, hooked>>
  BY DEF Commit
<1>4. /\ o = "done" => pc' = [pc EXCEPT ![w] = "hook"] /\ UNCHANGED <<job, beat, outcome>>
      /\ o # "done" => BackToPoll(w)
  BY DEF Commit
<1>5. /\ After(o) \in {"completed", "waiting", "queued", "failed"}
      /\ After(o) = "completed" <=> o = "done"
  BY <1>1 DEF After, Outcomes
<1> HIDE DEF r
<1>6. WTypeOK'
  <2>1. DeadlineIffOwned'
    BY <1>1, <1>3, <1>5, WorkerAssumption DEF WInv, WTypeOK, DeadlineIffOwned, Active
  <2>2. /\ state' \in [Runs -> Active \cup Finished \cup {"absent", "queued", "waiting"}]
        /\ owner' \in [Runs -> Workers \cup {NONE}] /\ ttl' \in [Runs -> (0 .. Lease) \cup {NONE}]
    BY <1>3, <1>5 DEF WInv, WTypeOK, Finished
  <2>3. /\ pc' \in [Workers -> {"poll", "claimed", "handling", "commit", "hook", "down"}]
        /\ job' \in [Workers -> Runs \cup {NONE}] /\ beat' \in [Workers -> {"off", "on", "failed"}]
        /\ outcome' \in [Workers -> Outcomes \cup {NONE}]
    BY <1>4 DEF BackToPoll, WInv, WTypeOK
  <2> QED
    BY <2>1, <2>2, <2>3, <1>3 DEF WInv, WTypeOK
<1>7. \A q \in Runs : state[q] = "completed" => state'[q] = "completed"
  BY <1>2, <1>3 DEF WInv, WTypeOK
<1>8. CASE o = "done"
  <2>1. hooked[r] = 0 /\ hooked' = hooked /\ state'[r] = "completed"
    BY <1>1, <1>2, <1>3, <1>5, <1>8 DEF WInv, WTypeOK, HookedOnceCompleted
  <2>2. \A v \in Workers : pc[v] = "hook" => job[v] # r
    BY <1>2 DEF WInv, HooksAreDue
  <2>3. \A v \in Workers : job'[v] = job[v] /\ (pc'[v] = "hook" <=> v = w \/ pc[v] = "hook")
    BY <1>4, <1>8 DEF WInv, WTypeOK
  <2>4. \A v \in Workers : AtRun(v)' => job'[v] \in Runs
    BY <1>1, <1>4, <1>8 DEF AtRun, WInv, WTypeOK, HooksAreDue, r
  <2>5. \A v \in Workers : pc'[v] = "hook" => state'[job'[v]] = "completed" /\ hooked'[job'[v]] = 0
    BY <2>1, <2>3, <1>7 DEF WInv, HooksAreDue, AtRun, r
  <2>6. \A u, v \in Workers : pc'[u] = "hook" /\ pc'[v] = "hook" /\ job'[u] = job'[v] => u = v
    BY <2>2, <2>3 DEF WInv, HooksAreDue, r
  <2>7. HooksAreDue'
    BY <2>4, <2>5, <2>6 DEF HooksAreDue
  <2>8. HookedOnceCompleted'
    BY <2>1, <1>7 DEF WInv, HookedOnceCompleted
  <2> QED
    BY <1>6, <2>7, <2>8 DEF WInv
<1>9. CASE o # "done"
  <2>1. HooksStand
    BY <1>3, <1>4, <1>9 DEF BackToPoll, HooksStand, WInv, WTypeOK, HooksAreDue, AtRun
  <2> QED
    BY <1>6, <1>7, <2>1, QuietStepsKeepHooks DEF WInv
<1> QED
  BY <1>8, <1>9

LEMMA HookKeepsWInv ==
    ASSUME WInv, NEW w \in Workers, Hook(w)
    PROVE  WInv'
<1> DEFINE r == job[w]
<1>1. r \in Runs /\ hooked[r] = 0 /\ state[r] = "completed" /\ pc[w] = "hook"
  BY DEF Hook, WInv, HooksAreDue, AtRun
<1>2. hooked' = [hooked EXCEPT ![r] = 1]
  BY <1>1 DEF Hook
<1>3. BackToPoll(w) /\ UNCHANGED <<state, owner, ttl, stray>>
  BY DEF Hook
<1> HIDE DEF r
<1>4. WTypeOK'
  BY <1>1, <1>2, <1>3 DEF BackToPoll, WInv, WTypeOK, DeadlineIffOwned
<1>5. HookedOnceCompleted'
  BY <1>1, <1>2, <1>3 DEF WInv, WTypeOK, HookedOnceCompleted
<1>6. \A v \in Workers : /\ AtRun(v)' => v # w /\ AtRun(v) /\ job'[v] = job[v]
                         /\ pc'[v] = "hook" => v # w /\ pc[v] = "hook" /\ job'[v] = job[v]
  BY <1>3 DEF BackToPoll, AtRun, WInv, WTypeOK
<1>7. \A v \in Workers : pc'[v] = "hook" => job[v] # r /\ job[v] \in Runs
  BY <1>1, <1>6 DEF WInv, HooksAreDue, AtRun, r
<1>8. \A v \in Workers : pc'[v] = "hook" => state'[job'[v]] = "completed" /\ hooked'[job'[v]] = 0
  BY <1>2, <1>3, <1>6, <1>7 DEF WInv, WTypeOK, HooksAreDue
<1>9. HooksAreDue'
  BY <1>6, <1>8 DEF WInv, HooksAreDue
<1> QED
  BY <1>4, <1>5, <1>9 DEF WInv

LEMMA TickKeepsWInv ==
    ASSUME WInv, Tick
    PROVE  WInv'
<1>1. /\ ttl' = [r \in Runs |-> IF ttl[r] \in 1 .. Lease THEN ttl[r] - 1 ELSE ttl[r]]
      /\ UNCHANGED <<state, owner, pc, job, beat, outcome, stray, hooked>>
  BY DEF Tick
<1>2. \A r \in Runs : ttl'[r] \in (0 .. Lease) \cup {NONE} /\ (ttl'[r] = NONE <=> ttl[r] = NONE)
  BY <1>1, WorkerAssumption DEF WInv, WTypeOK
<1>3. ttl' \in [Runs -> (0 .. Lease) \cup {NONE}]
  BY <1>1, <1>2
<1>4. WTypeOK'
  BY <1>1, <1>2, <1>3 DEF WInv, WTypeOK, DeadlineIffOwned
<1>5. HooksStand
  BY <1>1 DEF HooksStand, WInv, HooksAreDue, AtRun
<1> QED
  BY <1>1, <1>4, <1>5, QuietStepsKeepHooks DEF WInv

-----------------------------------------------------------------------------
(* The inductive invariant of the workers and the rows they work on. *)
THEOREM WorkerInvariant == WSpec => []WInv
<1>1. Init => WInv
  BY WorkerAssumption DEF Init, WInv, WTypeOK, DeadlineIffOwned, HookedOnceCompleted, HooksAreDue, AtRun, Active
<1>2. WInv /\ [Next]_wvars => WInv'
  <2> SUFFICES ASSUME WInv, [Next]_wvars PROVE WInv'
    OBVIOUS
  <2>1. CASE Work
    BY <2>1, EnqueueAndResumeKeepWInv, ClaimKeepsWInv, StartKeepsWInv, BeatsKeepWInv, WorkerStepsKeepWInv,
       CommitKeepsWInv, HookKeepsWInv, TickKeepsWInv DEF Work, RunOnce
  <2>2. CASE Faults
    BY <2>2, BeatsKeepWInv, WorkerStepsKeepWInv DEF Faults
  <2>3. CASE UNCHANGED wvars
    BY <2>3 DEF wvars, WInv, WTypeOK, DeadlineIffOwned, HookedOnceCompleted, HooksAreDue, AtRun
  <2> QED
    BY <2>1, <2>2, <2>3 DEF Next
<1> QED
  BY <1>1, <1>2, PTL DEF WSpec

(* The variables have their types, and a run has a deadline exactly while  *)
(* somebody owns it, whichever heartbeats come late.                       *)
THEOREM WorkerTypes == WSpec => []WTypeOK
<1>1. WInv => WTypeOK
  BY DEF WInv
<1> QED
  BY <1>1, WorkerInvariant, PTL

(* after_commit is called at most once for a run, and only for one that is *)
(* completed.  jobs/postgres_worker.py:118.                                 *)
THEOREM HooksRunOnce == WSpec => []HookedOnceCompleted
<1>1. WInv => HookedOnceCompleted
  BY DEF WInv
<1> QED
  BY <1>1, WorkerInvariant, PTL

\* What AbandonedLeaseRunsOut says of a step and a run.
RenewedBySomebody(r) ==
    ttl[r] # NONE /\ ttl'[r] # NONE /\ ttl'[r] > ttl[r] =>
       \/ \E w \in Workers : job'[w] = r /\ owner'[r] = w
       \/ \E w \in Workers : stray[w] = r /\ stray'[w] = NONE

LEMMA StepsRenewBySomebody ==
    ASSUME WInv, [Next]_wvars, NEW r \in Runs
    PROVE  RenewedBySomebody(r)
<1>1. ttl[r] \in (0 .. Lease) \cup {NONE}
  BY DEF WInv, WTypeOK
<1>2. CASE ttl'[r] = ttl[r] \/ ttl'[r] = NONE
  BY <1>1, <1>2, WorkerAssumption DEF RenewedBySomebody
<1>3. CASE Tick
  BY <1>1, <1>3 DEF Tick, RenewedBySomebody
<1>4. CASE \E w \in Workers : Claim(w)
  BY <1>2, <1>4 DEF Claim, RenewedBySomebody, WInv, WTypeOK
<1>5. CASE \E w \in Workers : Beat(w)
  BY <1>2, <1>5 DEF Beat, Holds, RenewedBySomebody, WInv, WTypeOK
<1>6. CASE \E w \in Workers : StrayBeat(w)
  BY <1>2, <1>6 DEF StrayBeat, RenewedBySomebody, WInv, WTypeOK
<1>7. CASE \E w \in Workers, o \in Outcomes : Commit(w, o)
  BY <1>2, <1>7 DEF Commit, WInv, WTypeOK
<1>8. CASE \/ \E q \in Runs : Enqueue(q) \/ Resume(q)
           \/ \E w \in Workers : \/ Start(w) \/ Rejected(w) \/ Hook(w) \/ \E o \in Outcomes : HandlerEnds(w, o)
                                 \/ BeatBreaks(w) \/ CallBreaks(w) \/ Crash(w) \/ Restart(w)
           \/ UNCHANGED wvars
  <2>1. ttl' = ttl
    BY <1>8 DEF Enqueue, Resume, Start, Rejected, Hook, HandlerEnds, BeatBreaks, CallBreaks, Crash, Restart, wvars
  <2> QED
    BY <2>1, <1>2
<1> QED
  BY <1>3, <1>4, <1>5, <1>6, <1>7, <1>8 DEF Next, Work, RunOnce, Faults

(* Nothing keeps an abandoned lease alive, save a single late call.        *)
THEOREM AbandonedLeasesRunOut == WSpec => AbandonedLeaseRunsOut
<1> DEFINE Renewed == \A r \in Runs : RenewedBySomebody(r)
<1>1. WInv /\ [Next]_wvars => Renewed
  BY StepsRenewBySomebody
<1>2. AbandonedLeaseRunsOut <=> [][Renewed]_wvars
  BY DEF AbandonedLeaseRunsOut, RenewedBySomebody
<1> HIDE DEF Renewed
<1>3. [][Renewed]_wvars => AbandonedLeaseRunsOut
  BY <1>2
<1> QED
  BY <1>1, <1>3, WorkerInvariant, PTL DEF WSpec
=============================================================================
