----------------------- MODULE RuntimeRepositoryProofs -----------------------
(***************************************************************************)
(* The repository keeps its leases, attempts and journal consistent for    *)
(* every set of runs and workers, every clock drift and every bound.       *)
(***************************************************************************)
EXTENDS RuntimeRepository, TLAPS

(* No release is on record for a fence that has not been issued. *)
ReleasesAreOfIssuedFences ==
    \A e \in runEvents : e.type \in Releases =>
        e.run \in Runs /\ e.fence \in Nat /\ e.fence <= runs[e.run].fence

IInv == /\ TypeOK /\ LeaseColumnsAgree /\ AttemptsMatchFences /\ ClaimReadsHold
        /\ ReleasesAreOfIssuedFences /\ OutcomeIsJournaledOnce /\ AttemptReleasesOnce

-----------------------------------------------------------------------------
(* SELECT COALESCE(MAX(attempt_number), 0) + 1 yields the next fence. *)
LEMMA NextNumberIsNextFence ==
    ASSUME TypeOK, AttemptsMatchFences, NEW r \in Runs
    PROVE  NextNumber(r) = runs[r].fence + 1
<1> DEFINE used == {0} \cup {a.number : a \in {b \in attempts : b.run = r}}
           f == runs[r].fence
           IsMax(n) == \A m \in used : m <= n
<1>1. f \in Nat
  BY DEF TypeOK, RunRows
<1>2. \A m \in used : m \in Nat /\ m <= f
  BY <1>1 DEF TypeOK, Attempts, AttemptsMatchFences
<1>3. f \in used
  <2>1. CASE f = 0
    BY <2>1
  <2>2. CASE f # 0
    <3>1. PICK a \in attempts : a.run = r /\ a.fence = f
      BY <2>2, <1>1 DEF AttemptsMatchFences
    <3> QED
      BY <3>1 DEF AttemptsMatchFences
  <2> QED
    BY <2>1, <2>2
<1>4. \A n \in used : IsMax(n) => n = f
  BY <1>1, <1>2, <1>3
<1>5. IsMax(f)
  BY <1>2
<1>a. NextNumber(r) = 1 + (CHOOSE n \in used : IsMax(n))
  BY Zenon DEF NextNumber
<1> HIDE DEF used
<1>6. (CHOOSE n \in used : IsMax(n)) = f
  <2> HIDE DEF IsMax
  <2> QED
    BY <1>3, <1>4, <1>5, Zenon
<1> QED
  <2> HIDE DEF f, IsMax
  <2>1. NextNumber(r) = 1 + f
    BY <1>a, <1>6, Zenon
  <2> QED
    BY <2>1, <1>1 DEF f

(* _transition, by the holder of the lease, whatever state it goes to. *)
LEMMA TransitionKeepsIInv ==
    ASSUME IInv, NEW a \in attempts, NEW state \in {"running"} \cup Releases,
           NEW reason \in Reasons \cup {NONE}, NEW error \in Errors \cup {NONE},
           NEW result \in {0, a.fence},
           state = "waiting" <=> reason # NONE,
           state = "waiting" => error = NONE,
           state = "completed" <=> result # 0,
           Transition(a, state, reason, error, result)
    PROVE  IInv'
<1> DEFINE q == a.run
           e == Event(q, a.fence, state, IF error = NONE THEN reason ELSE error)
           release == state \in Releases
<1>1. /\ q \in Runs /\ a.worker \in Workers /\ a.worker # NONE
      /\ a.fence \in Nat /\ a.fence # 0
      /\ runs[q].fence = a.fence /\ runs[q].owner = a.worker
      /\ runs[q].state \in Active /\ runs[q].result = 0 /\ ttl[q] # NONE
      /\ runs[q] \in RunRows
  BY NoneAssumption DEF IInv, TypeOK, Attempts, Transition, Owns, AttemptsMatchFences,
                        LeaseColumnsAgree, RunRows, Active
<1>2. /\ runs' \in [Runs -> RunRows] /\ ttl' \in [Runs -> TTLs]
      /\ runs'[q].state = state /\ runs'[q].fence = a.fence
      /\ runs'[q].owner = (IF release THEN NONE ELSE a.worker)
      /\ runs'[q].reason = reason /\ runs'[q].result = result
      /\ ttl'[q] = (IF release THEN NONE ELSE ttl[q])
      /\ \A r \in Runs : r # q => runs'[r] = runs[r] /\ ttl'[r] = ttl[r]
      /\ \A r \in Runs : runs'[r].fence = runs[r].fence
  <2> DEFINE row == [runs[q] EXCEPT !.state = state,
                                    !.owner = IF release THEN NONE ELSE a.worker,
                                    !.reason = reason,
                                    !.result = IF result = 0 THEN runs[q].result ELSE result,
                                    !.error = error]
             left == IF release THEN NONE ELSE ttl[q]
  <2>1. runs' = [runs EXCEPT ![q] = row] /\ ttl' = [ttl EXCEPT ![q] = left]
    BY DEF Transition
  <2>2. /\ row \in RunRows /\ row.state = state /\ row.fence = a.fence
        /\ row.owner = (IF release THEN NONE ELSE a.worker)
        /\ row.reason = reason /\ row.result = result
    BY <1>1 DEF RunRows, States, Releases
  <2>3. left \in TTLs /\ runs \in [Runs -> RunRows] /\ ttl \in [Runs -> TTLs]
    BY <1>1 DEF IInv, TypeOK, TTLs
  <2> HIDE DEF row, left
  <2>4. /\ runs' \in [Runs -> RunRows] /\ ttl' \in [Runs -> TTLs]
        /\ runs'[q] = row /\ ttl'[q] = left
        /\ \A r \in Runs : r # q => runs'[r] = runs[r] /\ ttl'[r] = ttl[r]
    BY <1>1, <2>1, <2>2, <2>3
  <2> QED
    BY <1>1, <2>2, <2>4 DEF left
<1>3. /\ runEvents' = runEvents \cup {e}
      /\ attempts' = attempts /\ claim' = claim
      /\ \A w \in Workers : claim[w] # NONE => claim[w].run # q
  BY DEF Transition, InsertRunEvent, Unlocked
<1>4. /\ e.run = q /\ e.fence = a.fence /\ e.type = state
      /\ state = "waiting" => e = Event(q, a.fence, "waiting", reason)
  BY DEF Event
<1> HIDE DEF e, q
<1>5. TypeOK'
  BY <1>2, <1>3 DEF IInv, TypeOK
<1>6. LeaseColumnsAgree'
  BY <1>1, <1>2 DEF IInv, LeaseColumnsAgree, Active, Releases
<1>7. AttemptsMatchFences'
  BY <1>1, <1>2, <1>3 DEF IInv, TypeOK, AttemptsMatchFences, Attempts, Active, Releases, q
<1>8. ClaimReadsHold'
  BY <1>2, <1>3 DEF IInv, TypeOK, ClaimReadsHold, Claims
<1>9. ReleasesAreOfIssuedFences'
  BY <1>1, <1>2, <1>3, <1>4 DEF IInv, ReleasesAreOfIssuedFences
<1>10. OutcomeIsJournaledOnce'
  BY <1>1, <1>2, <1>3, <1>4
     DEF IInv, OutcomeIsJournaledOnce, EventsOf, Terminal, Active, Releases
<1>11. AttemptReleasesOnce'
  BY <1>1, <1>2, <1>3, <1>4
     DEF IInv, AttemptReleasesOnce, EventsOf, ReleasesAreOfIssuedFences, Active, Releases
<1> QED
  BY <1>5, <1>6, <1>7, <1>8, <1>9, <1>10, <1>11 DEF IInv

(* claim_run's commit: the row it locked is still the row it read. *)
LEMMA ClaimCommitKeepsIInv ==
    ASSUME IInv, NEW w \in Workers, ClaimCommit(w)
    PROVE  IInv'
<1> DEFINE q == claim[w].run
           f == claim[w].fence + 1
           new == [run |-> q, worker |-> w, fence |-> f, number |-> NextNumber(q)]
<1>1. /\ claim[w] \in Claims /\ q \in Runs /\ f \in Nat /\ f # 0 /\ w # NONE
      /\ runs[q].fence = f - 1 /\ runs[q].state \in Active \cup {"queued"}
      /\ runs[q].reason = NONE /\ runs[q].result = 0
      /\ runs[q] \in RunRows /\ NextNumber(q) = f
  <2>1. claim[w] \in Claims /\ q \in Runs /\ claim[w].fence \in Nat /\ w # NONE
    BY NoneAssumption DEF IInv, TypeOK, Claims, ClaimCommit
  <2>2. /\ runs[q] \in RunRows /\ runs[q].fence = claim[w].fence
        /\ runs[q].state \in Active \cup {"queued"}
    BY <2>1 DEF IInv, TypeOK, ClaimReadsHold, ClaimCommit
  <2>3. NextNumber(q) = runs[q].fence + 1
    BY <2>1, NextNumberIsNextFence DEF IInv
  <2> QED
    BY <2>1, <2>2, <2>3 DEF IInv, LeaseColumnsAgree, Active
<1>2. /\ runs' \in [Runs -> RunRows] /\ ttl' \in [Runs -> TTLs]
      /\ runs'[q].state = "leased" /\ runs'[q].fence = f /\ runs'[q].owner = w
      /\ runs'[q].reason = NONE /\ runs'[q].result = 0 /\ ttl'[q] # NONE
      /\ \A r \in Runs : r # q => runs'[r] = runs[r] /\ ttl'[r] = ttl[r]
  <2> DEFINE row == [runs[q] EXCEPT !.state = "leased", !.owner = w, !.fence = f]
             left == claim[w].clock + Lease
  <2>1. runs' = [runs EXCEPT ![q] = row] /\ ttl' = [ttl EXCEPT ![q] = left]
    BY <1>1 DEF ClaimCommit, IInv, TypeOK, RunRows
  <2>2. /\ row \in RunRows /\ row.state = "leased" /\ row.fence = f /\ row.owner = w
        /\ row.reason = NONE /\ row.result = 0
    BY <1>1 DEF RunRows, States
  <2>3. left \in TTLs /\ left # NONE
    BY <1>1, ClockAssumption, NoneAssumption DEF Claims, TTLs, Floor
  <2>4. runs \in [Runs -> RunRows] /\ ttl \in [Runs -> TTLs]
    BY DEF IInv, TypeOK
  <2> HIDE DEF row, left
  <2> QED
    BY <1>1, <2>1, <2>2, <2>3, <2>4
<1>3. /\ attempts' = attempts \cup {new}
      /\ \A a \in attempts : a.run = q => a.fence < f
      /\ runEvents' = runEvents \cup {Event(q, f, "leased", w)}
      /\ claim' = [claim EXCEPT ![w] = NONE]
  BY <1>1 DEF ClaimCommit, InsertRunEvent, IInv, AttemptsMatchFences
<1>4. new \in Attempts /\ new.run = q /\ new.fence = f /\ new.number = f /\ new.worker = w
  BY <1>1 DEF Attempts
<1>5. /\ \A v \in Workers : claim'[v] = IF v = w THEN NONE ELSE claim[v]
      /\ \A v \in Workers : v # w /\ claim[v] # NONE => claim[v].run # q
  BY <1>1, <1>3 DEF IInv, TypeOK, ClaimReadsHold, ClaimCommit
<1>6. \A types : types \subseteq Releases =>
         {e \in runEvents' : e.type \in types} = {e \in runEvents : e.type \in types}
  BY <1>3 DEF Event, Releases
<1>7. \A r \in Runs : /\ EventsOf(r, Releases)' = EventsOf(r, Releases)
                      /\ EventsOf(r, Terminal)' = EventsOf(r, Terminal)
  BY <1>6 DEF EventsOf, Terminal, Releases
<1> HIDE DEF new, q, f
<1>8. TypeOK'
  BY <1>2, <1>3, <1>4, <1>5 DEF IInv, TypeOK
<1>9. LeaseColumnsAgree'
  BY <1>1, <1>2 DEF IInv, LeaseColumnsAgree, Active
<1>10. AttemptsMatchFences'
  <2>1. \A a \in attempts : a \in Attempts /\ a.number = a.fence /\ a.fence \in 1 .. runs[a.run].fence
    BY DEF IInv, TypeOK, AttemptsMatchFences
  <2>2. \A a \in attempts' : a.number = a.fence /\ a.fence \in 1 .. runs'[a.run].fence
    BY <1>1, <1>2, <1>3, <1>4, <2>1 DEF Attempts
  <2>3. \A a, b \in attempts' : a.run = b.run /\ a.fence = b.fence => a = b
    BY <1>3, <1>4 DEF IInv, AttemptsMatchFences
  <2>4. \A r \in Runs : \A g \in 1 .. runs'[r].fence :
           \E a \in attempts' : a.run = r /\ a.fence = g
    <3> SUFFICES ASSUME NEW r \in Runs, NEW g \in 1 .. runs'[r].fence
                 PROVE  \E a \in attempts' : a.run = r /\ a.fence = g
      OBVIOUS
    <3>1. CASE r = q /\ g = f
      BY <3>1, <1>3, <1>4
    <3>2. CASE ~(r = q /\ g = f)
      <4>1. g \in 1 .. runs[r].fence
        BY <3>2, <1>1, <1>2
      <4> QED
        BY <4>1, <1>3 DEF IInv, AttemptsMatchFences
    <3> QED
      BY <3>1, <3>2
  <2>5. \A a \in attempts' : runs'[a.run].state \in Active /\ a.fence = runs'[a.run].fence
                              => runs'[a.run].owner = a.worker
    BY <1>2, <1>3, <1>4, <2>1 DEF IInv, AttemptsMatchFences, Attempts
  <2> QED
    BY <2>2, <2>3, <2>4, <2>5 DEF AttemptsMatchFences
<1>11. ClaimReadsHold'
  BY <1>2, <1>5 DEF IInv, TypeOK, ClaimReadsHold, Claims
<1>12. ReleasesAreOfIssuedFences'
  BY <1>1, <1>2, <1>6 DEF IInv, ReleasesAreOfIssuedFences
<1>13. OutcomeIsJournaledOnce'
  <2>1. EventsOf(q, Terminal) = {}
    BY <1>1 DEF IInv, OutcomeIsJournaledOnce, EventsOf, Active, Terminal
  <2>2. runs'[q].state \notin Terminal
    BY <1>2 DEF Terminal
  <2> QED
    BY <1>1, <1>2, <1>7, <2>1, <2>2 DEF IInv, OutcomeIsJournaledOnce, Terminal
<1>14. AttemptReleasesOnce'
  <2>1. \A e \in EventsOf(q, Releases) : e.fence < f
    BY <1>1 DEF IInv, ReleasesAreOfIssuedFences, EventsOf
  <2>2. runEvents \subseteq runEvents'
    BY <1>3
  <2> QED
    BY <1>2, <1>7, <2>1, <2>2 DEF IInv, AttemptReleasesOnce
<1> QED
  BY <1>8, <1>9, <1>10, <1>11, <1>12, <1>13, <1>14 DEF IInv

(* Steps that change no journal entry of a release and no column a lease   *)
(* rests on: they only have to keep the types and the open claims true.    *)
QuietRows ==
    \A r \in Runs : /\ runs'[r].fence = runs[r].fence
                    /\ runs'[r].owner = runs[r].owner
                    /\ runs'[r].result = runs[r].result
                    /\ \/ runs'[r].state = runs[r].state /\ runs'[r].reason = runs[r].reason
                       \/ runs'[r].state = "queued" /\ runs[r].state \notin Terminal \cup Active

QuietJournal ==
    /\ attempts' = attempts /\ runEvents \subseteq runEvents'
    /\ \A e \in runEvents' : e \in runEvents \/ e.type \notin Releases

(* A step that moves no run between states and journals no release keeps   *)
(* the invariant when the row, lock and column parts still hold.           *)
LEMMA QuietStepKeepsIInv ==
    ASSUME IInv, TypeOK', ClaimReadsHold', LeaseColumnsAgree', QuietRows, QuietJournal
    PROVE  IInv'
<1>1. \A types : types \subseteq Releases =>
         {e \in runEvents' : e.type \in types} = {e \in runEvents : e.type \in types}
  BY DEF Releases, QuietJournal
<1>2. \A r : /\ EventsOf(r, Releases)' = EventsOf(r, Releases)
             /\ EventsOf(r, Terminal)' = EventsOf(r, Terminal)
  BY <1>1 DEF EventsOf, Terminal, Releases
<1>3. AttemptsMatchFences'
  BY DEF IInv, TypeOK, Attempts, AttemptsMatchFences, Active, QuietRows, QuietJournal
<1>4. ReleasesAreOfIssuedFences'
  BY <1>1 DEF IInv, ReleasesAreOfIssuedFences, QuietRows
<1>5. OutcomeIsJournaledOnce'
  <2> SUFFICES ASSUME NEW r \in Runs
               PROVE  /\ \A e \in EventsOf(r, Terminal) :
                            runs'[r].state = e.type /\ runs'[r].fence = e.fence
                      /\ \A d, e \in EventsOf(r, Terminal) : d = e
                      /\ runs'[r].state \in Terminal => EventsOf(r, Terminal) # {}
                      /\ runs'[r].state = "completed" => runs'[r].result = runs'[r].fence
    BY <1>2 DEF OutcomeIsJournaledOnce
  <2>1. CASE runs'[r].state = runs[r].state
    BY <2>1 DEF IInv, OutcomeIsJournaledOnce, QuietRows
  <2>2. CASE runs'[r].state = "queued" /\ runs[r].state \notin Terminal
    BY <2>2 DEF IInv, OutcomeIsJournaledOnce, EventsOf, Terminal
  <2> QED
    BY <2>1, <2>2 DEF QuietRows
<1>6. AttemptReleasesOnce'
  BY <1>2 DEF IInv, AttemptReleasesOnce, Active, QuietRows, QuietJournal
<1> QED
  BY <1>3, <1>4, <1>5, <1>6 DEF IInv

(* create_run inserts a row nobody owns and nobody has an attempt for. *)
LEMMA CreateRunKeepsIInv ==
    ASSUME IInv, NEW r \in Runs, CreateRun(r)
    PROVE  IInv'
<1>1. runs' = [runs EXCEPT ![r] = [runs[r] EXCEPT !.state = "queued"]]
  BY DEF CreateRun, IInv, TypeOK, RunRows
<1>2. /\ runs[r] \in RunRows /\ runs[r].state = "absent"
      /\ runs[r].owner = NONE /\ runs[r].reason = NONE /\ runs[r].result = 0
  BY DEF CreateRun, IInv, TypeOK, RunRows, LeaseColumnsAgree, Active
<1>3. TypeOK'
  BY <1>1, <1>2 DEF CreateRun, IInv, TypeOK, RunRows, States
<1>4. LeaseColumnsAgree'
  BY <1>1, <1>2 DEF CreateRun, IInv, TypeOK, RunRows, LeaseColumnsAgree, Active
<1>5. ClaimReadsHold'
  BY <1>1, <1>2 DEF CreateRun, IInv, TypeOK, RunRows, ClaimReadsHold, Active, Claims
<1>q. QuietRows /\ QuietJournal
  BY <1>1, <1>2 DEF CreateRun, IInv, TypeOK, RunRows, Terminal, Active, QuietRows, QuietJournal
<1> QED
  BY <1>3, <1>4, <1>5, <1>q, QuietStepKeepsIInv

(* resume_run moves a waiting run, which has no owner and no deadline. *)
LEMMA ResumeRunKeepsIInv ==
    ASSUME IInv, NEW r \in Runs, ResumeRun(r)
    PROVE  IInv'
<1>1. /\ runs[r] \in RunRows /\ runs[r].state = "waiting"
      /\ runs[r].owner = NONE /\ runs[r].result = 0 /\ ttl[r] = NONE
  BY DEF ResumeRun, IInv, TypeOK, RunRows, LeaseColumnsAgree, Active
<1>2. TypeOK'
  BY <1>1 DEF ResumeRun, IInv, TypeOK, RunRows, States, TTLs
<1>3. LeaseColumnsAgree'
  BY <1>1 DEF ResumeRun, IInv, TypeOK, RunRows, LeaseColumnsAgree, Active
<1>4. ClaimReadsHold'
  BY <1>1 DEF ResumeRun, IInv, TypeOK, RunRows, ClaimReadsHold, Unlocked, Claims
<1>q. QuietRows /\ QuietJournal
  BY <1>1 DEF ResumeRun, IInv, TypeOK, RunRows, Terminal, Active, QuietRows, QuietJournal
<1> QED
  BY <1>2, <1>3, <1>4, <1>q, QuietStepKeepsIInv

(* claim_run's SELECT FOR UPDATE locks an unlocked row and reads its fence. *)
LEMMA ClaimSelectKeepsIInv ==
    ASSUME IInv, NEW w \in Workers, NEW r \in Runs, NEW d \in Drifts, ClaimSelect(w, r, d)
    PROVE  IInv'
<1>1. [run |-> r, fence |-> runs[r].fence, clock |-> d] \in Claims
  BY ClockAssumption DEF IInv, TypeOK, RunRows, Claims, Drifts, Floor
<1>2. TypeOK'
  BY <1>1 DEF ClaimSelect, IInv, TypeOK
<1>3. ClaimReadsHold'
  BY <1>1 DEF ClaimSelect, IInv, TypeOK, ClaimReadsHold, Claimable, Unlocked
<1>4. LeaseColumnsAgree'
  BY DEF ClaimSelect, IInv, LeaseColumnsAgree
<1>q. QuietRows /\ QuietJournal
  BY DEF ClaimSelect, QuietRows, QuietJournal
<1> QED
  BY <1>2, <1>3, <1>4, <1>q, QuietStepKeepsIInv

(* A rolled-back claim releases its lock and leaves the tables as they were. *)
LEMMA ClaimAbortKeepsIInv ==
    ASSUME IInv, NEW w \in Workers, ClaimAbort(w)
    PROVE  IInv'
<1>1. TypeOK'
  BY DEF ClaimAbort, IInv, TypeOK
<1>2. ClaimReadsHold'
  BY DEF ClaimAbort, IInv, TypeOK, ClaimReadsHold
<1>3. LeaseColumnsAgree'
  BY DEF ClaimAbort, IInv, LeaseColumnsAgree
<1>q. QuietRows /\ QuietJournal
  BY DEF ClaimAbort, QuietRows, QuietJournal
<1> QED
  BY <1>1, <1>2, <1>3, <1>q, QuietStepKeepsIInv

(* heartbeat replaces the deadline of a run that has one. *)
LEMMA HeartbeatKeepsIInv ==
    ASSUME IInv, NEW a \in attempts, NEW d \in Drifts, Heartbeat(a, d)
    PROVE  IInv'
<1>1. a.run \in Runs /\ d + Lease \in TTLs /\ d + Lease # NONE
  BY ClockAssumption, NoneAssumption DEF IInv, TypeOK, Attempts, Drifts, TTLs, Floor
<1>2. TypeOK'
  BY <1>1 DEF Heartbeat, IInv, TypeOK
<1>3. LeaseColumnsAgree'
  BY <1>1 DEF Heartbeat, IInv, TypeOK, LeaseColumnsAgree
<1>4. ClaimReadsHold'
  BY DEF Heartbeat, IInv, ClaimReadsHold
<1>q. QuietRows /\ QuietJournal
  BY DEF Heartbeat, QuietRows, QuietJournal
<1> QED
  BY <1>2, <1>3, <1>4, <1>q, QuietStepKeepsIInv

(* checkpoint changes nothing but what is saved of a held run. *)
LEMMA CheckpointKeepsIInv ==
    ASSUME IInv, NEW a \in attempts, Checkpoint(a)
    PROVE  IInv'
<1>1. a.run \in Runs
  BY DEF IInv, TypeOK, Attempts
<1>2. /\ runs' \in [Runs -> RunRows]
      /\ \A r \in Runs : /\ runs'[r].state = runs[r].state /\ runs'[r].owner = runs[r].owner
                         /\ runs'[r].fence = runs[r].fence /\ runs'[r].reason = runs[r].reason
                         /\ runs'[r].result = runs[r].result
  BY <1>1 DEF Checkpoint, Save, IInv, TypeOK, RunRows, Attempts
<1>3. TypeOK'
  BY <1>2 DEF Checkpoint, IInv, TypeOK
<1>4. LeaseColumnsAgree'
  BY <1>2 DEF Checkpoint, IInv, LeaseColumnsAgree
<1>5. ClaimReadsHold'
  BY <1>2 DEF Checkpoint, IInv, TypeOK, ClaimReadsHold, Claims
<1>q. QuietRows /\ QuietJournal
  BY <1>2 DEF Checkpoint, QuietRows, QuietJournal
<1> QED
  BY <1>3, <1>4, <1>5, <1>q, QuietStepKeepsIInv

(* append_run_event never writes an event that looks like a release. *)
LEMMA AppendRunEventKeepsIInv ==
    ASSUME IInv, NEW r \in Runs, NEW key \in Notes, NEW value \in Errors,
           AppendRunEvent(r, key, value)
    PROVE  IInv'
<1> DEFINE e == Event(r, 0, key, value)
<1>1. runEvents' = runEvents \cup {e}
  BY DEF AppendRunEvent, InsertRunEvent
<1>2. \A x \in {e} : x.type \notin Releases
  BY NotesAssumption DEF Event, Releases
<1>3. TypeOK' /\ ClaimReadsHold' /\ LeaseColumnsAgree'
  BY DEF AppendRunEvent, IInv, TypeOK, ClaimReadsHold, LeaseColumnsAgree
<1> HIDE DEF e
<1>q. QuietRows /\ QuietJournal
  BY <1>1, <1>2 DEF AppendRunEvent, QuietRows, QuietJournal
<1> QED
  BY <1>3, <1>q, QuietStepKeepsIInv

(* Time lets deadlines run down and never creates or removes one. *)
LEMMA TickKeepsIInv ==
    ASSUME IInv, Tick
    PROVE  IInv'
<1>1. \A r \in Runs : ttl'[r] \in TTLs /\ (ttl'[r] = NONE <=> ttl[r] = NONE)
  BY ClockAssumption, NoneAssumption DEF Tick, IInv, TypeOK, TTLs, Floor
<1>2. \A w \in Workers :
         /\ claim'[w] \in Claims \cup {NONE} /\ (claim'[w] = NONE <=> claim[w] = NONE)
         /\ claim[w] # NONE => claim'[w].run = claim[w].run /\ claim'[w].fence = claim[w].fence
  <2> SUFFICES ASSUME NEW w \in Workers
               PROVE  /\ claim'[w] \in Claims \cup {NONE} /\ (claim'[w] = NONE <=> claim[w] = NONE)
                      /\ claim[w] # NONE =>
                           claim'[w].run = claim[w].run /\ claim'[w].fence = claim[w].fence
    OBVIOUS
  <2>1. CASE claim[w] = NONE
    BY <2>1 DEF Tick
  <2>2. CASE claim[w] # NONE
    <3>1. claim[w] \in Claims
      BY <2>2 DEF IInv, TypeOK
    <3> DEFINE c == [claim[w] EXCEPT !.clock = @ - 1]
    <3>2. claim[w].clock > Floor - Lease => c \in Claims /\ c.run = claim[w].run /\ c.fence = claim[w].fence
      BY <3>1, ClockAssumption DEF Claims, Floor
    <3>4. NONE \notin Claims
      BY NoneAssumption DEF Claims
    <3>3. claim'[w] = IF claim[w].clock > Floor - Lease THEN c ELSE claim[w]
      BY <2>2 DEF Tick
    <3> HIDE DEF c
    <3> QED
      BY <2>2, <3>1, <3>2, <3>3, <3>4
  <2> QED
    BY <2>1, <2>2
<1>3. TypeOK'
  BY <1>1, <1>2 DEF Tick, IInv, TypeOK
<1>4. LeaseColumnsAgree'
  BY <1>1 DEF Tick, IInv, LeaseColumnsAgree
<1>5. ClaimReadsHold'
  BY <1>2 DEF Tick, IInv, ClaimReadsHold
<1>q. QuietRows /\ QuietJournal
  BY DEF Tick, QuietRows, QuietJournal
<1> QED
  BY <1>3, <1>4, <1>5, <1>q, QuietStepKeepsIInv

-----------------------------------------------------------------------------
(* The empty tables satisfy the invariant. *)
LEMMA InitIInv == ASSUME Init PROVE IInv
BY DEF Init, IInv, TypeOK, LeaseColumnsAgree, AttemptsMatchFences, ClaimReadsHold,
       ReleasesAreOfIssuedFences, OutcomeIsJournaledOnce, AttemptReleasesOnce, EventsOf,
       Absent, RunRows, States, Active, Terminal, TTLs

(* Every method a lease is handed to keeps the invariant, for every lease  *)
(* ever issued.                                                            *)
LEMMA LeaseCallKeepsIInv ==
    ASSUME IInv, NEW a \in attempts, LeaseCall(a)
    PROVE  IInv'
<1>0. a.fence # 0 /\ NONE \notin Reasons
  BY NoneAssumption DEF IInv, AttemptsMatchFences
<1>1. CASE StartRun(a)
  BY <1>0, <1>1, TransitionKeepsIInv DEF StartRun
<1>2. ASSUME NEW reason \in Reasons, Wait(a, reason) PROVE IInv'
  BY <1>0, <1>2, TransitionKeepsIInv DEF Wait, Releases
<1>3. CASE Complete(a)
  BY <1>0, <1>3, TransitionKeepsIInv DEF Complete, Releases
<1>4. ASSUME NEW error \in Errors, NEW retryable \in BOOLEAN, Fail(a, error, retryable)
      PROVE  IInv'
  BY <1>0, <1>4, TransitionKeepsIInv DEF Fail, Releases
<1>5. ASSUME NEW d \in Drifts, Heartbeat(a, d) PROVE IInv'
  BY <1>5, HeartbeatKeepsIInv
<1>6. CASE Checkpoint(a)
  BY <1>6, CheckpointKeepsIInv
<1> QED
  BY <1>1, <1>2, <1>3, <1>4, <1>5, <1>6 DEF LeaseCall

(* The invariant is inductive: every method and every tick keeps it. *)
LEMMA NextKeepsIInv == IInv /\ [Next]_vars => IInv'
<1> SUFFICES ASSUME IInv, [Next]_vars PROVE IInv'
  OBVIOUS
<1>1. ASSUME NEW r \in Runs, CreateRun(r) PROVE IInv'
  BY <1>1, CreateRunKeepsIInv
<1>2. ASSUME NEW r \in Runs, ResumeRun(r) PROVE IInv'
  BY <1>2, ResumeRunKeepsIInv
<1>3. ASSUME NEW w \in Workers, NEW r \in Runs, NEW d \in Drifts, ClaimSelect(w, r, d)
      PROVE  IInv'
  BY <1>3, ClaimSelectKeepsIInv
<1>4. ASSUME NEW w \in Workers, ClaimCommit(w) PROVE IInv'
  BY <1>4, ClaimCommitKeepsIInv
<1>5. ASSUME NEW w \in Workers, ClaimAbort(w) PROVE IInv'
  BY <1>5, ClaimAbortKeepsIInv
<1>6. ASSUME NEW a \in attempts, LeaseCall(a) PROVE IInv'
  BY <1>6, LeaseCallKeepsIInv
<1>7. ASSUME NEW r \in Runs, NEW key \in Notes, NEW value \in Errors,
             AppendRunEvent(r, key, value)
      PROVE  IInv'
  BY <1>7, AppendRunEventKeepsIInv
<1>8. CASE Tick
  BY <1>8, TickKeepsIInv
<1>9. CASE UNCHANGED vars
  BY <1>9 DEF vars, IInv, TypeOK, LeaseColumnsAgree, AttemptsMatchFences, ClaimReadsHold,
              ReleasesAreOfIssuedFences, OutcomeIsJournaledOnce, AttemptReleasesOnce, EventsOf
<1> QED
  BY <1>1, <1>2, <1>3, <1>4, <1>5, <1>6, <1>7, <1>8, <1>9 DEF Next

(* The inductive invariant holds of every behaviour of the repository. *)
THEOREM RepositoryInvariant == Spec => []IInv
BY InitIInv, NextKeepsIInv, PTL DEF Spec

(* Every variable of the repository keeps its type. *)
THEOREM RepositoryTypes == Spec => []TypeOK
<1>1. IInv => TypeOK
  BY DEF IInv
<1> QED
  BY <1>1, RepositoryInvariant, PTL

(* The lease columns of every row agree, so that a call guarded by owner   *)
(* and fence alone never moves a queued, waiting or finished run.          *)
THEOREM LeaseColumnsAlwaysAgree == Spec => []LeaseColumnsAgree
<1>1. IInv => LeaseColumnsAgree
  BY DEF IInv
<1> QED
  BY <1>1, RepositoryInvariant, PTL

(* No attempt gives its run back twice. *)
THEOREM AttemptsReleaseOnce == Spec => []AttemptReleasesOnce
<1>1. IInv => AttemptReleasesOnce
  BY DEF IInv
<1> QED
  BY <1>1, RepositoryInvariant, PTL

(* Attempts and fences of a run correspond one to one: no lease is issued  *)
(* twice, and none is lost.                                                *)
THEOREM AttemptsAlwaysMatchFences == Spec => []AttemptsMatchFences
<1>1. IInv => AttemptsMatchFences
  BY DEF IInv
<1> QED
  BY <1>1, RepositoryInvariant, PTL

(* The row a claim locked is still the row it read when it writes. *)
THEOREM ClaimReadsAlwaysHold == Spec => []ClaimReadsHold
<1>1. IInv => ClaimReadsHold
  BY DEF IInv
<1> QED
  BY <1>1, RepositoryInvariant, PTL

(* A run has one outcome, of its last attempt, and the journal tells it. *)
THEOREM OneOutcome == Spec => []OutcomeIsJournaledOnce
<1>1. IInv => OutcomeIsJournaledOnce
  BY DEF IInv
<1> QED
  BY <1>1, RepositoryInvariant, PTL

(* All that the tables say of a run agrees, at every moment. *)
THEOREM RowsAlwaysAgree == Spec => []RowsAgree
<1>1. IInv => RowsAgree
  BY DEF IInv, RowsAgree
<1> QED
  BY <1>1, RepositoryInvariant, PTL

(* The journal tells one outcome of a run and one release of an attempt. *)
THEOREM JournalAlwaysTellsTheRun == Spec => []JournalTellsTheRun
<1>1. IInv => JournalTellsTheRun
  BY DEF IInv, JournalTellsTheRun
<1> QED
  BY <1>1, RepositoryInvariant, PTL

-----------------------------------------------------------------------------
(* How one step may change one run, as the methods' guards and assignments *)
(* leave it: the state before and after, whether the fence advances, and   *)
(* that no move of a lease touches the checkpoint.                         *)
RowMove(r, from, to, bump) ==
    /\ runs[r].state \in from /\ runs'[r].state \in to
    /\ runs'[r].fence = runs[r].fence + bump
    /\ runs'[r].revision = runs[r].revision /\ runs'[r].checkpoint = runs[r].checkpoint
    /\ \A q \in Runs : q # r => runs'[q] = runs[q]

RepositoryMove(r) ==
    \/ RowMove(r, {"absent"}, {"queued"}, 0) /\ SlotFree(r)
    \/ RowMove(r, Active \cup {"queued"}, {"leased"}, 1)
    \/ RowMove(r, Active, {"running"} \cup Releases, 0)
    \/ RowMove(r, {"waiting"}, {"queued"}, 0)

RowsKeepStateAndFence ==
    \A r \in Runs : /\ runs'[r].state = runs[r].state /\ runs'[r].fence = runs[r].fence
                    /\ runs[r].state \in Terminal => runs'[r] = runs[r]
                    /\ \/ runs'[r].revision = runs[r].revision /\ runs'[r].checkpoint = runs[r].checkpoint
                       \/ /\ runs'[r].revision > runs[r].revision /\ runs'[r].checkpoint = runs[r].fence
                          /\ runs[r].owner # NONE

(* _transition moves exactly one run, which was held, and no fence. *)
LEMMA TransitionMoves ==
    ASSUME IInv, NEW a \in attempts, NEW state \in {"running"} \cup Releases,
           NEW reason, NEW error, NEW result, Transition(a, state, reason, error, result)
    PROVE  a.run \in Runs /\ RowMove(a.run, Active, {"running"} \cup Releases, 0)
<1>1. /\ a.run \in Runs /\ a.worker # NONE /\ runs[a.run].owner = a.worker
      /\ runs[a.run] \in RunRows /\ runs \in [Runs -> RunRows]
  BY NoneAssumption DEF IInv, TypeOK, Attempts, Transition, Owns
<1>2. runs[a.run].state \in Active
  BY <1>1 DEF IInv, LeaseColumnsAgree
<1> DEFINE row == [runs[a.run] EXCEPT !.state = state,
                                      !.owner = IF state \in Releases THEN NONE ELSE a.worker,
                                      !.reason = reason,
                                      !.result = IF result = 0 THEN runs[a.run].result ELSE result,
                                      !.error = error]
<1>3. runs' = [runs EXCEPT ![a.run] = row]
  BY DEF Transition
<1>4. /\ row.state = state /\ row.fence = runs[a.run].fence /\ runs[a.run].fence \in Nat
      /\ row.revision = runs[a.run].revision /\ row.checkpoint = runs[a.run].checkpoint
  BY <1>1 DEF RunRows
<1> HIDE DEF row
<1> QED
  BY <1>1, <1>2, <1>3, <1>4 DEF RowMove

(* Every method moves at most one run, along an edge of the state machine. *)
LEMMA EveryStepMovesOneRun ==
    ASSUME IInv, [Next]_vars
    PROVE  RowsKeepStateAndFence \/ \E r \in Runs : RepositoryMove(r)
<1>1. ASSUME NEW r \in Runs, CreateRun(r)
      PROVE  RowMove(r, {"absent"}, {"queued"}, 0) /\ SlotFree(r)
  BY <1>1 DEF CreateRun, RowMove, IInv, TypeOK, RunRows
<1>2. ASSUME NEW r \in Runs, ResumeRun(r) PROVE RowMove(r, {"waiting"}, {"queued"}, 0)
  BY <1>2 DEF ResumeRun, RowMove, IInv, TypeOK, RunRows
<1>3. ASSUME NEW w \in Workers, ClaimCommit(w)
      PROVE  \E r \in Runs : RowMove(r, Active \cup {"queued"}, {"leased"}, 1)
  <2> DEFINE q == claim[w].run
  <2>1. /\ q \in Runs /\ runs[q] \in RunRows /\ runs \in [Runs -> RunRows]
        /\ runs[q].fence = claim[w].fence /\ runs[q].state \in Active \cup {"queued"}
    BY <1>3 DEF ClaimCommit, IInv, TypeOK, ClaimReadsHold, Claims
  <2> DEFINE row == [runs[q] EXCEPT !.state = "leased", !.owner = w, !.fence = claim[w].fence + 1]
  <2>2. runs' = [runs EXCEPT ![q] = row]
    BY <1>3, <2>1 DEF ClaimCommit, RunRows
  <2>3. /\ row.state = "leased" /\ row.fence = runs[q].fence + 1
        /\ row.revision = runs[q].revision /\ row.checkpoint = runs[q].checkpoint
    BY <2>1 DEF RunRows
  <2> HIDE DEF row
  <2> QED
    BY <2>1, <2>2, <2>3 DEF RowMove
<1>4. ASSUME NEW a \in attempts, LeaseCall(a)
      PROVE  RowsKeepStateAndFence \/ \E r \in Runs : RepositoryMove(r)
  <2>1. CASE StartRun(a)
    BY <2>1, TransitionMoves DEF StartRun, RepositoryMove
  <2>2. ASSUME NEW reason \in Reasons, Wait(a, reason) PROVE \E r \in Runs : RepositoryMove(r)
    BY <2>2, TransitionMoves DEF Wait, RepositoryMove, Releases
  <2>3. CASE Complete(a)
    BY <2>3, TransitionMoves DEF Complete, RepositoryMove, Releases
  <2>4. ASSUME NEW error \in Errors, NEW retryable \in BOOLEAN, Fail(a, error, retryable)
        PROVE  \E r \in Runs : RepositoryMove(r)
    BY <2>4, TransitionMoves DEF Fail, RepositoryMove, Releases
  <2>5. ASSUME NEW d \in Drifts, Heartbeat(a, d) PROVE RowsKeepStateAndFence
    BY <2>5 DEF Heartbeat, RowsKeepStateAndFence
  <2>6. CASE Checkpoint(a)
    <3>1. a.run \in Runs /\ runs[a.run] \in RunRows /\ runs[a.run].owner # NONE
      BY <2>6, NoneAssumption DEF Checkpoint, Owns, IInv, TypeOK, Attempts
    <3> QED
      BY <2>6, <3>1 DEF Checkpoint, Save, Owns, RowsKeepStateAndFence, IInv, TypeOK, RunRows, Active, Terminal
  <2> QED
    BY <1>4, <2>1, <2>2, <2>3, <2>4, <2>5, <2>6 DEF LeaseCall
<1>5. runs' = runs => RowsKeepStateAndFence
  BY DEF RowsKeepStateAndFence
<1>6. ASSUME NEW w \in Workers, NEW r \in Runs, NEW d \in Drifts, ClaimSelect(w, r, d)
      PROVE  runs' = runs
  BY <1>6 DEF ClaimSelect
<1>7. ASSUME NEW w \in Workers, ClaimAbort(w) PROVE runs' = runs
  BY <1>7 DEF ClaimAbort
<1>8. ASSUME NEW r \in Runs, NEW key \in Notes, NEW value \in Errors,
             AppendRunEvent(r, key, value)
      PROVE  runs' = runs
  BY <1>8 DEF AppendRunEvent
<1>9. Tick \/ UNCHANGED vars => runs' = runs
  BY DEF Tick, vars
<1> QED
  BY <1>1, <1>2, <1>3, <1>4, <1>5, <1>6, <1>7, <1>8, <1>9 DEF Next, RepositoryMove

(* A finished run never changes again, whoever comes back late. *)
THEOREM FinishedIsFinal == Spec => FinishedStaysFinished
<1>1. IInv /\ [Next]_vars =>
        \A r \in Runs : runs[r].state \in Terminal => runs'[r] = runs[r]
  <2> SUFFICES ASSUME IInv, [Next]_vars, NEW q \in Runs, runs[q].state \in Terminal
               PROVE  runs'[q] = runs[q]
    OBVIOUS
  <2>1. ASSUME NEW r \in Runs, RepositoryMove(r) PROVE runs'[q] = runs[q]
    BY <2>1 DEF RepositoryMove, RowMove, Terminal, Active
  <2>2. RowsKeepStateAndFence \/ \E r \in Runs : RepositoryMove(r)
    BY EveryStepMovesOneRun
  <2>3. CASE RowsKeepStateAndFence
    BY <2>3 DEF RowsKeepStateAndFence
  <2> QED
    BY <2>1, <2>2, <2>3
<1> QED
  BY <1>1, RepositoryInvariant, PTL DEF Spec, FinishedStaysFinished

(* What is saved was saved by an attempt there has been. *)
SavedByAttempts == \A r \in Runs : runs[r].checkpoint <= runs[r].fence

LEMMA StepsKeepSaved == IInv /\ SavedByAttempts /\ [Next]_vars => SavedByAttempts'
<1> SUFFICES ASSUME IInv, SavedByAttempts, [Next]_vars, NEW q \in Runs
             PROVE  runs'[q].checkpoint <= runs'[q].fence
  BY DEF SavedByAttempts
<1>1. /\ runs[q].checkpoint \in Nat /\ runs[q].fence \in Nat /\ runs[q].checkpoint <= runs[q].fence
      /\ runs'[q].checkpoint \in Nat /\ runs'[q].fence \in Nat
  BY NextKeepsIInv DEF IInv, TypeOK, RunRows, SavedByAttempts
<1>2. ASSUME NEW r \in Runs, RepositoryMove(r) PROVE runs'[q].checkpoint <= runs'[q].fence
  <2>1. runs'[q].checkpoint = runs[q].checkpoint
    BY <1>2 DEF RepositoryMove, RowMove
  <2>2. runs'[q].fence = runs[q].fence \/ runs'[q].fence = runs[q].fence + 1 \/ runs'[q].fence = runs[q].fence + 0
    BY <1>2 DEF RepositoryMove, RowMove
  <2> QED
    BY <1>1, <2>1, <2>2
<1>3. CASE RowsKeepStateAndFence
  BY <1>1, <1>3 DEF RowsKeepStateAndFence
<1> QED
  BY <1>2, <1>3, EveryStepMovesOneRun

(* No claim, wait, retry or resume loses or rewinds a checkpoint: what is  *)
(* saved replaces it only if it is of the current fence, of a run that is  *)
(* held, so that no older attempt overwrites what a newer one saved.       *)
THEOREM ProgressIsKept == Spec => ProgressKept
<1> DEFINE Kept(r) == /\ runs'[r].revision >= runs[r].revision
                      /\ runs'[r].checkpoint >= runs[r].checkpoint
                      /\ runs'[r].revision # runs[r].revision \/ runs'[r].checkpoint # runs[r].checkpoint =>
                            /\ runs[r].owner # NONE /\ runs'[r].fence = runs[r].fence
                            /\ runs'[r].checkpoint = runs[r].fence
           AllKept == \A r \in Runs : Kept(r)
<1>1. IInv /\ SavedByAttempts /\ [Next]_vars => AllKept
  <2> SUFFICES ASSUME IInv, SavedByAttempts, [Next]_vars, NEW q \in Runs PROVE Kept(q)
    OBVIOUS
  <2>1. /\ runs[q].revision \in Nat /\ runs'[q].revision \in Nat
        /\ runs[q].checkpoint \in Nat /\ runs[q].fence \in Nat /\ runs[q].checkpoint <= runs[q].fence
    BY NextKeepsIInv DEF IInv, TypeOK, RunRows, SavedByAttempts
  <2>2. ASSUME NEW r \in Runs, RepositoryMove(r)
        PROVE  runs'[q].revision = runs[q].revision /\ runs'[q].checkpoint = runs[q].checkpoint
    BY <2>2 DEF RepositoryMove, RowMove
  <2>3. CASE RowsKeepStateAndFence
    BY <2>1, <2>3 DEF RowsKeepStateAndFence
  <2>4. RowsKeepStateAndFence \/ \E r \in Runs : RepositoryMove(r)
    BY EveryStepMovesOneRun
  <2> QED
    BY <2>1, <2>2, <2>3, <2>4
<1>2. ProgressKept <=> [][AllKept]_vars
  BY DEF ProgressKept
<1>3. Init => SavedByAttempts
  BY DEF Init, Absent, SavedByAttempts
<1>4. IInv /\ SavedByAttempts /\ [Next]_vars => SavedByAttempts'
  BY StepsKeepSaved
<1> HIDE DEF AllKept
<1> QED
  BY <1>1, <1>2, <1>3, <1>4, RepositoryInvariant, PTL DEF Spec

Unfinished(r) == runs[r].state \notin Terminal \cup {"absent"}

(* A step opens no run in a taken slot: a run that was not open before can *)
(* only have been created, under the unique index.                         *)
LEMMA NextKeepsOneMainRun == IInv /\ OneMainRun /\ [Next]_vars => OneMainRun'
<1> SUFFICES ASSUME IInv, OneMainRun, [Next]_vars PROVE OneMainRun'
  OBVIOUS
<1>1. RowsKeepStateAndFence \/ \E r \in Runs : RepositoryMove(r)
  BY EveryStepMovesOneRun
<1>2. CASE RowsKeepStateAndFence
  BY <1>2 DEF RowsKeepStateAndFence, OneMainRun
<1>3. ASSUME NEW r \in Runs, RepositoryMove(r) PROVE OneMainRun'
  <2>1. \A q \in Runs : q # r => runs'[q].state = runs[q].state
    BY <1>3 DEF RepositoryMove, RowMove
  <2>2. CASE Unfinished(r)
    BY <2>1, <2>2 DEF OneMainRun, Unfinished
  <2>3. CASE ~Unfinished(r)
    <3>1. SlotFree(r)
      BY <1>3, <2>3 DEF RepositoryMove, RowMove, Unfinished, Active, Terminal
    <3>2. \A q \in Runs : SlotOf[r] # NONE /\ SlotOf[q] = SlotOf[r] => ~Unfinished(q)
      BY <3>1 DEF SlotFree, Occupying, Unfinished, IInv, TypeOK, RunRows, States, Terminal
    <3> QED
      BY <2>1, <3>2 DEF OneMainRun, Unfinished
  <2> QED
    BY <2>2, <2>3
<1> QED
  BY <1>1, <1>2, <1>3

(* One conversation and bot never have two runs that are not finished.     *)
THEOREM OneMainRunAlways == Spec => []OneMainRun
<1>1. Init => OneMainRun
  BY DEF Init, Absent, OneMainRun
<1> QED
  BY <1>1, NextKeepsOneMainRun, RepositoryInvariant, PTL DEF Spec

-----------------------------------------------------------------------------
(* The repository implements the abstract lease. *)

Settler(r) == IF runs[r].state \in Terminal THEN runs[r].fence ELSE 0

SettlersAgree == \A r \in Runs : OutcomeFence(r) = Settler(r)

(* The fence the journal names is the fence of the finished row. *)
LEMMA OutcomeFenceIsSettler ==
    OutcomeIsJournaledOnce => SettlersAgree
<1> SUFFICES ASSUME OutcomeIsJournaledOnce, NEW r \in Runs
             PROVE  OutcomeFence(r) = Settler(r)
  BY DEF SettlersAgree
<1>1. CASE EventsOf(r, Terminal) = {}
  BY <1>1 DEF OutcomeIsJournaledOnce, OutcomeFence, Settler
<1>2. CASE EventsOf(r, Terminal) # {}
  <2>1. PICK e \in EventsOf(r, Terminal) : TRUE
    BY <1>2
  <2>2. \A d \in EventsOf(r, Terminal) : d = e
    BY <2>1 DEF OutcomeIsJournaledOnce
  <2>3. (CHOOSE d \in EventsOf(r, Terminal) : TRUE) = e
    BY <2>1, <2>2
  <2>4. runs[r].state \in Terminal /\ runs[r].fence = e.fence
    BY <2>1 DEF OutcomeIsJournaledOnce, EventsOf
  <2> QED
    BY <1>2, <2>3, <2>4 DEF OutcomeFence, Settler
<1> QED
  BY <1>1, <1>2

AbstractPhase == [r \in Runs |-> PhaseOf(runs[r].state)]
AbstractToken == [r \in Runs |-> runs[r].fence]
AbstractSettledBy == [r \in Runs |-> OutcomeFence(r)]

(* A move of one run is an assignment to one entry of each abstract variable. *)
LEMMA MoveIsPointwise ==
    ASSUME IInv, OutcomeIsJournaledOnce', NEW r \in Runs, NEW from, NEW to, NEW bump,
           RowMove(r, from, to, bump)
    PROVE  /\ AbstractPhase' = [AbstractPhase EXCEPT ![r] = PhaseOf(runs[r].state)']
           /\ AbstractToken' = [AbstractToken EXCEPT ![r] = runs[r].fence + bump]
           /\ AbstractSettledBy' = [AbstractSettledBy EXCEPT ![r] = Settler(r)']
<1>1. \A q \in Runs : OutcomeFence(q) = Settler(q) /\ OutcomeFence(q)' = Settler(q)'
  <2>1. SettlersAgree
    BY OutcomeFenceIsSettler DEF IInv
  <2>2. SettlersAgree'
    BY OutcomeFenceIsSettler, PTL
  <2> QED
    BY <2>1, <2>2 DEF SettlersAgree
<1>2. \A q \in Runs : q # r => /\ PhaseOf(runs[q].state)' = PhaseOf(runs[q].state)
                               /\ Settler(q)' = Settler(q) /\ runs'[q].fence = runs[q].fence
  BY DEF RowMove, PhaseOf, Settler
<1> QED
  BY <1>1, <1>2 DEF RowMove, AbstractPhase, AbstractToken, AbstractSettledBy

(* Which step of the abstract lease each move is. *)
LEMMA MoveIsAbstractStep ==
    ASSUME IInv, OutcomeIsJournaledOnce', NEW r \in Runs, RepositoryMove(r)
    PROVE  Fencing!FNext \/ UNCHANGED Fencing!fvars
<1> DEFINE before == runs[r].state
           after == runs'[r].state
<1>1. /\ AbstractToken \in [Runs -> Nat] /\ AbstractToken[r] = runs[r].fence
      /\ AbstractSettledBy \in [Runs -> Nat] /\ AbstractSettledBy[r] = Settler(r)
      /\ AbstractPhase[r] = PhaseOf(before)
  BY OutcomeFenceIsSettler
     DEF IInv, TypeOK, RunRows, SettlersAgree, Settler, AbstractToken, AbstractSettledBy,
         AbstractPhase
<1>2. ASSUME NEW from, NEW to, RowMove(r, from, to, 0)
      PROVE  AbstractToken' = AbstractToken
  <2>1. AbstractToken' = [AbstractToken EXCEPT ![r] = runs[r].fence + 0]
    BY <1>2, MoveIsPointwise
  <2> QED
    BY <1>1, <2>1
<1>3. ASSUME NEW from, NEW to, NEW bump, RowMove(r, from, to, bump),
             before \notin Terminal, after \notin Terminal
      PROVE  AbstractSettledBy' = AbstractSettledBy
  <2>1. AbstractSettledBy' = [AbstractSettledBy EXCEPT ![r] = Settler(r)']
    BY <1>3, MoveIsPointwise
  <2>2. Settler(r) = 0 /\ Settler(r)' = 0
    BY <1>3 DEF Settler
  <2> QED
    BY <1>1, <2>1, <2>2
<1>4. ASSUME NEW from, NEW to, NEW bump, RowMove(r, from, to, bump)
      PROVE  AbstractPhase' = [AbstractPhase EXCEPT ![r] = PhaseOf(after)]
  <2>1. AbstractPhase' = [AbstractPhase EXCEPT ![r] = PhaseOf(runs[r].state)']
    BY <1>4, MoveIsPointwise
  <2> QED
    BY <2>1 DEF PhaseOf
<1> USE DEF Fencing!Move, AbstractPhase, AbstractToken, AbstractSettledBy
<1>5. CASE RowMove(r, {"absent"}, {"queued"}, 0)
  <2>1. before = "absent" /\ after = "queued"
    BY <1>5 DEF RowMove
  <2>2. PhaseOf(before) = "absent" /\ PhaseOf(after) = "idle"
    BY <2>1 DEF PhaseOf, Active
  <2>3. Fencing!Open(r)
    BY <1>1, <1>2, <1>3, <1>4, <1>5, <2>1, <2>2 DEF Fencing!Open, Terminal
  <2> QED
    BY <2>3 DEF Fencing!FNext
<1>6. CASE RowMove(r, Active \cup {"queued"}, {"leased"}, 1)
  <2>1. before \in Active \cup {"queued"} /\ after = "leased"
    BY <1>6 DEF RowMove
  <2>2. PhaseOf(before) \in {"idle", "held"} /\ PhaseOf(after) = "held"
    BY <2>1 DEF PhaseOf, Active
  <2>3. AbstractToken' = [AbstractToken EXCEPT ![r] = AbstractToken[r] + 1]
    BY <1>1, <1>6, MoveIsPointwise
  <2>4. Fencing!Grant(r)
    BY <1>1, <1>3, <1>4, <1>6, <2>1, <2>2, <2>3 DEF Fencing!Grant, Terminal, Active
  <2> QED
    BY <2>4 DEF Fencing!FNext
<1>7. CASE RowMove(r, Active, {"running"} \cup Releases, 0)
  <2>1. before \in Active /\ PhaseOf(before) = "held" /\ before \notin Terminal
    BY <1>7 DEF RowMove, PhaseOf, Active, Terminal
  <2>2. CASE after = "running"
    <3>1. PhaseOf(after) = AbstractPhase[r] /\ after \notin Terminal
      BY <1>1, <2>1, <2>2 DEF PhaseOf, Active, Terminal
    <3>2. AbstractPhase' = AbstractPhase
      BY <1>4, <1>7, <3>1
    <3> QED
      BY <1>2, <1>3, <1>7, <2>1, <3>1, <3>2 DEF Fencing!fvars
  <2>3. CASE after = "queued"
    <3>1. PhaseOf(after) = "idle" /\ after \notin Terminal
      BY <2>3 DEF PhaseOf, Active, Terminal
    <3>2. Fencing!Requeue(r)
      BY <1>1, <1>2, <1>3, <1>4, <1>7, <2>1, <3>1 DEF Fencing!Requeue
    <3> QED
      BY <3>2 DEF Fencing!FNext
  <2>4. CASE after = "waiting"
    <3>1. PhaseOf(after) = "parked" /\ after \notin Terminal
      BY <2>4 DEF PhaseOf, Active, Terminal
    <3>2. Fencing!Park(r)
      BY <1>1, <1>2, <1>3, <1>4, <1>7, <2>1, <3>1 DEF Fencing!Park
    <3> QED
      BY <3>2 DEF Fencing!FNext
  <2>5. CASE after \in Terminal
    <3>1. PhaseOf(after) = "settled"
      BY <2>5 DEF PhaseOf, Active, Terminal
    <3>2. AbstractSettledBy' = [AbstractSettledBy EXCEPT ![r] = AbstractToken[r]]
      <4>1. Settler(r)' = runs[r].fence
        BY <1>7, <2>5 DEF Settler, RowMove, IInv, TypeOK, RunRows
      <4> QED
        BY <1>1, <1>7, <4>1, MoveIsPointwise
    <3>3. Fencing!Settle(r)
      BY <1>1, <1>2, <1>4, <1>7, <2>1, <3>1, <3>2 DEF Fencing!Settle
    <3> QED
      BY <3>3 DEF Fencing!FNext
  <2> QED
    BY <1>7, <2>2, <2>3, <2>4, <2>5 DEF RowMove, Releases, Terminal
<1>8. CASE RowMove(r, {"waiting"}, {"queued"}, 0)
  <2>1. before = "waiting" /\ after = "queued"
    BY <1>8 DEF RowMove
  <2>2. PhaseOf(before) = "parked" /\ PhaseOf(after) = "idle"
    BY <2>1 DEF PhaseOf, Active
  <2>3. Fencing!Wake(r)
    BY <1>1, <1>2, <1>3, <1>4, <1>8, <2>1, <2>2 DEF Fencing!Wake, Terminal
  <2> QED
    BY <2>3 DEF Fencing!FNext
<1> QED
  BY <1>5, <1>6, <1>7, <1>8 DEF RepositoryMove

(* The repository implements the abstract lease: one holder at a time,     *)
(* growing tokens, and at most one outcome, given by the newest token.     *)
THEOREM RepositoryImplementsLeaseFence == Spec => ImplementsLeaseFence
<1>1. Init => Fencing!FInit
  <2> SUFFICES ASSUME Init PROVE Fencing!FInit
    OBVIOUS
  <2>1. \A r \in Runs : runs[r].state = "absent" /\ runs[r].fence = 0
    BY DEF Init, Absent
  <2>2. \A r \in Runs : OutcomeFence(r) = 0
    BY DEF Init, OutcomeFence, EventsOf
  <2>3. PhaseOf("absent") = "absent"
    BY DEF PhaseOf, Active
  <2>4. \A r \in Runs : PhaseOf(runs[r].state) = "absent"
    BY <2>1, <2>3
  <2> QED
    BY <2>1, <2>2, <2>4 DEF Fencing!FInit
<1>2. IInv /\ IInv' /\ [Next]_vars => [Fencing!FNext]_(Fencing!fvars)
  <2> SUFFICES ASSUME IInv, IInv', [Next]_vars
               PROVE  Fencing!FNext \/ UNCHANGED Fencing!fvars
    OBVIOUS
  <2>1. OutcomeIsJournaledOnce'
    BY DEF IInv
  <2>2. ASSUME NEW r \in Runs, RepositoryMove(r)
        PROVE  Fencing!FNext \/ UNCHANGED Fencing!fvars
    BY <2>1, <2>2, MoveIsAbstractStep
  <2>3. CASE RowsKeepStateAndFence
    <3>1. SettlersAgree
      BY OutcomeFenceIsSettler DEF IInv
    <3>2. SettlersAgree'
      BY <2>1, OutcomeFenceIsSettler, PTL
    <3>3. \A r \in Runs : /\ PhaseOf(runs[r].state)' = PhaseOf(runs[r].state)
                          /\ runs'[r].fence = runs[r].fence
                          /\ OutcomeFence(r)' = OutcomeFence(r)
      BY <2>3, <3>1, <3>2 DEF RowsKeepStateAndFence, PhaseOf, Settler, SettlersAgree
    <3> QED
      BY <3>3 DEF Fencing!fvars
  <2> QED
    BY <2>2, <2>3, EveryStepMovesOneRun
<1> QED
  BY <1>1, <1>2, RepositoryInvariant, PTL DEF Spec, ImplementsLeaseFence, Fencing!FSpec

-----------------------------------------------------------------------------
(* Deadlines.  A claim that is open on a held run found its lease run out, *)
(* by a clock at most Ahead fast, and nobody renews it meanwhile: a        *)
(* heartbeat needs the row the claim has locked.                           *)
ClaimIsDue(r) == runs[r].state \in Active => ttl[r] \in Int /\ ttl[r] <= Ahead

ClaimsAreDue == \A w \in Workers : claim[w] # NONE => ClaimIsDue(claim[w].run)

(* A step that opens no claim, and touches neither the state nor the       *)
(* deadline of a locked run except to let it run down.                     *)
LEMMA LockedRunsStayDue ==
    ASSUME IInv, ClaimsAreDue,
           \A w \in Workers : claim'[w] # NONE => claim[w] # NONE /\ claim'[w].run = claim[w].run,
           \A r \in Runs : \/ \A w \in Workers : claim'[w] # NONE => claim'[w].run # r
                           \/ runs'[r].state \notin Active
                           \/ /\ runs'[r].state = runs[r].state
                              /\ ttl'[r] = ttl[r] \/ (ttl[r] \in Int /\ ttl'[r] = ttl[r] - 1)
    PROVE  ClaimsAreDue'
<1> SUFFICES ASSUME NEW w \in Workers, claim'[w] # NONE, NEW q, q = claim'[w].run,
                    runs'[q].state \in Active
             PROVE  ttl'[q] \in Int /\ ttl'[q] <= Ahead
  BY DEF ClaimsAreDue, ClaimIsDue
<1>1. claim[w] # NONE /\ claim[w].run = q
  OBVIOUS
<1>2. q \in Runs
  BY <1>1 DEF IInv, TypeOK, Claims
<1>3. runs[q].state \in Active /\ (ttl'[q] = ttl[q] \/ (ttl[q] \in Int /\ ttl'[q] = ttl[q] - 1))
  BY <1>2
<1>4. ttl[q] \in Int /\ ttl[q] <= Ahead
  BY <1>1, <1>3 DEF ClaimsAreDue, ClaimIsDue
<1> QED
  BY <1>3, <1>4, ClockAssumption

(* A guarded update, or one by a claim, of a run no other claim has locked. *)
LEMMA UpdateKeepsClaimsDue ==
    ASSUME IInv, ClaimsAreDue, NEW r \in Runs, UNCHANGED claim, Unlocked(r),
           \A q \in Runs : q # r => runs'[q] = runs[q] /\ ttl'[q] = ttl[q]
    PROVE  ClaimsAreDue'
<1>1. \A w \in Workers : claim'[w] # NONE => claim[w] # NONE /\ claim'[w].run = claim[w].run
  OBVIOUS
<1>2. \A w \in Workers : claim'[w] # NONE => claim'[w].run # r
  BY DEF Unlocked
<1> QED
  BY <1>1, <1>2, LockedRunsStayDue

LEMMA LeaseCallKeepsClaimsDue ==
    ASSUME IInv, ClaimsAreDue, NEW a \in attempts, LeaseCall(a)
    PROVE  ClaimsAreDue'
<1>1. a.run \in Runs
  BY DEF IInv, TypeOK, Attempts
<1>2. ASSUME NEW state, NEW reason, NEW error, NEW result, Transition(a, state, reason, error, result)
      PROVE  UNCHANGED claim /\ Unlocked(a.run) /\ \A q \in Runs : q # a.run => runs'[q] = runs[q] /\ ttl'[q] = ttl[q]
  <2>1. PICK row, left : runs' = [runs EXCEPT ![a.run] = row] /\ ttl' = [ttl EXCEPT ![a.run] = left]
    BY <1>2 DEF Transition
  <2> QED
    BY <1>2, <2>1 DEF Transition, IInv, TypeOK
<1>3. CASE \/ StartRun(a) \/ Complete(a)
           \/ \E reason \in Reasons : Wait(a, reason)
           \/ \E error \in Errors, retryable \in BOOLEAN : Fail(a, error, retryable)
  BY <1>1, <1>2, <1>3, UpdateKeepsClaimsDue DEF StartRun, Complete, Wait, Fail
<1>4. ASSUME NEW d \in Drifts, Heartbeat(a, d) PROVE ClaimsAreDue'
  BY <1>1, <1>4, UpdateKeepsClaimsDue DEF Heartbeat, IInv, TypeOK
<1>5. CASE Checkpoint(a)
  BY <1>1, <1>5, UpdateKeepsClaimsDue DEF Checkpoint, Save, IInv, TypeOK
<1> QED
  BY <1>3, <1>4, <1>5 DEF LeaseCall

LEMMA StepsKeepClaimsDue == IInv /\ ClaimsAreDue /\ [Next]_vars => ClaimsAreDue'
<1> SUFFICES ASSUME IInv, ClaimsAreDue, [Next]_vars PROVE ClaimsAreDue'
  OBVIOUS
<1>1. ASSUME NEW r \in Runs, CreateRun(r) PROVE ClaimsAreDue'
  <2>1. /\ UNCHANGED <<ttl, claim>> /\ runs'[r].state = "queued"
        /\ \A q \in Runs : q # r => runs'[q] = runs[q]
    BY <1>1 DEF CreateRun, IInv, TypeOK, RunRows
  <2>2. runs'[r].state \notin Active
    BY <2>1 DEF Active
  <2> QED
    BY <2>1, <2>2, LockedRunsStayDue
<1>2. ASSUME NEW r \in Runs, ResumeRun(r) PROVE ClaimsAreDue'
  BY <1>2, UpdateKeepsClaimsDue DEF ResumeRun, IInv, TypeOK
<1>3. ASSUME NEW w \in Workers, NEW r \in Runs, NEW d \in Drifts, ClaimSelect(w, r, d)
      PROVE  ClaimsAreDue'
  <2>1. /\ UNCHANGED <<runs, ttl>> /\ claim'[w].run = r
        /\ \A v \in Workers : v # w => claim'[v] = claim[v]
    BY <1>3 DEF ClaimSelect, IInv, TypeOK
  <2>2. ClaimIsDue(r)
    <3>1. ttl[r] \in TTLs /\ d \in Int /\ d <= Ahead
      BY ClockAssumption DEF IInv, TypeOK, Drifts
    <3>2. runs[r].state \in Active => ttl[r] # NONE /\ ttl[r] <= d
      BY <1>3 DEF ClaimSelect, Claimable, Active
    <3> QED
      BY <3>1, <3>2, ClockAssumption DEF ClaimIsDue, TTLs, Floor
  <2>3. \A v \in Workers : claim'[v] # NONE => claim'[v].run = r \/ (claim[v] # NONE /\ claim'[v] = claim[v])
    BY <2>1
  <2>4. \A q : ClaimIsDue(q)' <=> ClaimIsDue(q)
    BY <2>1 DEF ClaimIsDue
  <2>5. \A v \in Workers : claim'[v] # NONE => ClaimIsDue(claim'[v].run)
    BY <2>2, <2>3 DEF ClaimsAreDue
  <2> QED
    BY <2>1, <2>5 DEF ClaimsAreDue, ClaimIsDue
<1>4. ASSUME NEW w \in Workers, ClaimCommit(w) PROVE ClaimsAreDue'
  <2>1. PICK r : r = claim[w].run
    OBVIOUS
  <2>2. r \in Runs /\ claim[w] # NONE
    BY <1>4, <2>1 DEF ClaimCommit, IInv, TypeOK, Claims
  <2>3. claim'[w] = NONE /\ \A v \in Workers : v # w => claim'[v] = claim[v]
    BY <1>4 DEF ClaimCommit, IInv, TypeOK
  <2>4. \A v \in Workers : claim'[v] # NONE => claim[v] # NONE /\ claim'[v].run = claim[v].run /\ claim'[v].run # r
    BY <2>1, <2>2, <2>3 DEF IInv, ClaimReadsHold
  <2>5. \A q \in Runs : q # r => runs'[q] = runs[q] /\ ttl'[q] = ttl[q]
    BY <1>4, <2>1 DEF ClaimCommit, IInv, TypeOK
  <2> QED
    BY <2>4, <2>5, LockedRunsStayDue
<1>5. ASSUME NEW w \in Workers, ClaimAbort(w) PROVE ClaimsAreDue'
  <2>1. \A v \in Workers : claim'[v] # NONE => claim[v] # NONE /\ claim'[v].run = claim[v].run
    BY <1>5 DEF ClaimAbort, IInv, TypeOK
  <2> QED
    BY <1>5, <2>1, LockedRunsStayDue DEF ClaimAbort
<1>6. ASSUME NEW a \in attempts, LeaseCall(a) PROVE ClaimsAreDue'
  BY <1>6, LeaseCallKeepsClaimsDue
<1>7. CASE UNCHANGED <<runs, ttl, claim>>
  BY <1>7, LockedRunsStayDue
<1>8. CASE Tick
  <2>1. \A w \in Workers : claim'[w] # NONE => claim[w] # NONE /\ claim'[w].run = claim[w].run
    <3>1. ASSUME NEW w \in Workers PROVE claim'[w] = claim[w] \/ (claim[w] # NONE /\ claim'[w] = [claim[w] EXCEPT !.clock = @ - 1])
      BY <1>8 DEF Tick
    <3>2. ASSUME NEW w \in Workers, claim[w] # NONE PROVE [claim[w] EXCEPT !.clock = @ - 1].run = claim[w].run
      <4>1. claim[w] \in Claims
        BY <3>2 DEF IInv, TypeOK
      <4> QED
        BY <4>1 DEF Claims
    <3> QED
      BY <3>1, <3>2
  <2>2. \A r \in Runs : ttl'[r] = ttl[r] \/ (ttl[r] \in Int /\ ttl'[r] = ttl[r] - 1)
    BY <1>8 DEF Tick
  <2> QED
    BY <1>8, <2>1, <2>2, LockedRunsStayDue DEF Tick
<1> QED
  BY <1>1, <1>2, <1>3, <1>4, <1>5, <1>6, <1>7, <1>8 DEF Next, AppendRunEvent, vars

THEOREM ClaimsAreAlwaysDue == Spec => []ClaimsAreDue
<1>1. Init => ClaimsAreDue
  BY DEF Init, ClaimsAreDue
<1> QED
  BY <1>1, StepsKeepClaimsDue, RepositoryInvariant, PTL DEF Spec

(* Only a claim that commits gives out a fence. *)
LEMMA FencesAreOfClaims ==
    ASSUME IInv, [Next]_vars, NEW r \in Runs, runs'[r].fence # runs[r].fence
    PROVE  \E w \in Workers : claim[w] # NONE /\ claim[w].run = r
<1>1. ASSUME NEW w \in Workers, ClaimCommit(w) PROVE claim[w] # NONE /\ claim[w].run = r
  BY <1>1 DEF ClaimCommit, IInv, TypeOK
<1>2. ASSUME NEW a \in attempts, LeaseCall(a) PROVE FALSE
  <2>1. \/ RowsKeepStateAndFence
        \/ \E state \in {"running"} \cup Releases : \E reason, error, result :
              Transition(a, state, reason, error, result)
    <3>1. ASSUME NEW d \in Drifts, Heartbeat(a, d) PROVE RowsKeepStateAndFence
      BY <3>1 DEF Heartbeat, RowsKeepStateAndFence
    <3>2. CASE Checkpoint(a)
      <4>1. a.run \in Runs /\ runs[a.run] \in RunRows /\ runs[a.run].owner # NONE
        BY <3>2, NoneAssumption DEF Checkpoint, Owns, IInv, TypeOK, Attempts
      <4> QED
        BY <3>2, <4>1 DEF Checkpoint, Save, Owns, RowsKeepStateAndFence, IInv, TypeOK, RunRows, Active, Terminal
    <3> QED
      BY <1>2, <3>1, <3>2 DEF LeaseCall, StartRun, Wait, Complete, Fail, Releases
  <2>2. CASE RowsKeepStateAndFence
    BY <2>2 DEF RowsKeepStateAndFence
  <2>3. ASSUME NEW state \in {"running"} \cup Releases, NEW reason, NEW error, NEW result, Transition(a, state, reason, error, result)
        PROVE  FALSE
    <3>1. a.run \in Runs /\ RowMove(a.run, Active, {"running"} \cup Releases, 0)
      BY <2>3, TransitionMoves
    <3>2. runs[r].fence \in Nat
      BY DEF IInv, TypeOK, RunRows
    <3> QED
      BY <3>1, <3>2 DEF RowMove
  <2> QED
    BY <2>1, <2>2, <2>3
<1>3. ASSUME NEW q \in Runs, CreateRun(q) \/ ResumeRun(q) PROVE FALSE
  <2>1. \E from, to : RowMove(q, from, to, 0)
    <3>1. CreateRun(q) => RowMove(q, {"absent"}, {"queued"}, 0)
      BY DEF CreateRun, RowMove, IInv, TypeOK, RunRows
    <3>2. ResumeRun(q) => RowMove(q, {"waiting"}, {"queued"}, 0)
      BY DEF ResumeRun, RowMove, IInv, TypeOK, RunRows
    <3> QED
      BY <1>3, <3>1, <3>2
  <2>2. runs[r].fence \in Nat
    BY DEF IInv, TypeOK, RunRows
  <2> QED
    BY <2>1, <2>2 DEF RowMove
<1> QED
  BY <1>1, <1>2, <1>3 DEF Next, ClaimSelect, ClaimAbort, AppendRunEvent, Tick, vars

(* No lease is taken from its holder earlier than the claimer's clock is   *)
(* fast, whatever is claimed, renewed, aborted or delayed meanwhile.       *)
(* jobs/repository.py:217.                                                 *)
LeaseTakenAt(margin) ==
    \A r \in Runs : runs[r].owner # NONE /\ runs'[r].fence # runs[r].fence => ttl[r] <= margin

LEMMA TakenWithinMargin == IInv /\ ClaimsAreDue /\ [Next]_vars => LeaseTakenAt(Ahead)
<1> SUFFICES ASSUME IInv, ClaimsAreDue, [Next]_vars, NEW r \in Runs,
                    runs[r].owner # NONE, runs'[r].fence # runs[r].fence
             PROVE  ttl[r] <= Ahead
  BY DEF LeaseTakenAt
<1>1. runs[r].state \in Active
  BY DEF IInv, LeaseColumnsAgree
<1> QED
  BY <1>1, FencesAreOfClaims DEF ClaimsAreDue, ClaimIsDue

THEOREM LeasesLastUpToTheClocks == Spec => [][LeaseTakenAt(Ahead)]_vars
BY TakenWithinMargin, RepositoryInvariant, ClaimsAreAlwaysDue, PTL DEF Spec

(* With clocks that are never fast, a lease is taken from its holder only  *)
(* after its deadline.  ARCHITECTURE.md:780 has the database's clock; the  *)
(* code has the caller's.                                                  *)
THEOREM LeasesAreRespected == ASSUME Ahead = 0 PROVE Spec => LeaseRespected
<1>1. LeaseTakenAt(Ahead) <=> LeaseTakenAt(0)
  BY DEF LeaseTakenAt
<1>2. LeaseRespected <=> [][LeaseTakenAt(0)]_vars
  BY DEF LeaseRespected, LeaseTakenAt
<1> QED
  BY <1>1, <1>2, LeasesLastUpToTheClocks, PTL
=============================================================================
