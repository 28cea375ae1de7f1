----------------------------- MODULE TaskIntake -----------------------------
(***************************************************************************)
(* create_task called by several processes: each call is a transaction     *)
(* that looks for the idempotency key and, if it saw none, inserts a row   *)
(* later.  Another transaction may commit in between; the constraints of   *)
(* the table then refuse the insert.                                       *)
(***************************************************************************)
EXTENDS Naturals

CONSTANTS Callers,
          TaskIds, TaskKeys,    \* ids and idempotency keys, of one workspace
          Inputs                \* kind and payload

VARIABLES tasks,        \* rows of the table
          intake,       \* intake[c]: the call c is in
          granted,      \* answers given: what was asked, and the id answered
          failed        \* failed[c]: the task c was told "task insert failed" of, until it asks again

intakevars == <<tasks, intake, granted, failed>>

Tasks == [id : TaskIds, key : TaskKeys, input : Inputs]
Idle == [at |-> "idle"]
Inserting == [at : {"insert"}, task : Tasks]

IntakeInit == /\ tasks = {}
              /\ intake = [c \in Callers |-> Idle]
              /\ granted = {}
              /\ failed = [c \in Callers |-> {}]

Grant(task, id) == granted' = granted \cup {[key |-> task.key, input |-> task.input, id |-> id]}

(* A caller whose insert failed asks again, for the same task. *)
Asks(c, task) == failed[c] = {} \/ task \in failed[c]

(* A call that finds the key answers with the row's id, or refuses another *)
(* input; one that does not goes on to insert.                             *)
CreateTask(c, task) ==
    /\ intake[c] = Idle /\ Asks(c, task)
    /\ failed' = [failed EXCEPT ![c] = {}]
    /\ \/ \E row \in tasks :
             /\ row.key = task.key
             /\ IF row.input = task.input THEN Grant(task, row.id) ELSE UNCHANGED granted
             /\ UNCHANGED <<tasks, intake>>
       \/ /\ \A row \in tasks : row.key # task.key
          /\ intake' = [intake EXCEPT ![c] = [at |-> "insert", task |-> task]]
          /\ UNCHANGED <<tasks, granted>>

\* PRIMARY KEY (id), UNIQUE (workspace_id, idempotency_key)
Conflicts_ById(task) == \E row \in tasks : row.id = task.id
Conflicts(task) == \E row \in tasks : row.id = task.id \/ row.key = task.key

(* The insert commits, with the answer sent or lost; or a constraint       *)
(* refuses it, and the caller is told "task insert failed".                *)
InsertTask(c) ==
    /\ intake[c] # Idle
    /\ intake' = [intake EXCEPT ![c] = Idle]
    /\ LET task == intake[c].task
       IN  \/ /\ ~Conflicts(task)
              /\ tasks' = tasks \cup {task}
              /\ Grant(task, task.id) \/ UNCHANGED granted
              /\ UNCHANGED failed
           \/ /\ Conflicts(task)
              /\ failed' = [failed EXCEPT ![c] = {task}]
              /\ UNCHANGED <<tasks, granted>>

IntakeNext == \E c \in Callers : InsertTask(c) \/ \E task \in Tasks : CreateTask(c, task)

IntakeSpec == IntakeInit /\ [][IntakeNext]_intakevars

-----------------------------------------------------------------------------
IntakeTypeOK == /\ tasks \subseteq Tasks
                /\ intake \in [Callers -> Inserting \cup {Idle}]
                /\ granted \subseteq [key : TaskKeys, input : Inputs, id : TaskIds]
                /\ failed \in [Callers -> SUBSET Tasks]

(* However many retries of a request race, under whatever ids: all answers *)
(* under a key are the id of its one task and go to the input it was made  *)
(* from, and a caller whose insert lost the race finds the winner's task   *)
(* when it asks again, unless its own id is another task's.                *)
(* jobs/repository.py:95.                                                  *)
RetriesGetTheTask ==
    /\ \A a \in granted : \E row \in tasks : row.id = a.id /\ row.key = a.key /\ row.input = a.input
    /\ \A x, y \in tasks : x.key = y.key \/ x.id = y.id => x = y
    /\ \A c \in Callers : \A task \in failed[c] :
          \E row \in tasks : row.key = task.key \/ (row.id = task.id /\ row.key # task.key)
=============================================================================
