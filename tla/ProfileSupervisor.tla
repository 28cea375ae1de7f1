------------------------- MODULE ProfileSupervisor -------------------------
(***************************************************************************)
(* ComputeSupervisor.profile: a thread spawns a child process, joins it    *)
(* with a deadline, and only then reads the queue the child put its        *)
(* message into.  A multiprocessing queue is a pipe with a feeder thread   *)
(* in the child: the child does not exit before the whole message is in    *)
(* the pipe, and the pipe holds no more than its buffer while nobody       *)
(* reads.                                                                  *)
(***************************************************************************)
EXTENDS Naturals

CONSTANTS Threads,
          Deadline,     \* deadline_seconds, in ticks
          NONE

ASSUME DeadlineAssumption == Deadline \in Nat \ {0}

VARIABLES parent,       \* parent[t]: where profile() stands
          left,         \* left[t]: what remains of the deadline
          child,        \* child[t]: the process
          message,      \* message[t]: what it has put, or NONE
          pipe,         \* pipe[t]: how much of that has reached the pipe
          answer        \* answer[t]: what profile() returned or raised

svars == <<parent, left, child, message, pipe, answer>>

Verdicts == {"ok", "limit", "error"}
\* small messages fit the pipe's buffer, large ones are within max_result_bytes only
Messages == [verdict : Verdicts, size : {"small"}] \cup [verdict : {"ok"}, size : {"large"}]

SInit == /\ parent = [t \in Threads |-> "idle"]
         /\ left = [t \in Threads |-> 0]
         /\ child = [t \in Threads |-> "none"]
         /\ message = [t \in Threads |-> NONE]
         /\ pipe = [t \in Threads |-> "empty"]
         /\ answer = [t \in Threads |-> NONE]

(* process.start(), and join begins. *)
Spawn(t) == /\ parent' = [parent EXCEPT ![t] = "joining"]
            /\ left' = [left EXCEPT ![t] = Deadline]
            /\ child' = [child EXCEPT ![t] = "computing"]
            /\ message' = [message EXCEPT ![t] = NONE]
            /\ pipe' = [pipe EXCEPT ![t] = "empty"]
            /\ answer' = [answer EXCEPT ![t] = NONE]

(* The child puts a result or an error; its feeder thread writes at once   *)
(* as much as fits.  At the deadline itself the parent is first.           *)
Put(t, m) == /\ child[t] = "computing" /\ left[t] > 0
             /\ child' = [child EXCEPT ![t] = "exiting"]
             /\ message' = [message EXCEPT ![t] = m]
             /\ pipe' = [pipe EXCEPT ![t] = IF m.size = "small" THEN "whole" ELSE "part"]
             /\ UNCHANGED <<parent, left, answer>>

(* The child exits once its feeder thread is done. *)
Exit(t) == /\ child[t] = "exiting" /\ pipe[t] = "whole"
           /\ child' = [child EXCEPT ![t] = "dead"]
           /\ UNCHANGED <<parent, left, message, pipe, answer>>

(* The kernel kills the child: out of memory, or over its CPU limit. *)
Killed(t) == /\ child[t] \in {"computing", "exiting"}
             /\ child' = [child EXCEPT ![t] = "dead"]
             /\ UNCHANGED <<parent, left, message, pipe, answer>>

Return(t, a) == /\ parent' = [parent EXCEPT ![t] = "answered"]
                /\ answer' = [answer EXCEPT ![t] = a]

DeadlineHit_NotTerminated(t) ==
    /\ parent[t] = "joining" /\ left[t] = 0 /\ child[t] # "dead"
    /\ Return(t, "limit")
    /\ UNCHANGED <<left, child, message, pipe>>

DeadlineHit_JoinsForever(t) == FALSE

(* join ran into the deadline: the child is terminated, its queue closed   *)
(* unread, and ComputeLimitError raised.                                   *)
DeadlineHit(t) ==
    /\ parent[t] = "joining" /\ left[t] = 0 /\ child[t] # "dead"
    /\ child' = [child EXCEPT ![t] = "dead"]
    /\ Return(t, "limit")
    /\ UNCHANGED <<left, message, pipe>>

(* The child is gone, and result_queue.get has a second to answer.  An     *)
(* empty queue becomes a ValueError, since exitcode is asked of a process  *)
(* already closed.  Half a message is waited for without a timeout: the    *)
(* parent itself still holds the pipe open for writing.                    *)
Read(t) ==
    /\ parent[t] = "joining" /\ child[t] = "dead"
    /\ \/ pipe[t] = "whole" /\ Return(t, message[t].verdict)
       \/ pipe[t] = "empty" /\ Return(t, "ValueError")
       \/ pipe[t] = "part" /\ parent' = [parent EXCEPT ![t] = "stuck"] /\ UNCHANGED answer
    /\ UNCHANGED <<left, child, message, pipe>>

(* The call is over: process and queue are closed. *)
Discard(t) == /\ parent' = [parent EXCEPT ![t] = "idle"]
              /\ left' = [left EXCEPT ![t] = 0]
              /\ child' = [child EXCEPT ![t] = IF @ = "dead" THEN "none" ELSE @]
              /\ message' = [message EXCEPT ![t] = NONE]
              /\ pipe' = [pipe EXCEPT ![t] = "empty"]
              /\ answer' = [answer EXCEPT ![t] = NONE]

(* Time passes; the last steps of a child and its parent take less than a  *)
(* tick.                                                                   *)
STick == /\ \A t \in Threads : parent[t] = "joining" =>
                  /\ child[t] \in {"computing", "exiting"}
                  /\ child[t] = "exiting" => pipe[t] = "part"
         /\ \E t \in Threads : left[t] > 0
         /\ left' = [t \in Threads |-> IF left[t] > 0 THEN left[t] - 1 ELSE 0]
         /\ UNCHANGED <<parent, child, message, pipe, answer>>

Ends(t) == Exit(t) \/ DeadlineHit(t) \/ Read(t)

SupervisorStep == \/ \E t \in Threads : Ends(t) \/ Killed(t) \/ \E m \in Messages : Put(t, m)
                  \/ STick
=============================================================================
