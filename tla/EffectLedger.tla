---------------------------- MODULE EffectLedger ----------------------------
(***************************************************************************)
(* The tool_executions and effects tables beside the runs they belong to:  *)
(* record_tool_execution, reserve_effect, mark_effect_unknown and          *)
(* reconcile_effect, called with any attempt ever issued, at any time,     *)
(* while leases are claimed, lost and reclaimed in RuntimeRepository.      *)
(*                                                                         *)
(* A call stands for tool, version, effect class and input together: the   *)
(* code only asks whether all of them are the ones on record.              *)
(***************************************************************************)
EXTENDS RuntimeRepository

CONSTANTS Operations,       \* operation keys
          Calls,            \* what an operation can be recorded for
          Refs              \* verified results a reconciliation may bring

VARIABLES toolExecutions,   \* toolExecutions[op]: the row, or NONE
          effects,          \* effects[op]: the row, or NONE
          answer            \* what the last call to one of the methods returned

evars == <<toolExecutions, effects, answer>>
allvars == <<runs, ttl, attempts, runEvents, claim, toolExecutions, effects, answer>>

ExecutionStates == {"started", "succeeded", "failed", "unknown"}
EffectStates == {"reserved", "unknown", "reconciled"}
ExecutionRows == [run : Runs, fence : Nat, call : Calls, state : ExecutionStates]
EffectRows == [run : Runs, fence : Nat, state : EffectStates, result : Refs \cup {NONE}]

ASSUME EffectAssumption == NONE \notin Refs /\ NONE \notin ExecutionRows \cup EffectRows

EInit == /\ Init
         /\ toolExecutions = [op \in Operations |-> NONE]
         /\ effects = [op \in Operations |-> NONE]
         /\ answer = NONE

Answer(method, op, a, asked, got) ==
    answer' = [method |-> method, op |-> op, attempt |-> a, asked |-> asked, got |-> got]

(* Whether the row on record is the caller's own. *)
SameExecution(row, a, call) == row.run = a.run /\ row.fence = a.fence /\ row.call = call
SameReservation_AnyAttempt(row, a) == row.run = a.run
SameReservation(row, a) == row.run = a.run /\ row.fence = a.fence

(***************************************************************************)
(* record_tool_execution: INSERT ... ON CONFLICT DO NOTHING, and the       *)
(* caller is answered with the row on record, whatever state it asked for, *)
(* or refused when that row is another's.  The foreign keys make an insert *)
(* wait for a claim that has the run locked.                               *)
(***************************************************************************)
RecordToolExecution(op, a, call, state) ==
    LET old == toolExecutions[op]
    IN  \/ /\ old = NONE /\ Unlocked(a.run)
           /\ toolExecutions' = [toolExecutions EXCEPT ![op] =
                 [run |-> a.run, fence |-> a.fence, call |-> call, state |-> state]]
           /\ Answer("record", op, a, state, state)
           /\ UNCHANGED effects
        \/ /\ old # NONE
           /\ Answer("record", op, a, state,
                     IF SameExecution(old, a, call) THEN old.state ELSE "refused")
           /\ UNCHANGED <<toolExecutions, effects>>

(* reserve_effect: the same shape, for the right to cause the effect. *)
ReserveEffect(op, a) ==
    LET old == effects[op]
    IN  \/ /\ old = NONE /\ Unlocked(a.run)
           /\ effects' = [effects EXCEPT ![op] =
                 [run |-> a.run, fence |-> a.fence, state |-> "reserved", result |-> NONE]]
           /\ Answer("reserve", op, a, "reserved", "reserved")
           /\ UNCHANGED toolExecutions
        \/ /\ old # NONE
           /\ Answer("reserve", op, a, "reserved",
                     IF SameReservation(old, a) THEN old.state ELSE "refused")
           /\ UNCHANGED <<toolExecutions, effects>>

MarkEffectUnknown_AnyState(op) ==
    /\ effects[op] # NONE
    /\ effects' = [effects EXCEPT ![op].state = "unknown"]
    /\ UNCHANGED <<toolExecutions, answer>>

(* mark_effect_unknown: only a reserved effect becomes unknown. *)
MarkEffectUnknown(op) ==
    /\ effects[op] # NONE /\ effects[op].state = "reserved"
    /\ effects' = [effects EXCEPT ![op].state = "unknown"]
    /\ UNCHANGED <<toolExecutions, answer>>

ReconcileEffect_Committed(op, ref) ==
    /\ effects[op] # NONE /\ effects[op].state = "unknown"
    /\ effects' = [effects EXCEPT ![op].state = "committed", ![op].result = ref]
    /\ UNCHANGED <<toolExecutions, answer>>

(* reconcile_effect: only an unknown effect takes a verified result. *)
ReconcileEffect(op, ref) ==
    /\ effects[op] # NONE /\ effects[op].state = "unknown"
    /\ effects' = [effects EXCEPT ![op].state = "reconciled", ![op].result = ref]
    /\ UNCHANGED <<toolExecutions, answer>>

EffectCall ==
    \E op \in Operations :
        \/ \E a \in attempts : \/ ReserveEffect(op, a)
                               \/ \E call \in Calls, state \in ExecutionStates :
                                     RecordToolExecution(op, a, call, state)
        \/ MarkEffectUnknown(op)
        \/ \E ref \in Refs : ReconcileEffect(op, ref)

ENext == (Next /\ UNCHANGED evars) \/ (EffectCall /\ UNCHANGED vars)

ESpec == EInit /\ [][ENext]_allvars

-----------------------------------------------------------------------------
(* The rows have their types, and what is recorded under an operation key  *)
(* belongs to an attempt that was issued, however long ago.                *)
EffectTypeOK ==
    /\ toolExecutions \in [Operations -> ExecutionRows \cup {NONE}]
    /\ effects \in [Operations -> EffectRows \cup {NONE}]
    /\ \A op \in Operations :
          /\ toolExecutions[op] # NONE =>
                \E a \in attempts : SameExecution(toolExecutions[op], a, toolExecutions[op].call)
          /\ effects[op] # NONE =>
                \E a \in attempts : effects[op].run = a.run /\ effects[op].fence = a.fence
    /\ answer # NONE => answer.got \in ExecutionStates \cup EffectStates \cup {"refused"}

(* An effect that may have happened is never silently turned into a        *)
(* success or into a fresh reservation: it keeps its attempt, becomes      *)
(* unknown before it can be reconciled, and once reconciled keeps its      *)
(* result, in whatever order workers and operators call.                   *)
EffectRank(row) == CASE row.state = "reserved" -> 1
                     [] row.state = "unknown" -> 2
                     [] OTHER -> 3

EffectsSettleInOrder ==
    [][\A op \in Operations :
          effects[op] # NONE =>
             /\ effects'[op] # NONE
             /\ effects'[op].run = effects[op].run /\ effects'[op].fence = effects[op].fence
             /\ EffectRank(effects'[op]) \in {EffectRank(effects[op]), EffectRank(effects[op]) + 1}
             /\ effects[op].result # NONE => effects'[op].result = effects[op].result]_allvars

(* No blind retry: after a crash the new attempt of the run is refused the *)
(* reservation its predecessor holds, so that the effect is not caused     *)
(* twice.                                                                  *)
BlindRetryRefused ==
    answer # NONE /\ answer.method = "reserve" /\ answer.got # "refused" =>
        /\ effects[answer.op].run = answer.attempt.run
        /\ effects[answer.op].fence = answer.attempt.fence

(* ARCHITECTURE.md:318: "Resume su dung ToolExecution operation IDs da     *)
(* hoan thanh" (resuming uses the operation ids that have completed): the  *)
(* attempt that continues a run is answered with the execution that an     *)
(* earlier attempt of the same run completed for the same call.            *)
ResumeReusesCompletedOperations ==
    [][answer' # NONE /\ answer' # answer /\ answer'.method = "record"
          /\ toolExecutions[answer'.op] # NONE
          /\ toolExecutions[answer'.op].run = answer'.attempt.run
          /\ toolExecutions[answer'.op].state = "succeeded"
          => answer'.got = "succeeded"]_allvars
=============================================================================
