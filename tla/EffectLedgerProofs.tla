------------------------- MODULE EffectLedgerProofs -------------------------
(***************************************************************************)
(* The effect ledger settles each effect in order and refuses blind        *)
(* retries, for any runs, workers, operations and clock drift.             *)
(***************************************************************************)
EXTENDS EffectLedger, RuntimeRepositoryProofs

(* A result comes with reconciliation only, and what is answered about a   *)
(* reservation is about a row on record.                                   *)
ResultsAreReconciled ==
    \A op \in Operations : effects[op] # NONE /\ effects[op].result # NONE =>
        effects[op].state = "reconciled"

ReservationsOnRecord ==
    answer # NONE /\ answer.method = "reserve" /\ answer.got # "refused" =>
        answer.op \in Operations /\ effects[answer.op] # NONE

EInv == /\ IInv /\ EffectTypeOK /\ ResultsAreReconciled
        /\ ReservationsOnRecord /\ BlindRetryRefused

(* No step of the repository takes an attempt back.                        *)
LEMMA AttemptsStay == ASSUME [Next]_vars PROVE attempts \subseteq attempts'
    BY DEF Next, vars, CreateRun, ResumeRun, ClaimSelect, ClaimCommit, ClaimAbort, LeaseCall,
           StartRun, Wait, Complete, Fail, Transition, Heartbeat, Checkpoint, AppendRunEvent, Tick

LEMMA InitIsEInv == EInit => EInv
<1> SUFFICES ASSUME EInit PROVE EInv
    OBVIOUS
<1>1. IInv
    BY InitIInv DEF EInit
<1>2. ResultsAreReconciled
    BY DEF EInit, ResultsAreReconciled
<1>3. EffectTypeOK /\ ReservationsOnRecord /\ BlindRetryRefused
    BY DEF EInit, EffectTypeOK, ReservationsOnRecord, BlindRetryRefused
<1>4. QED
    BY <1>1, <1>2, <1>3 DEF EInv

(* A step of the repository leaves the rows, and their attempts, in place. *)
LEMMA RepositoryStepKeepsEInv ==
    ASSUME EInv, [Next]_vars, UNCHANGED evars
    PROVE  EInv'
<1>1. IInv'
    BY NextKeepsIInv DEF EInv
<1>2. attempts \subseteq attempts'
    BY AttemptsStay
<1>3. UNCHANGED <<toolExecutions, effects, answer>>
    BY DEF evars
<1>4. ResultsAreReconciled'
    BY <1>3 DEF EInv, ResultsAreReconciled
<1>5. EffectTypeOK'
    BY <1>2, <1>3 DEF EInv, EffectTypeOK, SameExecution
<1>6. ReservationsOnRecord' /\ BlindRetryRefused'
    BY <1>3 DEF EInv, ReservationsOnRecord, BlindRetryRefused
<1>7. QED
    BY <1>1, <1>4, <1>5, <1>6 DEF EInv

(* An attempt whose row is put on record was issued.                       *)
LEMMA AttemptsAreIssued == ASSUME EInv, NEW a \in attempts PROVE a.run \in Runs /\ a.fence \in Nat
    BY DEF EInv, IInv, TypeOK, Attempts

LEMMA RecordKeepsEInv ==
    ASSUME EInv, UNCHANGED vars, NEW op \in Operations, NEW a \in attempts, NEW call \in Calls,
           NEW state \in ExecutionStates, RecordToolExecution(op, a, call, state)
    PROVE  EInv'
<1> DEFINE new == [run |-> a.run, fence |-> a.fence, call |-> call, state |-> state]
<1>1. IInv' /\ attempts' = attempts
    BY NextKeepsIInv DEF EInv, vars
<1>2. /\ toolExecutions \in [Operations -> ExecutionRows \cup {NONE}]
      /\ effects \in [Operations -> EffectRows \cup {NONE}]
    BY DEF EInv, EffectTypeOK
<1>3. /\ effects' = effects
      /\ toolExecutions' = toolExecutions \/ toolExecutions' = [toolExecutions EXCEPT ![op] = new]
    BY DEF RecordToolExecution
<1>4. answer'.method = "record" /\ answer'.got \in ExecutionStates \cup {"refused"}
    BY <1>2 DEF RecordToolExecution, Answer, ExecutionRows
<1>5. /\ new \in ExecutionRows
      /\ SameExecution(new, a, new.call)
    BY AttemptsAreIssued DEF ExecutionRows, SameExecution
<1> HIDE DEF new
<1>6. toolExecutions' \in [Operations -> ExecutionRows \cup {NONE}]
    BY <1>2, <1>3, <1>5
<1>7. ASSUME NEW o \in Operations, toolExecutions'[o] # NONE
      PROVE  \E b \in attempts : SameExecution(toolExecutions'[o], b, toolExecutions'[o].call)
    <2>1. CASE toolExecutions'[o] = toolExecutions[o]
        BY <2>1, <1>7 DEF EInv, EffectTypeOK
    <2>2. CASE toolExecutions'[o] = new
        BY <2>2, <1>5
    <2>3. QED
        BY <2>1, <2>2, <1>2, <1>3
<1>8. EffectTypeOK'
    BY <1>1, <1>2, <1>3, <1>4, <1>6, <1>7 DEF EInv, EffectTypeOK, SameExecution
<1>9. ResultsAreReconciled' /\ ReservationsOnRecord' /\ BlindRetryRefused'
    BY <1>3, <1>4 DEF EInv, ResultsAreReconciled, ReservationsOnRecord, BlindRetryRefused
<1>10. QED
    BY <1>1, <1>8, <1>9 DEF EInv

LEMMA ReserveKeepsEInv ==
    ASSUME EInv, UNCHANGED vars, NEW op \in Operations, NEW a \in attempts, ReserveEffect(op, a)
    PROVE  EInv'
<1> DEFINE new == [run |-> a.run, fence |-> a.fence, state |-> "reserved", result |-> NONE]
           got == IF SameReservation(effects[op], a) THEN effects[op].state ELSE "refused"
<1>1. IInv' /\ attempts' = attempts
    BY NextKeepsIInv DEF EInv, vars
<1>2. /\ toolExecutions' = toolExecutions
      /\ effects \in [Operations -> EffectRows \cup {NONE}]
    BY DEF ReserveEffect, EInv, EffectTypeOK
<1>3. new \in EffectRows /\ new.run = a.run /\ new.fence = a.fence /\ new.result = NONE
    BY AttemptsAreIssued DEF EffectRows, EffectStates
<1>4. \/ effects' = [effects EXCEPT ![op] = new] /\ Answer("reserve", op, a, "reserved", "reserved")
      \/ /\ effects' = effects /\ effects[op] # NONE
         /\ Answer("reserve", op, a, "reserved", got)
    BY DEF ReserveEffect
<1> HIDE DEF new
<1>5. new # NONE
    BY <1>3, EffectAssumption
<1>6. /\ effects' \in [Operations -> EffectRows \cup {NONE}]
      /\ \A o \in Operations : effects'[o] = effects[o] \/ effects'[o] = new
    BY <1>2, <1>3, <1>4
<1>7. /\ answer'.op = op /\ answer'.attempt = a
      /\ answer'.got \in EffectStates \cup {"refused"}
    BY <1>2, <1>4 DEF Answer, EffectRows, EffectStates
<1>8. ASSUME NEW o \in Operations, effects'[o] # NONE
      PROVE  \E b \in attempts : effects'[o].run = b.run /\ effects'[o].fence = b.fence
    <2>1. CASE effects'[o] = effects[o]
        BY <2>1, <1>8 DEF EInv, EffectTypeOK
    <2>2. CASE effects'[o] = new
        BY <2>2, <1>3
    <2>3. QED
        BY <2>1, <2>2, <1>6
<1>9. EffectTypeOK'
    BY <1>1, <1>2, <1>6, <1>7, <1>8 DEF EInv, EffectTypeOK, SameExecution
<1>10. ResultsAreReconciled'
    BY <1>3, <1>6 DEF EInv, ResultsAreReconciled
<1>11. answer'.got # "refused" =>
           effects'[op] # NONE /\ effects'[op].run = a.run /\ effects'[op].fence = a.fence
    <2>1. CASE effects' = [effects EXCEPT ![op] = new]
        <3>1. effects'[op] = new
            BY <2>1, <1>2
        <3>2. QED
            BY <3>1, <1>3, <1>5
    <2>2. CASE /\ effects' = effects /\ effects[op] # NONE
               /\ Answer("reserve", op, a, "reserved", got)
        BY <2>2 DEF Answer, SameReservation
    <2>3. QED
        BY <1>4, <2>1, <2>2
<1>12. ReservationsOnRecord' /\ BlindRetryRefused'
    BY <1>7, <1>11 DEF ReservationsOnRecord, BlindRetryRefused
<1>13. QED
    BY <1>1, <1>9, <1>10, <1>12 DEF EInv

(* Settling an effect: the row keeps its attempt and gets a later state.   *)
LEMMA SettleKeepsEInv ==
    ASSUME EInv, UNCHANGED vars, NEW op \in Operations,
           MarkEffectUnknown(op) \/ \E ref \in Refs : ReconcileEffect(op, ref)
    PROVE  EInv'
<1>1. IInv' /\ attempts' = attempts
    BY NextKeepsIInv DEF EInv, vars
<1>2. /\ effects \in [Operations -> EffectRows \cup {NONE}]
      /\ UNCHANGED <<toolExecutions, answer>>
    BY DEF MarkEffectUnknown, ReconcileEffect, EInv, EffectTypeOK
<1>3. PICK row : /\ effects' = [effects EXCEPT ![op] = row]
                 /\ row \in EffectRows /\ effects[op] # NONE
                 /\ row.run = effects[op].run /\ row.fence = effects[op].fence
                 /\ row.result # NONE => row.state = "reconciled"
    <2>1. effects[op] \in EffectRows
        BY <1>2 DEF MarkEffectUnknown, ReconcileEffect
    <2>2. CASE MarkEffectUnknown(op)
        <3> DEFINE row == [effects[op] EXCEPT !.state = "unknown"]
        <3>1. effects' = [effects EXCEPT ![op] = row] /\ effects[op].state = "reserved" /\ effects[op] # NONE
            BY <2>2 DEF MarkEffectUnknown
        <3>2. effects[op].result = NONE
            BY <3>1 DEF EInv, ResultsAreReconciled
        <3>3. /\ row \in EffectRows
              /\ row.run = effects[op].run /\ row.fence = effects[op].fence
              /\ row.result = effects[op].result
            BY <2>1 DEF EffectRows, EffectStates
        <3>4. QED
            BY <3>1, <3>2, <3>3
    <2>3. ASSUME NEW ref \in Refs, ReconcileEffect(op, ref)
          PROVE  \E row : /\ effects' = [effects EXCEPT ![op] = row]
                          /\ row \in EffectRows /\ effects[op] # NONE
                          /\ row.run = effects[op].run /\ row.fence = effects[op].fence
                          /\ row.result # NONE => row.state = "reconciled"
        <3> DEFINE row == [effects[op] EXCEPT !.state = "reconciled", !.result = ref]
        <3>1. effects' = [effects EXCEPT ![op] = row] /\ effects[op] # NONE
            BY <2>3 DEF ReconcileEffect
        <3>2. /\ row \in EffectRows /\ row.state = "reconciled"
              /\ row.run = effects[op].run /\ row.fence = effects[op].fence
            BY <2>1 DEF EffectRows, EffectStates
        <3>3. QED
            BY <3>1, <3>2
    <2>4. QED
        BY <2>2, <2>3
<1>4. /\ effects' \in [Operations -> EffectRows \cup {NONE}]
      /\ effects'[op] = row /\ row # NONE
      /\ \A o \in Operations : o # op => effects'[o] = effects[o]
    BY <1>2, <1>3, EffectAssumption
<1>5. \A o \in Operations : effects'[o] # NONE =>
          \E b \in attempts : effects'[o].run = b.run /\ effects'[o].fence = b.fence
    BY <1>3, <1>4 DEF EInv, EffectTypeOK
<1>6. EffectTypeOK'
    BY <1>1, <1>2, <1>4, <1>5 DEF EInv, EffectTypeOK, SameExecution
<1>7. ResultsAreReconciled'
    BY <1>3, <1>4 DEF EInv, ResultsAreReconciled
<1>8. ReservationsOnRecord' /\ BlindRetryRefused'
    BY <1>2, <1>3, <1>4 DEF EInv, ReservationsOnRecord, BlindRetryRefused
<1>9. QED
    BY <1>1, <1>6, <1>7, <1>8 DEF EInv

-----------------------------------------------------------------------------
(* EInv holds in every reachable state.                                    *)
THEOREM EffectLedgerInvariant == ESpec => []EInv
<1>1. EInv /\ [ENext]_allvars => EInv'
    <2> SUFFICES ASSUME EInv, [ENext]_allvars PROVE EInv'
        OBVIOUS
    <2>1. CASE Next /\ UNCHANGED evars
        BY <2>1, RepositoryStepKeepsEInv
    <2>2. ASSUME UNCHANGED vars, NEW op \in Operations, NEW a \in attempts,
                 ReserveEffect(op, a) \/ \E call \in Calls, state \in ExecutionStates :
                                            RecordToolExecution(op, a, call, state)
          PROVE  EInv'
        BY <2>2, ReserveKeepsEInv, RecordKeepsEInv
    <2>3. ASSUME UNCHANGED vars, NEW op \in Operations,
                 MarkEffectUnknown(op) \/ \E ref \in Refs : ReconcileEffect(op, ref)
          PROVE  EInv'
        BY <2>3, SettleKeepsEInv
    <2>4. CASE UNCHANGED allvars
        <3>1. UNCHANGED vars /\ UNCHANGED evars
            BY <2>4 DEF allvars, vars, evars
        <3>2. QED
            BY <3>1, RepositoryStepKeepsEInv
    <2>5. QED
        BY <2>1, <2>2, <2>3, <2>4 DEF ENext, EffectCall
<1>2. QED
    BY InitIsEInv, <1>1, PTL DEF ESpec

(* The rows have their types, and belong to attempts that were issued.     *)
THEOREM EffectTypes == ESpec => []EffectTypeOK
<1>1. EInv => EffectTypeOK
    BY DEF EInv
<1>2. QED
    BY <1>1, EffectLedgerInvariant, PTL

(* No blind retry: a reservation is granted only to the attempt that holds *)
(* it, however often it is asked for and by whom.                          *)
THEOREM BlindRetriesAreRefused == ESpec => []BlindRetryRefused
<1>1. EInv => BlindRetryRefused
    BY DEF EInv
<1>2. QED
    BY <1>1, EffectLedgerInvariant, PTL

(* An effect keeps its attempt, becomes unknown before it is reconciled,   *)
(* and keeps the result it was reconciled with.                            *)
THEOREM EffectsAlwaysSettleInOrder == ESpec => EffectsSettleInOrder
<1> DEFINE Settles(op) ==
               effects[op] # NONE =>
                  /\ effects'[op] # NONE
                  /\ effects'[op].run = effects[op].run /\ effects'[op].fence = effects[op].fence
                  /\ EffectRank(effects'[op]) \in {EffectRank(effects[op]), EffectRank(effects[op]) + 1}
                  /\ effects[op].result # NONE => effects'[op].result = effects[op].result
<1>1. EInv /\ [ENext]_allvars => \A op \in Operations : Settles(op)
    <2> SUFFICES ASSUME EInv, [ENext]_allvars, NEW op \in Operations, effects[op] # NONE
                 PROVE  Settles(op)
        OBVIOUS
    <2>0. /\ effects \in [Operations -> EffectRows \cup {NONE}]
          /\ effects[op] \in EffectRows
        BY DEF EInv, EffectTypeOK
    <2>1. CASE effects'[op] = effects[op]
        BY <2>1 DEF EffectRank
    <2>2. ASSUME MarkEffectUnknown(op) PROVE Settles(op)
        <3> DEFINE row == [effects[op] EXCEPT !.state = "unknown"]
        <3>1. effects[op].state = "reserved" /\ effects'[op] = row
            BY <2>0, <2>2 DEF MarkEffectUnknown
        <3>2. /\ row \in EffectRows /\ row.state = "unknown"
              /\ row.run = effects[op].run /\ row.fence = effects[op].fence
              /\ row.result = effects[op].result
            BY <2>0 DEF EffectRows, EffectStates
        <3>3. QED
            BY <3>1, <3>2, EffectAssumption DEF EffectRank
    <2>3. ASSUME NEW ref \in Refs, ReconcileEffect(op, ref) PROVE Settles(op)
        <3> DEFINE row == [effects[op] EXCEPT !.state = "reconciled", !.result = ref]
        <3>1. effects[op].state = "unknown" /\ effects'[op] = row
            BY <2>0, <2>3 DEF ReconcileEffect
        <3>2. /\ row \in EffectRows /\ row.state = "reconciled"
              /\ row.run = effects[op].run /\ row.fence = effects[op].fence
            BY <2>0 DEF EffectRows, EffectStates
        <3>3. effects[op].result = NONE
            BY <3>1 DEF EInv, ResultsAreReconciled
        <3>4. QED
            BY <3>1, <3>2, <3>3, EffectAssumption DEF EffectRank
    <2>4. effects'[op] = effects[op] \/ MarkEffectUnknown(op) \/ \E ref \in Refs : ReconcileEffect(op, ref)
        <3>1. CASE UNCHANGED effects
            BY <3>1
        <3>2. ASSUME NEW o \in Operations, NEW a \in attempts, ReserveEffect(o, a)
              PROVE  effects'[op] = effects[op]
            BY <2>0, <3>2 DEF ReserveEffect
        <3>3. ASSUME NEW o \in Operations,
                     o # op, MarkEffectUnknown(o) \/ \E ref \in Refs : ReconcileEffect(o, ref)
              PROVE  effects'[op] = effects[op]
            BY <2>0, <3>3 DEF MarkEffectUnknown, ReconcileEffect
        <3>4. ASSUME NEW o \in Operations, NEW a \in attempts, NEW call \in Calls,
                     NEW state \in ExecutionStates, RecordToolExecution(o, a, call, state)
              PROVE  UNCHANGED effects
            BY <3>4 DEF RecordToolExecution
        <3>5. QED
            BY <3>1, <3>2, <3>3, <3>4 DEF ENext, EffectCall, evars, allvars
    <2>5. QED
        BY <2>1, <2>2, <2>3, <2>4
<1>2. QED
    BY <1>1, EffectLedgerInvariant, PTL DEF ESpec, EffectsSettleInOrder
=============================================================================
