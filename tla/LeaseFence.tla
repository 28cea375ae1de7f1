----------------------------- MODULE LeaseFence -----------------------------
(***************************************************************************)
(* What the run ledger promises, without tables, journals or clocks: a     *)
(* piece of work is granted to one holder at a time, every grant carries   *)
(* a token larger than all earlier ones, and the work is settled at most   *)
(* once, by the holder of the newest token.  The persistent repository     *)
(* (RuntimeRepository) and the in-memory ledger (JobLedger) implement it.  *)
(***************************************************************************)
EXTENDS Naturals

CONSTANT Runs           \* the pieces of work

VARIABLES phase,        \* phase[r]: where the work stands
          token,        \* token[r]: the newest grant, 0 before the first
          settledBy     \* settledBy[r]: the token that settled r, or 0

fvars == <<phase, token, settledBy>>

Phases == {"absent", "idle", "held", "parked", "settled", "cancelled"}

FTypeOK == /\ phase \in [Runs -> Phases]
           /\ token \in [Runs -> Nat]
           /\ settledBy \in [Runs -> Nat]

FInit == /\ phase = [r \in Runs |-> "absent"]
         /\ token = [r \in Runs |-> 0]
         /\ settledBy = [r \in Runs |-> 0]

Move(r, from, to) == /\ phase[r] \in from
                     /\ phase' = [phase EXCEPT ![r] = to]

(* The work is admitted. *)
Open(r) == Move(r, {"absent"}, "idle") /\ UNCHANGED <<token, settledBy>>

(* A grant: of idle work, or of work taken over from a holder that let its *)
(* lease run out.  Either way the token grows.                             *)
Grant(r) == /\ Move(r, {"idle", "held"}, "held")
            /\ token' = [token EXCEPT ![r] = @ + 1]
            /\ UNCHANGED settledBy

(* The holder gives the work back, to be granted again. *)
Requeue(r) == Move(r, {"held"}, "idle") /\ UNCHANGED <<token, settledBy>>

(* The holder parks the work until somebody wakes it. *)
Park(r) == Move(r, {"held"}, "parked") /\ UNCHANGED <<token, settledBy>>

Wake(r) == Move(r, {"parked"}, "idle") /\ UNCHANGED <<token, settledBy>>

(* The holder of the newest token settles the work, for good. *)
Settle(r) == /\ Move(r, {"held"}, "settled")
             /\ settledBy' = [settledBy EXCEPT ![r] = token[r]]
             /\ UNCHANGED token

(* An operator stops work that nobody has settled. *)
Cancel(r) == /\ Move(r, {"idle", "held", "parked"}, "cancelled")
             /\ UNCHANGED <<token, settledBy>>

FNext == \E r \in Runs : \/ Open(r) \/ Grant(r) \/ Requeue(r) \/ Park(r)
                         \/ Wake(r) \/ Settle(r) \/ Cancel(r)

FSpec == FInit /\ [][FNext]_fvars
=============================================================================
