------------------------------ MODULE Services ------------------------------
(***************************************************************************)
(* The components that keep their state in memory and share none of it     *)
(* with one another: directory, sessions, reports, task intake, mailbox,   *)
(* bot turns, and the table that is being profiled.  Whatever they do side *)
(* by side, each does alone; so a behaviour here is one of one of them,    *)
(* part says which, while the others rest.                                 *)
(***************************************************************************)
EXTENDS Directory, Sessions, ReportWorkflow, TaskIntake, Mailbox, BotTurns, Quality, Analysis

VARIABLE part

Parts == {"directory", "sessions", "reports", "intake", "mailbox", "turns", "table"}

Init == /\ part \in Parts
        /\ DirInit /\ SessInit /\ RepInit /\ IntakeInit /\ BoxInit /\ TurnInit /\ ReadInit

Rests(p, vars) == part # p => UNCHANGED vars

Next ==
    /\ UNCHANGED part
    /\ Rests("directory", dirvars) /\ Rests("sessions", sessions) /\ Rests("reports", reports)
    /\ Rests("intake", intakevars) /\ Rests("mailbox", boxvars) /\ Rests("turns", turnvars)
    /\ Rests("table", tablevars)
    /\ \/ part = "directory" /\ DirNext
       \/ part = "sessions" /\ SessNext
       \/ part = "reports" /\ RepNext
       \/ part = "intake" /\ IntakeNext
       \/ part = "mailbox" /\ BoxNext
       \/ part = "turns" /\ TurnNext
       \/ part = "table" /\ ReadNext

svars == <<part, dirvars, sessions, reports, intakevars, boxvars, turnvars, tablevars>>

Spec == Init /\ [][Next]_svars

(* The state of every component has its type. *)
ServicesTypeOK == /\ DirTypeOK /\ SessTypeOK /\ RepTypeOK /\ IntakeTypeOK /\ BoxTypeOK /\ TurnTypeOK
=============================================================================
