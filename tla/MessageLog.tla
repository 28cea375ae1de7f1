----------------------------- MODULE MessageLog -----------------------------
(***************************************************************************)
(* What a conversation promises of its messages as long as no two writes   *)
(* of it, changes of membership among them, overlap: each is entered in    *)
(* one step, with its number, its event and the outcome of its dispatch,   *)
(* by somebody who is present; a request that is repeated enters nothing   *)
(* and is told what its first try was told.  Conversation, whose writes    *)
(* take many steps, implements it.                                         *)
(***************************************************************************)
EXTENDS Naturals, Sequences, FiniteSets

CONSTANTS Humans, Bots,     \* who may be present
          Keys,             \* how a sender names a request
          Bodies, Answer,   \* what people write, and what bots do
          Quota             \* how many messages of people are dispatched to bots

VARIABLES present,          \* who may enter messages
          entries,          \* the log: entry n is message n with its outcome
          told,             \* every answer given
          lost              \* TRUE once two writes overlapped; nothing is promised from then on

lvars == <<present, entries, told, lost>>

LInit == /\ present = Humans \cup Bots
         /\ entries = <<>>
         /\ told = {}
         /\ lost = FALSE

(* People's messages are dispatched while the quota lasts.                 *)
Queued == Cardinality({n \in 1 .. Len(entries) : entries[n].dispatch = "queued"})
OutcomeFor(sender) == IF sender \in Bots THEN "completed"
                      ELSE IF Queued < Quota THEN "queued" ELSE "rejected_quota"

AnswerOf(n, entry) == [sender |-> entry.sender, key |-> entry.key, body |-> entry.body,
                       number |-> n, dispatch |-> entry.dispatch, event |-> [number |-> n, of |-> n]]

\* No message was entered under this key.
Unused(sender, key) == \A n \in 1 .. Len(entries) : entries[n].sender # sender \/ entries[n].key # key

Enter(sender, key, body) ==
    LET entry == [sender |-> sender, key |-> key, body |-> body, dispatch |-> OutcomeFor(sender)]
    IN  /\ sender \in present /\ Unused(sender, key)
        /\ entries' = Append(entries, entry)
        /\ told' = told \cup {AnswerOf(Len(entries) + 1, entry)}
        /\ UNCHANGED <<present, lost>>

(* The same request again. *)
Repeat(n) == /\ entries[n].sender \in present
             /\ told' = told \cup {AnswerOf(n, entries[n])}
             /\ UNCHANGED <<present, entries, lost>>

Join(p) == present' = present \cup {p} /\ UNCHANGED <<entries, told, lost>>
Leave(p) == present' = present \ {p} /\ UNCHANGED <<entries, told, lost>>

(* Two writes overlap. *)
Overlap == lost' = TRUE

LNext == \/ /\ ~lost
            /\ \/ \E s \in Humans \cup Bots, k \in Keys, b \in Bodies \cup {Answer} : Enter(s, k, b)
               \/ \E n \in 1 .. Len(entries) : Repeat(n)
               \/ \E p \in Humans \cup Bots : Join(p) \/ Leave(p)
         \/ Overlap

LSpec == LInit /\ [][LNext]_lvars
=============================================================================
