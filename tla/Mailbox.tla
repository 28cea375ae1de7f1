------------------------------- MODULE Mailbox -------------------------------
(***************************************************************************)
(* The mailbox of one conversation: messages between its bots, and stages  *)
(* that are handed from bot to bot by compare-and-set on owner and hop.    *)
(* A bot may act on what it read long before.  history records every       *)
(* hand-off that took place.                                               *)
(*                                                                         *)
(* A method is one step.  The mailbox has no lock: two threads inside      *)
(* handoff at once would both pass its check, which is not modelled.       *)
(***************************************************************************)
EXTENDS Naturals, Sequences

CONSTANTS Members, Strangers,       \* bots in the conversation, and others
          Correlations, Stages, Contents,
          MaxHops

ASSUME MailboxAssumption == MaxHops \in Nat /\ Members \cap Strangers = {}

VARIABLES mailbox,      \* mailbox[k][b]: messages under correlation k to b, at most one
          stage,        \* stage[s]: its owner, hop count and where it came from
          history       \* history[s]: the hand-offs of stage s

boxvars == <<mailbox, stage, history>>

Peers == Members \cup Strangers
Kinds == {"request", "question", "status", "fyi", "result"}
Letters == [source : Peers, kind : Kinds, body : Contents]
\* terminal_source is at most one bot
Handoffs == [owner : SUBSET Members, hop : Nat, source : SUBSET Members]
Moves == [from : Peers, to : Members, expected : Nat]

BoxInit == /\ mailbox = [k \in Correlations |-> [b \in Peers |-> {}]]
           /\ stage = [s \in Stages |-> [owner |-> {}, hop |-> 0, source |-> {}]]
           /\ history = [s \in Stages |-> <<>>]

(* A repeated message is answered with the first one, whatever its kind;   *)
(* only the first changes anything.                                        *)
SendLetter(k, source, target, kind, body) ==
    /\ source # target /\ {source, target} \subseteq Members
    /\ mailbox[k][target] = {}
    /\ mailbox' = [mailbox EXCEPT ![k][target] = {[source |-> source, kind |-> kind, body |-> body]}]
    /\ UNCHANGED <<stage, history>>

CreateHandoff(s, owner) ==
    /\ owner \in Members /\ stage[s].owner = {}
    /\ stage' = [stage EXCEPT ![s].owner = {owner}]
    /\ UNCHANGED <<mailbox, history>>

Current_ByOwner(s, source, expected) == stage[s].owner = {source}

(* The compare of the compare-and-set. *)
Current(s, source, expected) == stage[s].owner = {source} /\ stage[s].hop = expected

Handoff(s, source, target, expected) ==
    /\ Current(s, source, expected)
    /\ target \in Members /\ target # source
    /\ stage[s].source # {target}
    /\ stage[s].hop + 1 <= MaxHops
    /\ stage' = [stage EXCEPT ![s] = [owner |-> {target}, hop |-> @.hop + 1, source |-> {source}]]
    /\ history' = [history EXCEPT ![s] = Append(@, [from |-> source, to |-> target, expected |-> expected])]
    /\ UNCHANGED mailbox

BoxNext ==
    \/ \E k \in Correlations, source, target \in Peers, kind \in Kinds, body \in Contents :
          SendLetter(k, source, target, kind, body)
    \/ \E s \in Stages, owner \in Peers : CreateHandoff(s, owner)
    \/ \E s \in Stages, source, target \in Peers, expected \in 0 .. MaxHops :
          Handoff(s, source, target, expected)

BoxSpec == BoxInit /\ [][BoxNext]_boxvars

-----------------------------------------------------------------------------
BoxTypeOK == /\ mailbox \in [Correlations -> [Peers -> SUBSET Letters]]
             /\ stage \in [Stages -> Handoffs]
             /\ history \in [Stages -> Seq(Moves)]

(* The hand-offs of a stage form one chain from its creator to its owner,  *)
(* however many bots try to hand it on, at once or late: each was decided  *)
(* at the hop at which it took place, by the bot the previous one handed   *)
(* it to, never straight back, and there are at most MaxHops.              *)
(* runtime/mailbox.py:88, ARCHITECTURE.md:312.                             *)
HandoffsFormOneChain ==
    \A s \in Stages :
       LET h == history[s]
       IN  /\ Len(h) = stage[s].hop /\ Len(h) <= MaxHops
           /\ \A i \in 1 .. Len(h) :
                 /\ h[i].expected = i - 1
                 /\ i > 1 => h[i].from = h[i-1].to /\ h[i].to # h[i-1].from
                 /\ i = Len(h) => stage[s].owner = {h[i].to}
=============================================================================
