---------------------------- MODULE Conversation -----------------------------
(***************************************************************************)
(* One conversation of the local API: its members, log and outbox, and the *)
(* requests that touch them.  The route handlers are plain functions, so   *)
(* the server runs them in a pool of threads, over objects without a lock. *)
(* A step here is what a thread does between two places where CPython may  *)
(* switch threads, that is, between two calls.                             *)
(*                                                                         *)
(* A message is known by its number: its id is conversation:number.  Event *)
(* ids are made of event numbers alike.                                    *)
(***************************************************************************)
EXTENDS Naturals, Sequences, FiniteSets, FiniteSetsExt

CONSTANTS Humans, Bots,     \* principal ids
          Keys,             \* client message ids; a turn id, for a bot
          Bodies,           \* what humans write
          Answer,           \* what the model answers
          Threads,          \* threads of the server's pool
          Quota,            \* bot dispatches the outbox may queue
          MaxMessages, MaxJoins,    \* bounds of the model
          NONE

VARIABLES members,          \* members[p]: p's intervals, left = 0 while active
          messages,         \* the log
          idempotency,      \* idempotency[p][k]: the message kept under that key, or NONE
          eventSequence,
          events,           \* events of the outbox, in the order they were appended
          quota,
          outcomes,         \* outcomes[n]: dispatch outcome of message n, or NONE
          call,             \* call[t]: the request thread t is handling
          change,           \* change[t]: the interval thread t is about to store, or NONE
          reading,          \* reading[p]: the read of events p is waiting for
          cursor, seen,     \* cursor[p], seen[p]: what p, polling events, has got to
          torn,             \* whose read of the visible messages a change of their own overlapped
          answers,          \* every acknowledgement sent
          raced             \* TRUE once two writes of the conversation overlapped

log == <<members, messages, idempotency, eventSequence, events, quota, outcomes>>
beside == <<change, reading, cursor, seen, torn>>
cvars == <<members, messages, idempotency, eventSequence, events, quota, outcomes,
           call, change, reading, cursor, seen, torn, answers, raced>>

Principals == Humans \cup Bots
Numbers == 1 .. MaxMessages
Messages == [sender : Principals, key : Keys, body : Bodies \cup {Answer}, number : Numbers]
Events == [number : Numbers, of : Numbers]
Outcomes == {"queued", "rejected_quota", "completed"}
Intervals == [joined : 1 .. MaxMessages + 1, left : 0 .. MaxMessages + 1]
Changes == [who : Principals, interval : Intervals]

ASSUME ConversationAssumption ==
    /\ Humans \cap Bots = {} /\ Answer \notin Bodies
    /\ IsFiniteSet(Threads)
    /\ Quota \in Nat /\ MaxMessages \in Nat /\ MaxJoins \in Nat
    /\ NONE \notin Messages \cup Outcomes \cup Changes

Idle == [at |-> "idle", sender |-> NONE, key |-> NONE, body |-> NONE,
         existing |-> NONE, message |-> NONE, event |-> NONE]
NotReading == [at |-> "idle", from |-> 0, visible |-> {}, batch |-> {}]
\* where a thread is inside append_human_message or append_bot_message
Writing == {"check", "recall", "number", "append", "index", "outbox", "publish", "dispatch"}
Calls == [at : Writing \cup {"idle", "model", "lookup"},
          sender : Principals \cup {NONE}, key : Keys \cup {NONE}, body : Bodies \cup {Answer, NONE},
          existing : Messages \cup {NONE}, message : Messages \cup {NONE}, event : Events \cup {NONE}]
Reads == [at : {"idle", "active", "from", "visible", "events"}, from : 0 .. MaxMessages + 1,
          visible : SUBSET Numbers, batch : SUBSET Events]

(* create_conversation: its members have joined before the first message. *)
Init == /\ members = [p \in Principals |-> <<[joined |-> 1, left |-> 0]>>]
        /\ messages = <<>>
        /\ idempotency = [p \in Principals |-> [k \in Keys |-> NONE]]
        /\ eventSequence = 0
        /\ events = <<>>
        /\ quota = Quota
        /\ outcomes = [n \in Numbers |-> NONE]
        /\ call = [t \in Threads |-> Idle]
        /\ change = [t \in Threads |-> NONE]
        /\ reading = [p \in Humans |-> NotReading]
        /\ cursor = [p \in Humans |-> 0]
        /\ seen = [p \in Humans |-> {}]
        /\ torn = {}
        /\ answers = {}
        /\ raced = FALSE

Active(p) == \E i \in 1 .. Len(members[p]) : members[p][i].left = 0
Free(t) == call[t] = Idle /\ change[t] = NONE
Busy == \E t \in Threads : call[t].at \in Writing
Changing == \E t \in Threads : change[t] # NONE
ChangesOf(p) == {t \in Threads : change[t] # NONE /\ change[t].who = p}

\* The model's bound: after two writes overlapped, what is under way ends and nothing else begins.
Open == ~raced

(* A thread has checked the membership it changes and computed the message *)
(* number of the change; nothing is stored yet.  Whatever could come       *)
(* between check and number to make a difference is a change as well, and  *)
(* overlaps.                                                               *)
BeginChange(t, p, interval) ==
    /\ change' = [change EXCEPT ![t] = [who |-> p, interval |-> interval]]
    /\ raced' = (raced \/ Busy \/ Changing)
    /\ torn' = torn \cup {q \in Humans : q = p /\ reading[q].at \in {"active", "from"}}
    /\ UNCHANGED <<log, call, reading, cursor, seen, answers>>

AddMember(t, p) ==
    /\ Open /\ Free(t) /\ ~Active(p) /\ Len(members[p]) < MaxJoins
    /\ BeginChange(t, p, [joined |-> Len(messages) + 1, left |-> 0])

LastActive(p) == Max({i \in 1 .. Len(members[p]) : members[p][i].left = 0})

RemoveMember(t, p) ==
    /\ Open /\ Free(t) /\ Active(p)
    /\ BeginChange(t, p, [joined |-> members[p][LastActive(p)].joined, left |-> Len(messages) + 1])

(* Who joins gets one interval more, who leaves a new last one.            *)
StoreInterval(t) ==
    /\ change[t] # NONE
    /\ LET p == change[t].who  interval == change[t].interval
       IN  members' = [members EXCEPT ![p] = IF interval.left = 0 THEN Append(@, interval)
                                             ELSE [@ EXCEPT ![Len(@)] = interval]]
    /\ change' = [change EXCEPT ![t] = NONE]
    /\ UNCHANGED <<messages, idempotency, eventSequence, events, quota, outcomes, call,
                   reading, cursor, seen, torn, answers, raced>>

Membership(t) == \/ \E p \in Principals : AddMember(t, p) \/ RemoveMember(t, p)
                 \/ StoreInterval(t)

-----------------------------------------------------------------------------
(***************************************************************************)
(* Requests that write.                                                    *)
(***************************************************************************)
\* The model's bound: no more messages than MaxMessages, with those under way.
Room(p, k) == \/ idempotency[p][k] # NONE
              \/ Len(messages) + Cardinality({t \in Threads : call[t].at # "idle"}) < MaxMessages

Request(step, p, k, b) == [at |-> step, sender |-> p, key |-> k, body |-> b,
                           existing |-> NONE, message |-> NONE, event |-> NONE]

\* Thread t takes the next step of its request, with what it has found out and written.
Onward(t, step, existing, message, event) ==
    call' = [call EXCEPT ![t] = [at |-> step, sender |-> @.sender, key |-> @.key, body |-> @.body,
                                 existing |-> existing, message |-> message, event |-> event]]
Goto(t, step) == Onward(t, step, call[t].existing, call[t].message, call[t].event)
Done(t) == call' = [call EXCEPT ![t] = Idle]

Send(t, p, k, b) ==
    /\ Open /\ Free(t) /\ Room(p, k)
    /\ call' = [call EXCEPT ![t] = Request("lookup", p, k, b)]
    /\ UNCHANGED <<log, beside, answers, raced>>

(* run_bot_turn: both must be members when the model is asked. *)
BotTurn(t, actor, p, k) ==
    /\ Open /\ Free(t) /\ Room(p, k)
    /\ Active(actor) /\ Active(p)
    /\ call' = [call EXCEPT ![t] = Request("model", p, k, Answer)]
    /\ UNCHANGED <<log, beside, answers, raced>>

(* BotRuntime.execute, with a provider that answers one text and calls no  *)
(* tool: a turn is ok, or the history is over the budget of its context.   *)
TurnStatus == {"ok", "needs_input"}

(* The turn has ended; only one that is ok says something. *)
BotTurnEnds(t) ==
    /\ call[t].at = "model"
    /\ \E status \in TurnStatus : IF status = "ok" THEN Goto(t, "lookup") ELSE Done(t)
    /\ UNCHANGED <<log, beside, answers, raced>>

Kept_Never(p, k) == NONE

(* idempotent_message: what the outbox takes for the earlier try. *)
Kept(p, k) == idempotency[p][k]

Lookup(t) ==
    /\ call[t].at = "lookup"
    /\ Onward(t, "check", Kept(call[t].sender, call[t].key), NONE, NONE)
    /\ raced' = (raced \/ Busy \/ Changing)
    /\ UNCHANGED <<log, beside, answers>>

MaySend(p) == Active(p)

SamePayload(m, b) == m.body = b

(* append_message: a caller who is no member, or who reuses a key for      *)
(* another body, is refused.  A message found under the key is the answer; *)
(* if the lookup had not found it, the outbox goes on as if it were new,   *)
(* with the event number of the moment.                                    *)
Check(t) ==
    LET c == call[t]
        previous == idempotency[c.sender][c.key]
    IN  /\ c.at = "check"
        /\ \/ /\ ~MaySend(c.sender) \/ (previous # NONE /\ ~SamePayload(previous, c.body))
              /\ Done(t)
           \/ /\ MaySend(c.sender) /\ previous # NONE /\ SamePayload(previous, c.body)
              /\ Onward(t, IF c.existing # NONE THEN "recall" ELSE "outbox", c.existing, previous,
                        [number |-> eventSequence, of |-> previous.number])
           \/ /\ MaySend(c.sender) /\ previous = NONE
              /\ Goto(t, "number")
        /\ UNCHANGED <<log, beside, answers, raced>>

NextNumber_FromZero == Len(messages)
NextNumber == Len(messages) + 1

Number(t) ==
    /\ call[t].at = "number"
    /\ Onward(t, "append", NONE, [sender |-> call[t].sender, key |-> call[t].key,
                                  body |-> call[t].body, number |-> NextNumber], NONE)
    /\ UNCHANGED <<log, beside, answers, raced>>

AppendMessage(t) ==
    /\ call[t].at = "append"
    /\ messages' = Append(messages, call[t].message)
    /\ Goto(t, "index")
    /\ UNCHANGED <<members, idempotency, eventSequence, events, quota, outcomes, beside, answers, raced>>

Index_SameEvent(t) ==
    /\ call[t].at = "index"
    /\ idempotency' = [idempotency EXCEPT ![call[t].sender][call[t].key] = call[t].message]
    /\ Onward(t, "outbox", NONE, call[t].message, [number |-> eventSequence + 1, of |-> call[t].message.number])
    /\ UNCHANGED <<members, messages, eventSequence, events, quota, outcomes, beside, answers, raced>>

(* The key is remembered, the event counted and, back in the outbox, the   *)
(* event's number read.                                                    *)
Index(t) ==
    /\ call[t].at = "index"
    /\ idempotency' = [idempotency EXCEPT ![call[t].sender][call[t].key] = call[t].message]
    /\ eventSequence' = eventSequence + 1
    /\ Onward(t, "outbox", NONE, call[t].message, [number |-> eventSequence', of |-> call[t].message.number])
    /\ UNCHANGED <<members, messages, events, quota, outcomes, beside, answers, raced>>

(* A human's event is dropped if its id is in the outbox already. *)
Deduplicate(t) ==
    /\ call[t].at = "outbox"
    /\ Goto(t, IF /\ call[t].sender \in Humans
                  /\ \E i \in 1 .. Len(events) : events[i].number = call[t].event.number
               THEN "dispatch" ELSE "publish")
    /\ UNCHANGED <<log, beside, answers, raced>>

Publish(t) ==
    /\ call[t].at = "publish"
    /\ events' = Append(events, call[t].event)
    /\ Goto(t, "dispatch")
    /\ UNCHANGED <<members, messages, idempotency, eventSequence, quota, outcomes, beside, answers, raced>>

(* The answer to a request, kept with what was asked. *)
Acknowledge(c, dispatch, e) ==
    answers' = answers \cup {[sender |-> c.sender, key |-> c.key, body |-> c.body,
                              number |-> c.message.number, dispatch |-> dispatch, event |-> e]}

Spent_Never(dispatch) == 0
Spent(dispatch) == IF dispatch = "queued" THEN 1 ELSE 0

Dispatch(t) ==
    LET m == call[t].message
        dispatch == CASE m.sender \in Bots -> "completed"
                      [] m.sender \in Humans /\ quota > 0 -> "queued"
                      [] OTHER -> "rejected_quota"
    IN  /\ call[t].at = "dispatch"
        /\ quota' = quota - Spent(dispatch)
        /\ outcomes' = [outcomes EXCEPT ![m.number] = dispatch]
        /\ Acknowledge(call[t], dispatch, call[t].event)
        /\ Done(t)
        /\ UNCHANGED <<members, messages, idempotency, eventSequence, events, beside, raced>>

(* The answer to a retry.  While the first try is still under way its      *)
(* event or its outcome is missing, and the request ends in an error.      *)
Recall(t) ==
    LET m == call[t].existing.number
    IN  /\ call[t].at = "recall"
        /\ \/ \E i \in 1 .. Len(events) :
                 /\ events[i].of = m /\ \A j \in 1 .. i - 1 : events[j].of # m
                 /\ outcomes[m] # NONE
                 /\ Acknowledge(call[t], outcomes[m], events[i])
           \/ /\ outcomes[m] = NONE \/ \A i \in 1 .. Len(events) : events[i].of # m
              /\ UNCHANGED answers
        /\ Done(t)
        /\ UNCHANGED <<log, beside, raced>>

-----------------------------------------------------------------------------
(***************************************************************************)
(* Requests that read events: the visible messages first, then the events  *)
(* of those after the cursor, then the high watermark of all events.  The  *)
(* client polls from the watermark it was given.                           *)
(***************************************************************************)
(* visible_messages: who is no member any more is refused ...              *)
BeginRead(p) ==
    /\ Open /\ reading[p].at = "idle" /\ Active(p)
    /\ reading' = [reading EXCEPT ![p].at = "active"]
    /\ torn' = torn \cup {q \in Humans : q = p /\ ChangesOf(p) # {}}
    /\ UNCHANGED <<log, call, change, cursor, seen, answers, raced>>

VisibleFrom_First(p) == Min({members[p][i].joined : i \in 1 .. Len(members[p])})
VisibleFrom(p) == Max({members[p][i].joined : i \in 1 .. Len(members[p])})

(* ... then the intervals are gone through ...                             *)
ReadFrom(p) ==
    /\ reading[p].at = "active"
    /\ reading' = [reading EXCEPT ![p] = [at |-> "from", from |-> VisibleFrom(p), visible |-> {}, batch |-> {}]]
    /\ UNCHANGED <<log, call, change, cursor, seen, torn, answers, raced>>

Elements(s) == {s[i] : i \in 1 .. Len(s)}
MessagesFrom(n) == {m.number : m \in {m \in Elements(messages) : m.number >= n}}

(* ... and then the log.  Both lists only grow, so that each pass gives    *)
(* what there is when it comes to its end.                                 *)
ReadVisible(p) ==
    /\ reading[p].at = "from"
    /\ reading' = [reading EXCEPT ![p] = [at |-> "visible", from |-> 0,
                                          visible |-> MessagesFrom(reading[p].from), batch |-> {}]]
    /\ UNCHANGED <<log, call, change, cursor, seen, torn, answers, raced>>

ReadEvents(p) ==
    /\ reading[p].at = "visible"
    /\ reading' = [reading EXCEPT ![p] =
                     [at |-> "events", from |-> 0, visible |-> {},
                      batch |-> {e \in Elements(events) : e.number > cursor[p] /\ e.of \in reading[p].visible}]]
    /\ UNCHANGED <<log, call, change, cursor, seen, torn, answers, raced>>

HighWatermark == IF events = <<>> THEN 0 ELSE Max({e.number : e \in Elements(events)})

ReadEnds(p) ==
    /\ reading[p].at = "events"
    /\ seen' = [seen EXCEPT ![p] = @ \cup reading[p].batch]
    /\ cursor' = [cursor EXCEPT ![p] = HighWatermark]
    /\ reading' = [reading EXCEPT ![p] = NotReading]
    /\ UNCHANGED <<log, call, change, torn, answers, raced>>

Poll(p) == BeginRead(p) \/ ReadFrom(p) \/ ReadVisible(p) \/ ReadEvents(p) \/ ReadEnds(p)

Write(t) == \/ BotTurnEnds(t) \/ Lookup(t) \/ Check(t) \/ Number(t) \/ AppendMessage(t)
            \/ Index(t) \/ Deduplicate(t) \/ Publish(t) \/ Dispatch(t) \/ Recall(t)

Next == \/ \E t \in Threads : Membership(t)
        \/ \E t \in Threads, k \in Keys :
              \/ \E p \in Humans, b \in Bodies : Send(t, p, k, b)
              \/ \E actor \in Humans, p \in Bots : BotTurn(t, actor, p, k)
        \/ \E t \in Threads : Write(t)
        \/ \E p \in Humans : Poll(p)

CSpec == Init /\ [][Next]_cvars

-----------------------------------------------------------------------------
(* The variables have their types, and numbers start at 1. *)
CTypeOK ==
    /\ members \in [Principals -> Seq(Intervals)]
    /\ messages \in Seq(Messages)
    /\ idempotency \in [Principals -> [Keys -> Messages \cup {NONE}]]
    /\ eventSequence \in 0 .. MaxMessages
    /\ events \in Seq(Events)
    /\ quota \in 0 .. Quota
    /\ outcomes \in [Numbers -> Outcomes \cup {NONE}]
    /\ call \in [Threads -> Calls]
    /\ change \in [Threads -> Changes \cup {NONE}]
    /\ reading \in [Humans -> Reads]
    /\ cursor \in [Humans -> 0 .. MaxMessages]
    /\ seen \in [Humans -> SUBSET Events]
    /\ torn \subseteq Humans
    /\ raced \in BOOLEAN

(* Threads or no threads, no more dispatches are queued than the quota.    *)
(* conversation/outbox.py:63.                                              *)
QuotaHolds == quota + Cardinality({n \in Numbers : outcomes[n] = "queued"}) <= Quota

(* ARCHITECTURE.md:254: same key and payload, same result; same key and    *)
(* another payload, a conflict.  While no two writes overlap, all the      *)
(* answers ever given under a key are one and the same, to the same body.  *)
RetryAnswersAlike ==
    raced \/ \A a, b \in answers : a.sender = b.sender /\ a.key = b.key => a = b

(* ARCHITECTURE.md:253: number, message and event are written together.    *)
(* While no two writes overlap, between requests message i has number i,   *)
(* event i and an outcome.                                                 *)
CommitIsWhole ==
    raced \/ Busy \/
    (/\ eventSequence = Len(messages)
     /\ events = [i \in 1 .. Len(messages) |-> [number |-> i, of |-> i]]
     /\ \A i \in 1 .. Len(messages) :
           /\ messages[i].number = i
           /\ idempotency[messages[i].sender][messages[i].key] = messages[i]
           /\ outcomes[i] # NONE)

\* p was a member when message n was written.
MemberAt(p, n) == \E i \in 1 .. Len(members[p]) :
                     /\ members[p][i].joined <= n
                     /\ members[p][i].left = 0 \/ n < members[p][i].left

(* Whoever polls the events only learns of messages written while they     *)
(* were a member: not of those from before they joined, and not, after     *)
(* they came back, of those from while they were away; until two writes    *)
(* overlap, one of which may be their removal, or until they join or leave *)
(* while their own request goes through intervals and log.                 *)
SeenWhileMember ==
    raced \/ \A p \in Humans \ torn : \A e \in seen[p] : MemberAt(p, e.of)

(* A message has a sender who was a member when it was written: a bot that *)
(* is removed while the model thinks says nothing any more.                *)
SpeakersAreMembers ==
    raced \/ \A i \in 1 .. Len(messages) : MemberAt(messages[i].sender, messages[i].number)

(* Membership decides who learns and who says what, at the moment a        *)
(* message is written, as long as neither two writes nor a change of       *)
(* membership and a read of the same member overlap.                       *)
(* conversation/state.py:61, 70, 79, api/application.py:239.               *)
MembersSeeAndSpeak == SeenWhileMember /\ SpeakersAreMembers

(***************************************************************************)
(* The log as MessageLog has it: the messages that are indexed, published  *)
(* and told, that is, all but one that a request has in hand.              *)
(***************************************************************************)
Present == {p \in Principals : Active(p)}
InHand == IF \E t \in Threads : call[t].at \in {"index", "outbox", "publish", "dispatch"} THEN 1 ELSE 0
Entries == [n \in 1 .. Len(messages) - InHand |->
              [sender |-> messages[n].sender, key |-> messages[n].key, body |-> messages[n].body,
               dispatch |-> outcomes[n]]]

Log == INSTANCE MessageLog WITH
           present <- Present, entries <- Entries, told <- answers, lost <- raced

(* A write of many steps is one step to whoever asks: number, event,       *)
(* outcome and answer of a message are given together, once for each key,  *)
(* to members only, and a retry is told the same, until two writes         *)
(* overlap.  conversation/outbox.py:44; ARCHITECTURE.md:253, 254.          *)
ImplementsMessageLog == Log!LSpec

(* ARCHITECTURE.md:256: "Reconnect lay high-watermark, catch-up tu cursor  *)
(* va tiep tuc doc sau do" (a reconnecting client takes the high watermark,*)
(* catches up from its cursor and reads on): a client that polls from the  *)
(* watermarks it is given has got every event up to its cursor.            *)
PollingMissesNothing ==
    \A p \in Humans :
       reading[p].at = "idle" /\ Active(p) =>
          \A e \in Elements(events) : e.number <= cursor[p] /\ e.of \in MessagesFrom(VisibleFrom(p)) => e \in seen[p]
=============================================================================
