-------------------------- MODULE ConversationProofs --------------------------
(***************************************************************************)
(* Theorems about Conversation, for any number of members, threads, keys   *)
(* and messages and any quota.  Types and the quota hold whatever          *)
(* overlaps; that the log, its keys, the outbox, the answers and what      *)
(* readers learn agree is proved up to the step at which two writes, one   *)
(* of which may be a change of membership, overlap; up to that step the    *)
(* conversation implements MessageLog.                                     *)
(***************************************************************************)
EXTENDS Conversation, FiniteSetTheorems, SequenceTheorems, WellFoundedInduction, TLAPS

\* What is known of a request by how far it got.
Shape(t) ==
    LET c == call[t]
    IN  /\ c.at # "idle" => c.sender \in Principals /\ c.key \in Keys /\ c.body \in Bodies \cup {Answer}
        /\ c.at \in {"recall", "append", "index", "outbox", "publish", "dispatch"} => c.message \in Messages
        /\ c.at = "recall" => c.existing \in Messages
        /\ c.at \in {"outbox", "publish", "dispatch"} => c.event \in Events

Shapes == \A t \in Threads : Shape(t)

\* What is kept under the key of a request.
Held(t) == idempotency[call[t].sender][call[t].key]

\* The requests that may still append a message, and those that have yet to count its event.
MayAppend(t) == \/ call[t].at \in {"number", "append"}
                \/ call[t].at \in {"model", "lookup", "check"} /\ Held(t) = NONE
Coming == {t \in Threads : MayAppend(t)}
Indexing == {t \in Threads : call[t].at = "index"}

(* Messages keep within the model's bound, and as many events are counted  *)
(* as messages were indexed, whatever overlapped.                          *)
Counted == /\ Len(messages) + Cardinality(Coming) <= MaxMessages
           /\ eventSequence + Cardinality(Indexing) = Len(messages)
           /\ \A p \in Principals, k \in Keys : idempotency[p][k] # NONE => eventSequence >= 1

\* Message n is in the log, and p was a member when it was written.
Witnessed(p, n) == n <= Len(messages) /\ MemberAt(p, n)

(* Everybody has an interval, nobody joined in the future, and numbers are *)
(* of the log, whatever overlapped.                                        *)
NoneAhead ==
    /\ \A p \in Principals : members[p] # <<>>
    /\ \A p \in Principals : \A i \in 1 .. Len(members[p]) : members[p][i].joined <= Len(messages) + 1
    /\ \A t \in Threads : change[t] # NONE => change[t].interval.joined <= Len(messages) + 1
    /\ \A i \in 1 .. Len(messages) : messages[i].number <= Len(messages)
    /\ \A t \in Threads : call[t].at = "append" => call[t].message.number <= Len(messages) + 1

(* What a reader holds or has got was written while they were a member,    *)
(* and nobody reads while a change of their own membership is under way.   *)
OnlyWitnessed ==
    \A p \in Humans \ torn :
        /\ reading[p].at \in {"active", "from"} => Active(p) /\ ChangesOf(p) = {}
        /\ reading[p].at = "from" => reading[p].from = VisibleFrom(p)
        /\ \A n \in reading[p].visible : Witnessed(p, n)
        /\ \A e \in reading[p].batch : Witnessed(p, e.of)
        /\ \A e \in seen[p] : Witnessed(p, e.of)

(* A change of membership under way is the only one, nobody writes, and    *)
(* nothing it found has changed.  Only last intervals are active.          *)
Alone ==
    /\ \A p \in Principals : \A i \in 1 .. Len(members[p]) :
          members[p][i].left = 0 => i = Len(members[p])
    /\ \A t \in Threads : change[t] # NONE =>
          LET p == change[t].who
              interval == change[t].interval
          IN  /\ ~Busy /\ \A u \in Threads : change[u] # NONE => u = t
              /\ interval.left = 0 => ~Active(p)
              /\ interval.left # 0 => /\ interval.joined = members[p][Len(members[p])].joined
                                      /\ interval.left = Len(messages) + 1

(* While no two writes overlap the log is written in steps: all messages   *)
(* of it, or all but the last, are indexed, published and told.            *)
Written(i, e, o) ==
    /\ eventSequence = Len(messages) - i
    /\ \A j \in 1 .. Len(messages) : messages[j].number = j
    /\ \A j \in 1 .. Len(messages) - i : idempotency[messages[j].sender][messages[j].key] = messages[j]
    /\ \A p \in Principals, k \in Keys :
          idempotency[p][k] # NONE =>
             /\ idempotency[p][k].number \in 1 .. Len(messages) - i
             /\ idempotency[p][k] = messages[idempotency[p][k].number]
    /\ events = [j \in 1 .. Len(messages) - e |-> [number |-> j, of |-> j]]
    /\ \A j \in Numbers : outcomes[j] # NONE <=> j <= Len(messages) - o

Whole == Written(0, 0, 0)

\* The request wrote, or is about to write, message n.
Composed(t, n) == call[t].message = [sender |-> call[t].sender, key |-> call[t].key,
                                     body |-> call[t].body, number |-> n]

(* How far the one request that writes has got.                            *)
Reached(t) ==
    LET c == call[t]
        n == Len(messages)
    IN  /\ c.at = "check" => Whole /\ c.existing = Held(t)
        /\ c.at = "recall" => /\ Whole /\ Held(t) # NONE /\ c.existing = Held(t)
                              /\ c.message = Held(t) /\ c.body = Held(t).body
        /\ c.at = "number" => Whole /\ Held(t) = NONE /\ Active(c.sender)
        /\ c.at = "append" => Whole /\ Held(t) = NONE /\ Active(c.sender) /\ Composed(t, n + 1)
        /\ c.at = "index" => /\ Written(1, 1, 1) /\ n >= 1 /\ Held(t) = NONE
                             /\ Composed(t, n) /\ messages[n] = c.message
        /\ c.at \in {"outbox", "publish"} =>
              /\ Written(0, 1, 1) /\ n >= 1 /\ Held(t) = c.message
              /\ Composed(t, n) /\ c.event = [number |-> n, of |-> n]
        /\ c.at = "dispatch" =>
              /\ Written(0, 0, 1) /\ n >= 1 /\ Held(t) = c.message
              /\ Composed(t, n) /\ c.event = [number |-> n, of |-> n]

OneWriter == \A t, u \in Threads : call[t].at \in Writing /\ call[u].at \in Writing => t = u

(* An answer is the message kept under its key, with its outcome and event. *)
Told(a) ==
    LET m == idempotency[a.sender][a.key]
    IN  /\ a.sender \in Principals /\ a.key \in Keys /\ m # NONE /\ outcomes[m.number] # NONE
        /\ a = [sender |-> a.sender, key |-> a.key, body |-> m.body, number |-> m.number,
                dispatch |-> outcomes[m.number], event |-> [number |-> m.number, of |-> m.number]]

\* Who spoke was a member.
SpokenByMembers == \A i \in 1 .. Len(messages) : MemberAt(messages[i].sender, messages[i].number)

(* What holds until two writes overlap. *)
InStep == /\ OneWriter
          /\ ~Busy => Whole
          /\ \A t \in Threads : Reached(t)
          /\ \A a \in answers : Told(a)
          /\ SpokenByMembers

(* The inductive invariant. *)
CInv == /\ CTypeOK /\ Shapes /\ Counted /\ QuotaHolds /\ NoneAhead
        /\ raced \/ (InStep /\ Alone /\ OnlyWitnessed)

-----------------------------------------------------------------------------
(* Types.  There is room for whoever may append a message, and an event    *)
(* number left for whoever counts one.                                     *)
LEMMA RoomIsLeft ==
    ASSUME CTypeOK, Counted
    PROVE  /\ IsFiniteSet(Coming) /\ Cardinality(Coming) \in Nat
           /\ IsFiniteSet(Indexing) /\ Cardinality(Indexing) \in Nat
           /\ Len(messages) \in 0 .. MaxMessages /\ eventSequence \in 0 .. Len(messages)
           /\ \A t \in Threads : MayAppend(t) => Len(messages) < MaxMessages
           /\ \A t \in Threads : call[t].at = "index" => eventSequence < Len(messages)
<1>1. /\ IsFiniteSet(Coming) /\ Cardinality(Coming) \in Nat
      /\ IsFiniteSet(Indexing) /\ Cardinality(Indexing) \in Nat
  BY ConversationAssumption, FS_Subset, FS_CardinalityType DEF Coming, Indexing
<1>2. Len(messages) \in Nat /\ eventSequence \in Nat /\ MaxMessages \in Nat
  BY ConversationAssumption DEF CTypeOK
<1>3. \A t \in Threads : MayAppend(t) => Cardinality(Coming) # 0
  BY <1>1, FS_EmptySet DEF Coming
<1>4. \A t \in Threads : call[t].at = "index" => Cardinality(Indexing) # 0
  BY <1>1, FS_EmptySet DEF Indexing
<1> QED
  BY <1>1, <1>2, <1>3, <1>4 DEF Counted

(* A new conversation has no message and no request. *)
LEMMA InitIsTyped == Init => CTypeOK /\ Shapes
<1> SUFFICES ASSUME Init PROVE CTypeOK /\ Shapes
  OBVIOUS
<1> USE ConversationAssumption DEF Init
<1>1. <<[joined |-> 1, left |-> 0]>> \in Seq(Intervals)
  BY DEF Intervals
<1>2. Idle \in Calls /\ NotReading \in Reads
  BY DEF Idle, Calls, NotReading, Reads
<1>3. /\ members \in [Principals -> Seq(Intervals)] /\ messages \in Seq(Messages)
      /\ idempotency \in [Principals -> [Keys -> Messages \cup {NONE}]]
      /\ eventSequence \in 0 .. MaxMessages /\ events \in Seq(Events) /\ quota \in 0 .. Quota
  BY <1>1
<1>4. /\ outcomes \in [Numbers -> Outcomes \cup {NONE}]
      /\ call \in [Threads -> Calls] /\ reading \in [Humans -> Reads]
      /\ change \in [Threads -> Changes \cup {NONE}] /\ torn \subseteq Humans
  BY <1>2
<1>5. CTypeOK
  <2>1. cursor \in [Humans -> 0 .. MaxMessages]
    OBVIOUS
  <2>2. seen \in [Humans -> SUBSET Events]
    OBVIOUS
  <2>3. raced \in BOOLEAN
    OBVIOUS
  <2> QED
    BY <1>3, <1>4, <2>1, <2>2, <2>3 DEF CTypeOK
<1>6. Shapes
  BY DEF Shapes, Shape, Idle
<1> QED
  BY <1>5, <1>6

(* A finite set of integers has a greatest element: the one with the       *)
(* fewest elements above it.                                               *)
LEMMA GreatestExists ==
    ASSUME NEW S \in SUBSET Int, IsFiniteSet(S), S # {}
    PROVE  Max(S) \in S /\ \A y \in S : y <= Max(S)
<1> DEFINE Above(x) == {y \in S : y > x}
           Counts == {Cardinality(Above(x)) : x \in S}
<1>1. ASSUME NEW x \in S
      PROVE  IsFiniteSet(Above(x)) /\ Cardinality(Above(x)) \in Nat
  BY FS_Subset, FS_CardinalityType
<1>2. Counts \subseteq Nat /\ Counts # {}
  BY <1>1
<1>3. PICK x \in S : \A y \in S : ~(Cardinality(Above(y)) < Cardinality(Above(x)))
  <2>1. PICK k \in Counts : \A l \in Counts : ~(<<l, k>> \in OpToRel(<, Nat))
    BY <1>2, NatLessThanWellFounded, WFMin
  <2>2. \A l \in Counts : ~(l < k)
    BY <1>2, <2>1 DEF OpToRel
  <2> QED
    BY <2>2
<1>4. ASSUME NEW y \in S PROVE x >= y
  <2>0. x \in Int /\ y \in Int /\ \A z \in S : z \in Int
    OBVIOUS
  <2>1. SUFFICES ASSUME y > x PROVE FALSE
    BY <2>0
  <2>2. Above(y) \subseteq Above(x) /\ y \in Above(x) /\ y \notin Above(y)
    <3>1. ASSUME NEW z \in S, z > y PROVE z > x
      BY <2>0, <2>1, <3>1
    <3>2. y \in Above(x) /\ y \notin Above(y)
      BY <2>0, <2>1
    <3> QED
      BY <3>1, <3>2
  <2>3. Cardinality(Above(y)) <= Cardinality(Above(x)) /\ Cardinality(Above(y)) # Cardinality(Above(x))
    BY <1>1, <2>2, FS_Subset
  <2> QED
    BY <1>1, <1>3, <2>3
<1>5. Max(S) \in S /\ \A y \in S : Max(S) >= y
  BY <1>4 DEF Max
<1> QED
  BY <1>5

(* The last active interval is one of the intervals. *)
LEMMA LastActiveIsOne ==
    ASSUME CTypeOK, NEW p \in Principals, Active(p)
    PROVE  LastActive(p) \in 1 .. Len(members[p]) /\ members[p][LastActive(p)].left = 0
<1> DEFINE S == {i \in 1 .. Len(members[p]) : members[p][i].left = 0}
<1>1. PICK i \in 1 .. Len(members[p]) : members[p][i].left = 0
  BY DEF Active
<1>2. Len(members[p]) \in Nat
  BY DEF CTypeOK
<1>3. IsFiniteSet(S) /\ S \in SUBSET Int
  <2>1. IsFiniteSet(1 .. Len(members[p])) /\ 1 .. Len(members[p]) \subseteq Int
    BY <1>2, FS_Interval
  <2>2. S \subseteq 1 .. Len(members[p])
    OBVIOUS
  <2> HIDE DEF S
  <2> QED
    BY <2>1, <2>2, FS_Subset
<1>4. i \in S
  BY <1>1
<1>5. Max(S) \in S
  <2> HIDE DEF S
  <2> QED
    BY <1>3, <1>4, GreatestExists
<1> QED
  BY <1>5 DEF LastActive

(* The interval of a change. *)
LEMMA ChangeMeans ==
    ASSUME CTypeOK, Counted, NEW t \in Threads, NEW p \in Principals, AddMember(t, p) \/ RemoveMember(t, p)
    PROVE  \E interval \in Intervals :
              /\ BeginChange(t, p, interval)
              /\ \/ AddMember(t, p) /\ interval = [joined |-> Len(messages) + 1, left |-> 0]
                 \/ /\ RemoveMember(t, p)
                    /\ interval = [joined |-> members[p][LastActive(p)].joined, left |-> Len(messages) + 1]
<1>1. Len(messages) \in Nat /\ Len(messages) + 1 \in 1 .. MaxMessages + 1 /\ MaxMessages \in Nat
  BY RoomIsLeft, ConversationAssumption
<1>2. CASE AddMember(t, p)
  <2>1. [joined |-> Len(messages) + 1, left |-> 0] \in Intervals
    BY <1>1 DEF Intervals
  <2> QED
    BY <1>2, <2>1 DEF AddMember
<1>3. CASE RemoveMember(t, p)
  <2>1. members[p][LastActive(p)] \in Intervals
    BY <1>3, LastActiveIsOne DEF RemoveMember, CTypeOK
  <2>2. [joined |-> members[p][LastActive(p)].joined, left |-> Len(messages) + 1] \in Intervals
    BY <1>1, <2>1 DEF Intervals
  <2> QED
    BY <1>3, <2>2 DEF RemoveMember
<1> QED
  BY <1>2, <1>3

(* The change of thread t, of p, becomes p's last interval. *)
Stores(t, p, interval) ==
    /\ change[t] # NONE /\ change[t].who = p /\ change[t].interval = interval
    /\ Len(members[p]) \in Nat /\ Len(members[p]) >= 1
    /\ members'[p] = IF interval.left = 0 THEN Append(members[p], interval)
                     ELSE [members[p] EXCEPT ![Len(members[p])] = interval]
    /\ members'[p] \in Seq(Intervals)
    /\ \A q \in Principals : q # p => members'[q] = members[q]

LEMMA StoreMeans ==
    ASSUME CTypeOK, NoneAhead, NEW t \in Threads, StoreInterval(t)
    PROVE  \E p \in Principals, interval \in Intervals : Stores(t, p, interval)
<1>1. change[t] \in Changes /\ change[t] # NONE
  BY DEF StoreInterval, CTypeOK
<1>2. PICK p \in Principals, interval \in Intervals : change[t].who = p /\ change[t].interval = interval
  BY <1>1 DEF Changes
<1>3. members[p] \in Seq(Intervals) /\ members[p] # <<>> /\ Len(members[p]) \in Nat /\ Len(members[p]) >= 1
  BY DEF CTypeOK, NoneAhead
<1> DEFINE new == IF interval.left = 0 THEN Append(members[p], interval)
                  ELSE [members[p] EXCEPT ![Len(members[p])] = interval]
<1>4. new \in Seq(Intervals)
  BY <1>3
<1>5. members' = [members EXCEPT ![p] = new]
  BY <1>2 DEF StoreInterval
<1>6. members'[p] = new /\ \A q \in Principals : q # p => members'[q] = members[q]
  BY <1>5 DEF CTypeOK
<1> HIDE DEF new
<1>7. members'[p] \in Seq(Intervals)
  BY <1>4, <1>6
<1> QED
  BY <1>1, <1>2, <1>3, <1>6, <1>7 DEF new, Stores

(* Joining and leaving add an interval or replace the last. *)
LEMMA MembershipKeepsTypes ==
    ASSUME CTypeOK, Shapes, Counted, NoneAhead, NEW t \in Threads, Membership(t)
    PROVE  CTypeOK' /\ Shapes'
<1>1. CASE StoreInterval(t)
  <2>1. members' \in [Principals -> Seq(Intervals)]
    <3>1. DOMAIN members' = Principals /\ members' = [q \in Principals |-> members'[q]]
      BY <1>1 DEF StoreInterval, CTypeOK
    <3>2. \A q \in Principals : members'[q] \in Seq(Intervals)
      BY <1>1, StoreMeans DEF CTypeOK, Stores
    <3> QED
      BY <3>1, <3>2
  <2>2. change' \in [Threads -> Changes \cup {NONE}]
    BY <1>1 DEF StoreInterval, CTypeOK
  <2>3. UNCHANGED <<messages, idempotency, eventSequence, events, quota, outcomes, call,
                    reading, cursor, seen, torn, answers, raced>>
    BY <1>1 DEF StoreInterval
  <2>4. CTypeOK'
    BY <2>1, <2>2, <2>3 DEF CTypeOK
  <2> QED
    BY <2>3, <2>4 DEF Shapes, Shape
<1>2. ASSUME NEW p \in Principals, NEW interval \in Intervals, BeginChange(t, p, interval)
      PROVE  CTypeOK' /\ Shapes'
  <2>1. [who |-> p, interval |-> interval] \in Changes
    BY DEF Changes
  <2>2. change' \in [Threads -> Changes \cup {NONE}] /\ torn' \subseteq Humans /\ raced' \in BOOLEAN
    BY <1>2, <2>1 DEF BeginChange, CTypeOK, Busy, Changing
  <2>3. UNCHANGED <<log, call, reading, cursor, seen, answers>>
    BY <1>2 DEF BeginChange
  <2>4. CTypeOK'
    BY <2>2, <2>3 DEF CTypeOK, log
  <2> QED
    BY <2>3, <2>4 DEF Shapes, Shape
<1> QED
  BY <1>1, <1>2, ChangeMeans DEF Membership

(* A step of a request that changes nothing but the request. *)
LEMMA OnwardMeans ==
    ASSUME CTypeOK, NEW t \in Threads, NEW step, NEW x, NEW m, NEW e, Onward(t, step, x, m, e)
    PROVE  /\ call'[t].at = step /\ call'[t].existing = x /\ call'[t].message = m /\ call'[t].event = e
           /\ call'[t].sender = call[t].sender /\ call'[t].key = call[t].key /\ call'[t].body = call[t].body
           /\ \A u \in Threads : u # t => call'[u] = call[u]
BY DEF Onward, CTypeOK

(* A request that goes on has what its next step needs. *)
LEMMA OnwardKeepsTypes ==
    ASSUME CTypeOK, Shapes, NEW t \in Threads, NEW step \in Writing \cup {"lookup"},
           NEW x \in Messages \cup {NONE}, NEW m \in Messages \cup {NONE}, NEW e \in Events \cup {NONE},
           Onward(t, step, x, m, e), call[t].at # "idle",
           step \in {"recall", "append", "index", "outbox", "publish", "dispatch"} => m \in Messages,
           step = "recall" => x \in Messages,
           step \in {"outbox", "publish", "dispatch"} => e \in Events
    PROVE  call' \in [Threads -> Calls] /\ Shapes'
<1> DEFINE c == [at |-> step, sender |-> call[t].sender, key |-> call[t].key, body |-> call[t].body,
                 existing |-> x, message |-> m, event |-> e]
<1>1. call[t] \in Calls /\ Shape(t) /\ call \in [Threads -> Calls]
  BY DEF CTypeOK, Shapes
<1>2. c \in Calls
  BY <1>1 DEF Calls
<1>3. call' = [call EXCEPT ![t] = c]
  BY DEF Onward
<1>4. Shape(t)'
  <2>1. call'[t] = c
    BY <1>1, <1>3
  <2> QED
    BY <1>1, <2>1 DEF Shape
<1>5. \A u \in Threads : u # t => call'[u] = call[u]
  BY <1>1, <1>3
<1>6. Shapes'
  BY <1>4, <1>5 DEF Shapes, Shape
<1> QED
  BY <1>1, <1>2, <1>3, <1>6

LEMMA GotoKeepsTypes ==
    ASSUME CTypeOK, Shapes, NEW t \in Threads, NEW step, Goto(t, step),
           \/ call[t].at = "model" /\ step = "lookup"
           \/ call[t].at = "check" /\ step = "number"
           \/ call[t].at = "append" /\ step = "index"
           \/ call[t].at = "outbox" /\ step \in {"publish", "dispatch"}
           \/ call[t].at = "publish" /\ step = "dispatch"
    PROVE  call' \in [Threads -> Calls] /\ Shapes'
<1>1. call[t] \in Calls /\ Shape(t)
  BY DEF CTypeOK, Shapes
<1>2. /\ call[t].existing \in Messages \cup {NONE} /\ call[t].message \in Messages \cup {NONE}
      /\ call[t].event \in Events \cup {NONE}
  BY <1>1 DEF Calls
<1>3. /\ step \in Writing \cup {"lookup"} /\ call[t].at # "idle" /\ step # "recall"
      /\ step \in {"append", "index", "outbox", "publish", "dispatch"} => call[t].message \in Messages
      /\ step \in {"outbox", "publish", "dispatch"} => call[t].event \in Events
  BY <1>1 DEF Writing, Shape
<1> QED
  BY <1>2, <1>3, OnwardKeepsTypes DEF Goto

LEMMA DoneKeepsTypes ==
    ASSUME CTypeOK, Shapes, NEW t \in Threads, Done(t)
    PROVE  /\ call' \in [Threads -> Calls] /\ Shapes'
           /\ call'[t].at = "idle" /\ \A u \in Threads : u # t => call'[u] = call[u]
<1>1. Idle \in Calls /\ Idle.at = "idle"
  BY DEF Idle, Calls
<1>2. call' \in [Threads -> Calls] /\ call'[t] = Idle /\ \A u \in Threads : u # t => call'[u] = call[u]
  BY <1>1 DEF Done, CTypeOK
<1> QED
  BY <1>1, <1>2 DEF Shapes, Shape

LEMMA RequestKeepsTypes ==
    ASSUME CTypeOK, Shapes, NEW t \in Threads, NEW p \in Principals, NEW k \in Keys, NEW b \in Bodies \cup {Answer},
           NEW step \in {"lookup", "model"}, call' = [call EXCEPT ![t] = Request(step, p, k, b)]
    PROVE  /\ call' \in [Threads -> Calls] /\ Shapes'
           /\ call'[t] = Request(step, p, k, b) /\ \A u \in Threads : u # t => call'[u] = call[u]
<1>1. Request(step, p, k, b) \in Calls
  BY DEF Request, Calls
<1>2. /\ call' \in [Threads -> Calls] /\ call'[t] = Request(step, p, k, b)
      /\ \A u \in Threads : u # t => call'[u] = call[u]
  BY <1>1 DEF CTypeOK
<1>3. Shape(t)'
  BY <1>2 DEF Shape, Request
<1> QED
  BY <1>2, <1>3 DEF Shapes, Shape

\* All but the requests has its type.
Typed == /\ members \in [Principals -> Seq(Intervals)]
         /\ messages \in Seq(Messages)
         /\ idempotency \in [Principals -> [Keys -> Messages \cup {NONE}]]
         /\ eventSequence \in 0 .. MaxMessages
         /\ events \in Seq(Events)
         /\ quota \in 0 .. Quota
         /\ outcomes \in [Numbers -> Outcomes \cup {NONE}]
         /\ change \in [Threads -> Changes \cup {NONE}]
         /\ reading \in [Humans -> Reads]
         /\ cursor \in [Humans -> 0 .. MaxMessages]
         /\ seen \in [Humans -> SUBSET Events]
         /\ torn \subseteq Humans
         /\ raced \in BOOLEAN

(* The types of the requests, and those of everything else. *)
LEMMA TypesAreTyped == CTypeOK <=> Typed /\ call \in [Threads -> Calls]
BY DEF CTypeOK, Typed

LEMMA NextTypesAreTyped == CTypeOK' <=> Typed' /\ call' \in [Threads -> Calls]
BY DEF CTypeOK, Typed

LEMMA QuietKeepsTyped ==
    ASSUME CTypeOK, UNCHANGED <<log, beside>>, raced' \in BOOLEAN
    PROVE  Typed'
BY DEF CTypeOK, Typed, log, beside

(* Each step of a request keeps the types. *)
LEMMA LookupKeepsTypes ==
    ASSUME CTypeOK, Shapes, NEW t \in Threads, Lookup(t)
    PROVE  CTypeOK' /\ Shapes'
<1>1. call[t].at = "lookup" /\ Shape(t) /\ NONE \in Events \cup {NONE} /\ NONE \in Messages \cup {NONE}
  BY DEF Lookup, Shapes
<1>2. Held(t) \in Messages \cup {NONE}
  BY <1>1 DEF Shape, Held, CTypeOK
<1>3. call' \in [Threads -> Calls] /\ Shapes'
  <2>1. "check" \in Writing \cup {"lookup"}
    BY DEF Writing
  <2>2. Onward(t, "check", Held(t), NONE, NONE)
    BY DEF Lookup, Kept, Held
  <2> QED
    BY <1>1, <1>2, <2>1, <2>2, OnwardKeepsTypes
<1>4. Typed'
  BY QuietKeepsTyped DEF Lookup, Busy, Changing, CTypeOK
<1> QED
  BY <1>3, <1>4, NextTypesAreTyped

LEMMA CheckKeepsTypes ==
    ASSUME CTypeOK, Shapes, Counted, NEW t \in Threads, Check(t)
    PROVE  CTypeOK' /\ Shapes'
<1>1. call[t].at = "check" /\ Shape(t) /\ call[t] \in Calls
  BY DEF Check, Shapes, CTypeOK
<1>2. Held(t) \in Messages \cup {NONE}
  BY <1>1 DEF Shape, Held, CTypeOK
<1>3. Typed'
  BY QuietKeepsTyped DEF Check, CTypeOK
<1>4. call' \in [Threads -> Calls] /\ Shapes'
  <2>1. CASE Done(t)
    BY <2>1, DoneKeepsTypes
  <2>2. CASE Goto(t, "number")
    BY <1>1, <2>2, GotoKeepsTypes
  <2>3. CASE /\ Held(t) # NONE
             /\ Onward(t, IF call[t].existing # NONE THEN "recall" ELSE "outbox", call[t].existing, Held(t),
                       [number |-> eventSequence, of |-> Held(t).number])
    <3> DEFINE step == IF call[t].existing # NONE THEN "recall" ELSE "outbox"
               e == [number |-> eventSequence, of |-> Held(t).number]
    <3>1. Held(t) \in Messages /\ Held(t).number \in Numbers
      BY <1>2, <2>3 DEF Messages
    <3>2. eventSequence \in Numbers
      <4>1. call[t].sender \in Principals /\ call[t].key \in Keys
        BY <1>1 DEF Shape
      <4>2. eventSequence >= 1 /\ eventSequence \in 0 .. MaxMessages
        BY <2>3, <4>1 DEF Counted, Held, CTypeOK
      <4> QED
        BY <4>2, ConversationAssumption DEF Numbers
    <3>3. e \in Events
      BY <3>1, <3>2 DEF Events
    <3>4. /\ step \in Writing \cup {"lookup"} /\ call[t].existing \in Messages \cup {NONE}
          /\ step = "recall" => call[t].existing \in Messages
      BY <1>1 DEF Calls, Writing
    <3>5. Onward(t, step, call[t].existing, Held(t), e)
      BY <2>3
    <3> HIDE DEF step, e
    <3> QED
      BY <1>1, <1>2, <3>1, <3>3, <3>4, <3>5, OnwardKeepsTypes
  <2> QED
    BY <2>1, <2>2, <2>3 DEF Check, Held
<1> QED
  BY <1>3, <1>4, NextTypesAreTyped

LEMMA NumberKeepsTypes ==
    ASSUME CTypeOK, Shapes, Counted, NEW t \in Threads, Number(t)
    PROVE  CTypeOK' /\ Shapes'
<1> DEFINE m == [sender |-> call[t].sender, key |-> call[t].key, body |-> call[t].body, number |-> NextNumber]
<1>1. call[t].at = "number" /\ Shape(t) /\ NONE \in Events \cup {NONE} /\ NONE \in Messages \cup {NONE}
  BY DEF Number, Shapes
<1>2. NextNumber \in Numbers
  <2>1. MayAppend(t)
    BY <1>1 DEF MayAppend
  <2> QED
    BY <2>1, RoomIsLeft, ConversationAssumption DEF NextNumber, Numbers
<1>3. m \in Messages
  BY <1>1, <1>2 DEF Shape, Messages
<1>4. call' \in [Threads -> Calls] /\ Shapes'
  <2>1. "append" \in Writing \cup {"lookup"}
    BY DEF Writing
  <2>2. Onward(t, "append", NONE, m, NONE)
    BY DEF Number
  <2> HIDE DEF m
  <2> QED
    BY <1>1, <1>3, <2>1, <2>2, OnwardKeepsTypes
<1>5. Typed'
  BY QuietKeepsTyped DEF Number, CTypeOK
<1> QED
  BY <1>4, <1>5, NextTypesAreTyped

LEMMA AppendKeepsTypes ==
    ASSUME CTypeOK, Shapes, NEW t \in Threads, AppendMessage(t)
    PROVE  CTypeOK' /\ Shapes'
<1>1. call[t].at = "append" /\ call[t].message \in Messages
  BY DEF AppendMessage, Shapes, Shape
<1>2. messages' \in Seq(Messages)
  BY <1>1 DEF AppendMessage, CTypeOK
<1>3. Typed'
  BY <1>2 DEF AppendMessage, CTypeOK, Typed, beside
<1>4. call' \in [Threads -> Calls] /\ Shapes'
  BY <1>1, GotoKeepsTypes DEF AppendMessage
<1> QED
  BY <1>3, <1>4, NextTypesAreTyped

LEMMA IndexKeepsTypes ==
    ASSUME CTypeOK, Shapes, Counted, NEW t \in Threads, Index(t)
    PROVE  CTypeOK' /\ Shapes'
<1> DEFINE e == [number |-> eventSequence', of |-> call[t].message.number]
<1>1. call[t].at = "index" /\ Shape(t) /\ call[t].message \in Messages
  BY DEF Index, Shapes, Shape
<1>2. eventSequence' \in Numbers
  BY <1>1, RoomIsLeft, ConversationAssumption DEF Index, Numbers
<1>3. e \in Events
  BY <1>1, <1>2 DEF Messages, Events
<1>4. idempotency' \in [Principals -> [Keys -> Messages \cup {NONE}]]
  <2>1. call[t].sender \in Principals /\ call[t].key \in Keys
    BY <1>1 DEF Shape
  <2> QED
    BY <1>1, <2>1 DEF Index, CTypeOK
<1>5. call' \in [Threads -> Calls] /\ Shapes'
  <2>1. "outbox" \in Writing \cup {"lookup"} /\ NONE \in Messages \cup {NONE}
    BY DEF Writing
  <2>2. Onward(t, "outbox", NONE, call[t].message, e)
    BY DEF Index
  <2> HIDE DEF e
  <2> QED
    BY <1>1, <1>3, <2>1, <2>2, OnwardKeepsTypes
<1>6. Typed'
  BY <1>2, <1>4 DEF Index, CTypeOK, Typed, beside, Numbers
<1> QED
  BY <1>5, <1>6, NextTypesAreTyped

LEMMA PublishKeepsTypes ==
    ASSUME CTypeOK, Shapes, NEW t \in Threads, Publish(t)
    PROVE  CTypeOK' /\ Shapes'
<1>1. call[t].at = "publish" /\ call[t].event \in Events
  BY DEF Publish, Shapes, Shape
<1>2. events' \in Seq(Events)
  BY <1>1 DEF Publish, CTypeOK
<1>3. Typed'
  BY <1>2 DEF Publish, CTypeOK, Typed, beside
<1>4. call' \in [Threads -> Calls] /\ Shapes'
  BY <1>1, GotoKeepsTypes DEF Publish
<1> QED
  BY <1>3, <1>4, NextTypesAreTyped

\* What becomes of the dispatch of message m, by whose it is and what is left of the quota.
Decision(m, left) == CASE m.sender \in Bots -> "completed"
                       [] m.sender \in Humans /\ left > 0 -> "queued"
                       [] OTHER -> "rejected_quota"

LEMMA DecisionIsOutcome ==
    ASSUME NEW m, NEW left \in 0 .. Quota
    PROVE  Decision(m, left) \in Outcomes /\ (Decision(m, left) = "queued" => left > 0)
<1>1. CASE m.sender \in Bots
  BY <1>1, ConversationAssumption DEF Decision, Outcomes
<1>2. CASE m.sender \notin Bots
  BY <1>2 DEF Decision, Outcomes
<1> QED
  BY <1>1, <1>2

(* The dispatch that is decided is the one that is kept and told. *)
LEMMA DispatchMeans ==
    ASSUME NEW t \in Threads, Dispatch(t)
    PROVE  \E dispatch :
              /\ dispatch = Decision(call[t].message, quota)
              /\ quota' = quota - Spent(dispatch)
              /\ outcomes' = [outcomes EXCEPT ![call[t].message.number] = dispatch]
              /\ Acknowledge(call[t], dispatch, call[t].event)
BY DEF Dispatch, Decision

LEMMA DispatchKeepsTypes ==
    ASSUME CTypeOK, Shapes, NEW t \in Threads, Dispatch(t)
    PROVE  CTypeOK' /\ Shapes'
<1>1. call[t].message \in Messages /\ Done(t)
  BY DEF Dispatch, Shapes, Shape
<1>2. PICK dispatch : /\ dispatch = Decision(call[t].message, quota)
                      /\ quota' = quota - Spent(dispatch)
                      /\ outcomes' = [outcomes EXCEPT ![call[t].message.number] = dispatch]
  BY DispatchMeans
<1>3. quota \in 0 .. Quota /\ Quota \in Nat /\ raced \in BOOLEAN
  BY ConversationAssumption DEF CTypeOK
<1>4. dispatch \in Outcomes /\ (dispatch = "queued" => quota > 0)
  BY <1>2, <1>3, DecisionIsOutcome
<1>5. quota' \in 0 .. Quota
  BY <1>2, <1>3, <1>4 DEF Spent
<1>6. outcomes' \in [Numbers -> Outcomes \cup {NONE}]
  BY <1>1, <1>2, <1>4 DEF CTypeOK, Messages
<1>7. Typed'
  BY <1>5, <1>6 DEF Dispatch, CTypeOK, Typed, beside
<1> QED
  BY <1>1, <1>7, DoneKeepsTypes, NextTypesAreTyped

LEMMA WatermarkIsANumber ==
    ASSUME CTypeOK
    PROVE  HighWatermark \in 0 .. MaxMessages
<1> DEFINE S == {e.number : e \in Elements(events)}
<1>1. S \subseteq Numbers
  <2>1. \A e \in Elements(events) : e \in Events
    BY DEF CTypeOK, Elements
  <2> QED
    BY <2>1 DEF Events
<1>2. IsFiniteSet(S) /\ S \in SUBSET Int
  <2>1. IsFiniteSet(Numbers) /\ Numbers \subseteq Int
    BY ConversationAssumption, FS_Interval DEF Numbers
  <2> HIDE DEF S
  <2> QED
    BY <1>1, <2>1, FS_Subset
<1>3. CASE events = <<>>
  BY <1>3, ConversationAssumption DEF HighWatermark
<1>4. CASE events # <<>>
  <2>1. Len(events) \in 1 .. Len(events)
    BY <1>4 DEF CTypeOK
  <2>2. S # {}
    BY <2>1 DEF Elements
  <2>3. HighWatermark = Max(S)
    BY <1>4 DEF HighWatermark
  <2> HIDE DEF S
  <2>4. Max(S) \in Numbers
    BY <1>1, <1>2, <2>2, GreatestExists
  <2> QED
    BY <2>3, <2>4, ConversationAssumption DEF Numbers
<1> QED
  BY <1>3, <1>4

(* Where a reader may see from is a message number. *)
LEMMA VisibleFromIsGreatest ==
    ASSUME CTypeOK, NoneAhead, NEW p \in Principals
    PROVE  /\ VisibleFrom(p) \in 1 .. MaxMessages + 1
           /\ \A i \in 1 .. Len(members[p]) : members[p][i].joined <= VisibleFrom(p)
<1> DEFINE S == {members[p][i].joined : i \in 1 .. Len(members[p])}
<1>1. Len(members[p]) \in Nat /\ Len(members[p]) >= 1 /\ members[p] \in Seq(Intervals)
  BY DEF CTypeOK, NoneAhead
<1>2. ASSUME NEW i \in 1 .. Len(members[p]) PROVE members[p][i].joined \in 1 .. MaxMessages + 1
  <2>1. members[p][i] \in Intervals
    BY <1>1
  <2> QED
    BY <2>1 DEF Intervals
<1>3. S \subseteq 1 .. MaxMessages + 1 /\ \A i \in 1 .. Len(members[p]) : members[p][i].joined \in S
  BY <1>2
<1>4. members[p][1].joined \in S
  BY <1>1
<1> HIDE DEF S
<1>5. IsFiniteSet(S) /\ S \in SUBSET Int
  <2>1. IsFiniteSet(1 .. MaxMessages + 1) /\ 1 .. MaxMessages + 1 \subseteq Int
    BY ConversationAssumption, FS_Interval
  <2> QED
    BY <1>3, <2>1, FS_Subset
<1>6. Max(S) \in S /\ \A y \in S : y <= Max(S)
  BY <1>4, <1>5, GreatestExists
<1>7. VisibleFrom(p) = Max(S)
  BY DEF VisibleFrom, S
<1> QED
  BY <1>3, <1>6, <1>7

(* Requests that read. *)
LEMMA ReadsKeepTypes ==
    ASSUME CTypeOK, Shapes, NoneAhead, NEW p \in Humans, Poll(p)
    PROVE  CTypeOK' /\ Shapes'
<1>1. UNCHANGED <<log, call, change, raced>>
  BY DEF Poll, BeginRead, ReadFrom, ReadVisible, ReadEvents, ReadEnds
<1>2. reading' \in [Humans -> Reads]
  <2>0. /\ reading \in [Humans -> Reads] /\ reading[p] \in Reads /\ NotReading \in Reads
        /\ MaxMessages \in Nat /\ p \in Principals
    BY ConversationAssumption DEF CTypeOK, NotReading, Reads, Principals
  <2>1. CASE BeginRead(p)
    <3>1. [reading[p] EXCEPT !.at = "active"] \in Reads
      BY <2>0 DEF Reads
    <3>2. reading' = [reading EXCEPT ![p] = [reading[p] EXCEPT !.at = "active"]]
      BY <2>1 DEF BeginRead
    <3> QED
      BY <2>0, <3>1, <3>2
  <2>2. CASE ReadFrom(p)
    <3>1. [at |-> "from", from |-> VisibleFrom(p), visible |-> {}, batch |-> {}] \in Reads
      BY <2>0, VisibleFromIsGreatest DEF Reads
    <3> QED
      BY <2>0, <2>2, <3>1 DEF ReadFrom
  <2>3. CASE ReadVisible(p)
    <3> DEFINE visible == MessagesFrom(reading[p].from)
    <3>1. visible \subseteq Numbers
      <4>1. \A x \in Elements(messages) : x \in Messages
        BY DEF Elements, CTypeOK
      <4> QED
        BY <4>1 DEF MessagesFrom, Messages
    <3> HIDE DEF visible
    <3>2. [at |-> "visible", from |-> 0, visible |-> visible, batch |-> {}] \in Reads
      BY <2>0, <3>1 DEF Reads
    <3>3. reading' = [reading EXCEPT ![p] = [at |-> "visible", from |-> 0, visible |-> visible, batch |-> {}]]
      BY <2>3 DEF ReadVisible, visible
    <3> QED
      BY <2>0, <3>2, <3>3
  <2>4. CASE ReadEvents(p)
    <3> DEFINE batch == {e \in Elements(events) : e.number > cursor[p] /\ e.of \in reading[p].visible}
    <3>1. batch \subseteq Events
      BY DEF Elements, CTypeOK
    <3> HIDE DEF batch
    <3>2. [at |-> "events", from |-> 0, visible |-> {}, batch |-> batch] \in Reads
      BY <2>0, <3>1 DEF Reads
    <3>3. reading' = [reading EXCEPT ![p] = [at |-> "events", from |-> 0, visible |-> {}, batch |-> batch]]
      BY <2>4 DEF ReadEvents, batch
    <3> QED
      BY <2>0, <3>2, <3>3
  <2>5. CASE ReadEnds(p)
    BY <2>0, <2>5 DEF ReadEnds
  <2> QED
    BY <2>1, <2>2, <2>3, <2>4, <2>5 DEF Poll
<1>3. seen' \in [Humans -> SUBSET Events]
  <2>1. reading[p].batch \subseteq Events
    BY DEF CTypeOK, Reads
  <2>2. (seen[p] \cup reading[p].batch) \subseteq Events
    BY <2>1 DEF CTypeOK
  <2>3. CASE UNCHANGED seen
    BY <2>3 DEF CTypeOK
  <2>4. CASE ReadEnds(p)
    BY <2>2, <2>4 DEF ReadEnds, CTypeOK
  <2> QED
    BY <2>3, <2>4 DEF Poll, BeginRead, ReadFrom, ReadVisible, ReadEvents
<1>4. cursor' \in [Humans -> 0 .. MaxMessages] /\ torn' \subseteq Humans
  BY WatermarkIsANumber DEF Poll, BeginRead, ReadFrom, ReadVisible, ReadEvents, ReadEnds, CTypeOK
<1>5. Typed' /\ call' \in [Threads -> Calls]
  BY <1>1, <1>2, <1>3, <1>4 DEF log, CTypeOK, Typed
<1> QED
  BY <1>1, <1>5, NextTypesAreTyped DEF Shapes, Shape

(* Every step keeps the types. *)
LEMMA StepsKeepTypes ==
    ASSUME CTypeOK, Shapes, Counted, NoneAhead, Next
    PROVE  CTypeOK' /\ Shapes'
<1>1. CASE \E t \in Threads : Membership(t)
  BY <1>1, MembershipKeepsTypes
<1>2. ASSUME NEW t \in Threads, NEW k \in Keys, NEW p \in Humans, NEW b \in Bodies, Send(t, p, k, b)
      PROVE  CTypeOK' /\ Shapes'
  <2>1. call' \in [Threads -> Calls] /\ Shapes'
    BY <1>2, RequestKeepsTypes DEF Send, Principals
  <2> QED
    BY <1>2, <2>1, QuietKeepsTyped, NextTypesAreTyped DEF Send, CTypeOK
<1>3. ASSUME NEW t \in Threads, NEW k \in Keys, NEW actor \in Humans, NEW p \in Bots, BotTurn(t, actor, p, k)
      PROVE  CTypeOK' /\ Shapes'
  <2>1. call' \in [Threads -> Calls] /\ Shapes'
    BY <1>3, RequestKeepsTypes DEF BotTurn, Principals
  <2> QED
    BY <1>3, <2>1, QuietKeepsTyped, NextTypesAreTyped DEF BotTurn, CTypeOK
<1>4. ASSUME NEW t \in Threads, BotTurnEnds(t) \/ Deduplicate(t) \/ Recall(t)
      PROVE  CTypeOK' /\ Shapes'
  <2>1. UNCHANGED <<log, beside, raced>>
    BY <1>4 DEF BotTurnEnds, Deduplicate, Recall
  <2>2. call' \in [Threads -> Calls] /\ Shapes'
    BY <1>4, GotoKeepsTypes, DoneKeepsTypes DEF BotTurnEnds, Deduplicate, Recall
  <2> QED
    BY <2>1, <2>2, QuietKeepsTyped, NextTypesAreTyped DEF CTypeOK
<1>5. ASSUME NEW t \in Threads, Write(t) PROVE CTypeOK' /\ Shapes'
  BY <1>4, <1>5, LookupKeepsTypes, CheckKeepsTypes, NumberKeepsTypes, AppendKeepsTypes, IndexKeepsTypes,
     PublishKeepsTypes, DispatchKeepsTypes DEF Write
<1>6. CASE \E p \in Humans : Poll(p)
  BY <1>6, ReadsKeepTypes
<1> QED
  BY <1>1, <1>2, <1>3, <1>5, <1>6 DEF Next

-----------------------------------------------------------------------------
(* The quota. *)
LEMMA DispatchKeepsQuota ==
    ASSUME CTypeOK, Shapes, QuotaHolds, NEW t \in Threads, Dispatch(t)
    PROVE  QuotaHolds'
<1> DEFINE Queued == {n \in Numbers : outcomes[n] = "queued"}
           After == {n \in Numbers : outcomes'[n] = "queued"}
           m == call[t].message.number
<1>1. call[t].message \in Messages /\ m \in Numbers
  BY DEF Dispatch, Shapes, Shape, Messages
<1>2. PICK dispatch : /\ dispatch = Decision(call[t].message, quota)
                      /\ quota' = quota - Spent(dispatch)
                      /\ outcomes' = [outcomes EXCEPT ![m] = dispatch]
  BY DispatchMeans
<1>3. quota \in 0 .. Quota /\ Quota \in Nat
  BY ConversationAssumption DEF CTypeOK
<1>4. IsFiniteSet(Numbers)
  BY ConversationAssumption, FS_Interval DEF Numbers
<1>5. IsFiniteSet(Queued) /\ Cardinality(Queued) \in Nat
  BY <1>4, FS_Subset, FS_CardinalityType
<1>6. \A n \in Numbers : n # m => outcomes'[n] = outcomes[n]
  BY <1>1, <1>2 DEF CTypeOK
<1>7. CASE dispatch = "queued"
  <2>1. After \subseteq Queued \cup {m}
    BY <1>6
  <2>2. /\ IsFiniteSet(Queued \cup {m}) /\ Cardinality(Queued \cup {m}) \in Nat
        /\ Cardinality(Queued \cup {m}) <= Cardinality(Queued) + 1
    <3> HIDE DEF Queued, m
    <3>1. IsFiniteSet(Queued \cup {m})
      BY <1>5, FS_AddElement
    <3>2. Cardinality(Queued \cup {m}) = IF m \in Queued THEN Cardinality(Queued) ELSE Cardinality(Queued) + 1
      BY <1>5, FS_AddElement
    <3> QED
      BY <1>5, <3>1, <3>2
  <2>3. Cardinality(After) <= Cardinality(Queued \cup {m}) /\ Cardinality(After) \in Nat
    BY <2>1, <2>2, FS_Subset, FS_CardinalityType
  <2>4. quota' = quota - 1
    BY <1>2, <1>7 DEF Spent
  <2> QED
    BY <1>3, <1>5, <2>2, <2>3, <2>4 DEF QuotaHolds
<1>8. CASE dispatch # "queued"
  <2>1. After \subseteq Queued
    BY <1>1, <1>2, <1>6, <1>8 DEF CTypeOK
  <2>2. Cardinality(After) <= Cardinality(Queued) /\ Cardinality(After) \in Nat
    BY <1>5, <2>1, FS_Subset, FS_CardinalityType
  <2>3. quota' = quota
    BY <1>2, <1>3, <1>8 DEF Spent
  <2> QED
    BY <1>3, <1>5, <2>2, <2>3 DEF QuotaHolds
<1> QED
  BY <1>7, <1>8

(* Only a dispatch touches the quota. *)
LEMMA StepsKeepQuota ==
    ASSUME CTypeOK, Shapes, QuotaHolds, Next
    PROVE  QuotaHolds'
<1>1. ASSUME NEW t \in Threads, Write(t) PROVE (UNCHANGED <<quota, outcomes>>) \/ Dispatch(t)
  BY <1>1 DEF Write, BotTurnEnds, Lookup, Check, Number, AppendMessage, Index, Deduplicate, Publish, Recall, log
<1>2. (UNCHANGED <<quota, outcomes>>) \/ \E t \in Threads : Dispatch(t)
  BY <1>1 DEF Next, Membership, AddMember, RemoveMember, BeginChange, StoreInterval, Send, BotTurn, Poll, BeginRead, ReadFrom, ReadVisible, ReadEvents, ReadEnds, log
<1>3. CASE UNCHANGED <<quota, outcomes>>
  BY <1>3 DEF QuotaHolds
<1> QED
  BY <1>2, <1>3, DispatchKeepsQuota

-----------------------------------------------------------------------------
(* Counts.  A step of a request that appends and indexes nothing leaves    *)
(* none more to come.                                                      *)
LEMMA QuietKeepsCounted ==
    ASSUME CTypeOK, Counted, NEW t \in Threads, UNCHANGED <<messages, eventSequence, idempotency>>,
           \A u \in Threads : u # t => call'[u] = call[u],
           MayAppend(t)' => MayAppend(t), call'[t].at # "index", call[t].at # "index"
    PROVE  Counted'
<1>1. \A u \in Threads : MayAppend(u)' => MayAppend(u)
  BY DEF MayAppend, Held
<1>2. Coming' \subseteq Coming
  BY <1>1 DEF Coming
<1>3. Indexing' = Indexing
  BY DEF Indexing
<1>4. Cardinality(Coming') <= Cardinality(Coming) /\ Cardinality(Coming') \in Nat
  BY <1>2, RoomIsLeft, FS_Subset, FS_CardinalityType
<1>5. Len(messages') + Cardinality(Coming') <= MaxMessages
  BY <1>4, RoomIsLeft, ConversationAssumption DEF Counted
<1> QED
  BY <1>3, <1>5 DEF Counted

(* A request only begins while the model has room for its message. *)
LEMMA RequestKeepsCounted ==
    ASSUME CTypeOK, Counted, NEW t \in Threads, NEW p \in Principals, NEW k \in Keys, NEW b, Room(p, k),
           NEW step \in {"lookup", "model"}, call[t] = Idle, call'[t] = Request(step, p, k, b),
           \A u \in Threads : u # t => call'[u] = call[u],
           UNCHANGED <<messages, eventSequence, idempotency>>
    PROVE  Counted'
<1>1. /\ call[t].at = "idle" /\ call'[t].at \in {"lookup", "model"}
      /\ MayAppend(t)' <=> idempotency[p][k] = NONE
  BY DEF Idle, Request, MayAppend, Held
<1>2. CASE idempotency[p][k] # NONE
  BY <1>1, <1>2, QuietKeepsCounted
<1>3. CASE idempotency[p][k] = NONE
  <2> DEFINE busy == {u \in Threads : call[u].at # "idle"}
  <2>1. IsFiniteSet(busy) /\ Cardinality(busy) \in Nat /\ t \notin busy
    BY <1>1, ConversationAssumption, FS_Subset, FS_CardinalityType
  <2>2. Len(messages) + Cardinality(busy) < MaxMessages
    BY <1>3 DEF Room
  <2>3. Coming' \subseteq busy \cup {t}
    BY DEF Coming, MayAppend, Held
  <2> HIDE DEF busy
  <2>4. IsFiniteSet(busy \cup {t}) /\ Cardinality(busy \cup {t}) = Cardinality(busy) + 1
    BY <2>1, FS_AddElement
  <2>5. Cardinality(Coming') <= Cardinality(busy \cup {t}) /\ Cardinality(Coming') \in Nat
    BY <2>3, <2>4, FS_Subset, FS_CardinalityType
  <2>6. Indexing' = Indexing
    BY <1>1 DEF Indexing
  <2>7. Len(messages') + Cardinality(Coming') <= MaxMessages
    BY <2>1, <2>2, <2>4, <2>5, RoomIsLeft, ConversationAssumption
  <2> QED
    BY <2>6, <2>7 DEF Counted
<1> QED
  BY <1>2, <1>3

(* A message that came is one that is not counted yet, then one that is. *)
LEMMA AppendKeepsCounted ==
    ASSUME CTypeOK, Shapes, Counted, NEW t \in Threads, AppendMessage(t)
    PROVE  Counted'
<1>1. /\ call[t].at = "append" /\ call'[t].at = "index" /\ Len(messages') = Len(messages) + 1
      /\ \A u \in Threads : u # t => call'[u] = call[u]
  <2>1. Onward(t, "index", call[t].existing, call[t].message, call[t].event)
    BY DEF AppendMessage, Goto
  <2>2. call'[t].at = "index" /\ \A u \in Threads : u # t => call'[u] = call[u]
    BY <2>1, OnwardMeans
  <2>3. Len(messages') = Len(messages) + 1
    BY DEF AppendMessage, CTypeOK
  <2> QED
    BY <2>2, <2>3 DEF AppendMessage
<1>2. t \in Coming /\ Coming' \subseteq Coming \ {t}
  BY <1>1 DEF AppendMessage, Coming, MayAppend, Held
<1>3. t \notin Indexing /\ Indexing' = Indexing \cup {t}
  BY <1>1 DEF Indexing
<1>4. IsFiniteSet(Coming \ {t}) /\ Cardinality(Coming \ {t}) = Cardinality(Coming) - 1
  BY <1>2, RoomIsLeft, FS_RemoveElement
<1>5. Cardinality(Coming') <= Cardinality(Coming) - 1 /\ Cardinality(Coming') \in Nat
  BY <1>2, <1>4, FS_Subset, FS_CardinalityType
<1>6. Cardinality(Indexing') = Cardinality(Indexing) + 1
  BY <1>3, RoomIsLeft, FS_AddElement
<1>7. /\ Len(messages') + Cardinality(Coming') <= MaxMessages
      /\ eventSequence' + Cardinality(Indexing') = Len(messages')
  BY <1>1, <1>5, <1>6, RoomIsLeft, ConversationAssumption DEF Counted, AppendMessage
<1> QED
  BY <1>7 DEF Counted, AppendMessage

LEMMA IndexKeepsCounted ==
    ASSUME CTypeOK, Shapes, Counted, NEW t \in Threads, Index(t)
    PROVE  Counted'
<1>1. /\ call[t].at = "index" /\ call'[t].at = "outbox" /\ messages' = messages
      /\ \A u \in Threads : u # t => call'[u] = call[u]
  <2>1. PICK e : Onward(t, "outbox", NONE, call[t].message, e)
    BY DEF Index
  <2>2. call'[t].at = "outbox" /\ \A u \in Threads : u # t => call'[u] = call[u]
    BY <2>1, OnwardMeans
  <2> QED
    BY <2>2 DEF Index
<1>2. /\ call[t].message \in Messages /\ call[t].message # NONE
      /\ call[t].sender \in Principals /\ call[t].key \in Keys
  BY <1>1, ConversationAssumption DEF Shapes, Shape
<1>3. \A p \in Principals, k \in Keys : idempotency'[p][k] = NONE => idempotency[p][k] = NONE
  BY <1>2 DEF Index, CTypeOK
<1>4. \A u \in Threads : MayAppend(u)' => MayAppend(u)
  <2> SUFFICES ASSUME NEW u \in Threads, MayAppend(u)' PROVE MayAppend(u)
    OBVIOUS
  <2>1. u # t /\ call'[u] = call[u]
    BY <1>1 DEF MayAppend
  <2>2. CASE call[u].at \in {"number", "append"}
    BY <2>2 DEF MayAppend
  <2>3. CASE call[u].at \in {"model", "lookup", "check"}
    <3>1. call[u].sender \in Principals /\ call[u].key \in Keys
      BY <2>3 DEF Shapes, Shape
    <3>2. idempotency'[call[u].sender][call[u].key] = NONE
      BY <2>1, <2>3 DEF MayAppend, Held
    <3> QED
      BY <1>3, <2>3, <3>1, <3>2 DEF MayAppend, Held
  <2> QED
    BY <2>1, <2>2, <2>3 DEF MayAppend
<1>5. Coming' \subseteq Coming
  BY <1>4 DEF Coming
<1>6. t \in Indexing /\ Indexing' = Indexing \ {t}
  BY <1>1 DEF Indexing
<1>7. Cardinality(Coming') <= Cardinality(Coming) /\ Cardinality(Coming') \in Nat
  BY <1>5, RoomIsLeft, FS_Subset, FS_CardinalityType
<1>8. Cardinality(Indexing') = Cardinality(Indexing) - 1
  BY <1>6, RoomIsLeft, FS_RemoveElement
<1>9. /\ Len(messages') + Cardinality(Coming') <= MaxMessages
      /\ eventSequence' = eventSequence + 1
      /\ eventSequence' + Cardinality(Indexing') = Len(messages')
  BY <1>1, <1>7, <1>8, RoomIsLeft, ConversationAssumption DEF Counted, Index
<1>10. eventSequence' >= 1
  BY <1>9, RoomIsLeft
<1> QED
  BY <1>9, <1>10 DEF Counted

LEMMA StepsKeepCounted ==
    ASSUME CTypeOK, Shapes, Counted, Next
    PROVE  Counted'
<1>1. CASE UNCHANGED <<messages, eventSequence, idempotency, call>>
  <2>1. \A u \in Threads : MayAppend(u)' <=> MayAppend(u)
    BY <1>1 DEF MayAppend, Held
  <2>2. Coming' = Coming /\ Indexing' = Indexing
    BY <1>1, <2>1 DEF Coming, Indexing
  <2> QED
    BY <1>1, <2>2 DEF Counted
<1>2. ASSUME NEW t \in Threads, NEW k \in Keys, NEW p \in Humans, NEW b \in Bodies, Send(t, p, k, b)
      PROVE  Counted'
  BY <1>2, RequestKeepsTypes, RequestKeepsCounted DEF Send, Principals, Free, log
<1>3. ASSUME NEW t \in Threads, NEW k \in Keys, NEW actor \in Humans, NEW p \in Bots, BotTurn(t, actor, p, k)
      PROVE  Counted'
  BY <1>3, RequestKeepsTypes, RequestKeepsCounted DEF BotTurn, Principals, Free, log
<1>4. ASSUME NEW t \in Threads,
             BotTurnEnds(t) \/ Lookup(t) \/ Check(t) \/ Number(t) \/ Deduplicate(t) \/ Publish(t) \/ Dispatch(t) \/ Recall(t)
      PROVE  Counted'
  <2>1. UNCHANGED <<messages, eventSequence, idempotency>> /\ call[t].at \notin {"index", "append"}
    BY <1>4 DEF BotTurnEnds, Lookup, Check, Number, Deduplicate, Publish, Dispatch, Recall, log
  <2>2. /\ \A u \in Threads : u # t => call'[u] = call[u]
        /\ call'[t].at # "index" /\ (MayAppend(t)' => MayAppend(t))
    <3>1. CASE Done(t)
      BY <3>1, DoneKeepsTypes DEF MayAppend
    <3>2. ASSUME NEW step, NEW x, NEW m, NEW e, Onward(t, step, x, m, e), step # "index",
                 step \in {"number", "append"} => MayAppend(t),
                 step \in {"model", "lookup", "check"} => call[t].at \in {"model", "lookup"}
          PROVE  /\ \A u \in Threads : u # t => call'[u] = call[u]
                 /\ call'[t].at # "index" /\ (MayAppend(t)' => MayAppend(t))
      <4>1. /\ call'[t].at = step /\ call'[t].sender = call[t].sender /\ call'[t].key = call[t].key
            /\ \A u \in Threads : u # t => call'[u] = call[u]
        BY <3>2, OnwardMeans
      <4>2. ASSUME MayAppend(t)', step \notin {"number", "append"} PROVE MayAppend(t)
        <5>1. step \in {"model", "lookup", "check"} /\ Held(t) = NONE
          BY <2>1, <4>1, <4>2 DEF MayAppend, Held
        <5> QED
          BY <3>2, <5>1 DEF MayAppend
      <4> QED
        BY <3>2, <4>1, <4>2
    <3>3. CASE BotTurnEnds(t)
      BY <3>1, <3>2, <3>3 DEF BotTurnEnds, Goto
    <3>4. CASE Lookup(t)
      BY <3>2, <3>4 DEF Lookup
    <3>5. CASE Check(t)
      <4>1. call[t].at = "check" /\ (Held(t) = NONE => MayAppend(t))
        BY <3>5 DEF Check, MayAppend
      <4> QED
        BY <3>1, <3>2, <3>5, <4>1 DEF Check, Goto, Held
    <3>6. CASE Number(t)
      BY <3>2, <3>6 DEF Number, MayAppend
    <3>7. CASE Deduplicate(t) \/ Publish(t) \/ Dispatch(t) \/ Recall(t)
      BY <3>1, <3>2, <3>7 DEF Deduplicate, Publish, Dispatch, Recall, Goto
    <3> QED
      BY <1>4, <3>3, <3>4, <3>5, <3>6, <3>7
  <2> QED
    BY <2>1, <2>2, QuietKeepsCounted
<1>5. CASE \E t \in Threads : Write(t)
  BY <1>4, <1>5, AppendKeepsCounted, IndexKeepsCounted DEF Write
<1>6. CASE \/ \E t \in Threads : Membership(t)
           \/ \E p \in Humans : Poll(p)
  BY <1>1, <1>6 DEF Membership, AddMember, RemoveMember, BeginChange, StoreInterval, Poll, BeginRead, ReadFrom, ReadVisible, ReadEvents, ReadEnds, log
<1> QED
  BY <1>2, <1>3, <1>5, <1>6 DEF Next

-----------------------------------------------------------------------------
(* Members.  What was written while somebody was a member stays so,        *)
(* whoever comes and goes.                                                 *)
LEMMA JoiningKeepsWitnessed ==
    ASSUME CTypeOK, NoneAhead, Alone, NEW t \in Threads, StoreInterval(t),
           NEW p \in Principals, NEW n \in Numbers, Witnessed(p, n)
    PROVE  Witnessed(p, n)'
<1>1. messages' = messages /\ Len(messages) \in Nat
  BY DEF StoreInterval, CTypeOK
<1>2. PICK q \in Principals, interval \in Intervals : Stores(t, q, interval)
  BY StoreMeans
<1> USE DEF Stores
<1>3. members[p] \in Seq(Intervals)
  BY DEF CTypeOK
<1>4. PICK i \in 1 .. Len(members[p]) : /\ members[p][i].joined <= n
                                        /\ members[p][i].left = 0 \/ n < members[p][i].left
  BY DEF Witnessed, MemberAt
<1>5. CASE p # q
  BY <1>1, <1>2, <1>5 DEF Witnessed, MemberAt
<1>6. CASE p = q /\ interval.left = 0
  <2>1. members'[p] = Append(members[p], interval)
    BY <1>2, <1>6
  <2>2. i \in 1 .. Len(members'[p]) /\ members'[p][i] = members[p][i]
    BY <1>3, <1>4, <2>1
  <2> QED
    BY <1>1, <1>4, <2>2 DEF Witnessed, MemberAt
<1>7. CASE p = q /\ interval.left # 0
  <2> DEFINE l == Len(members[p])
  <2>1. members'[p] = [members[p] EXCEPT ![l] = interval]
    BY <1>2, <1>7
  <2>2. interval.joined = members[p][l].joined /\ interval.left = Len(messages) + 1
    BY <1>2, <1>7 DEF Alone
  <2>3. Len(members'[p]) = l /\ members'[p][i] = IF i = l THEN interval ELSE members[p][i]
    BY <1>3, <1>4, <2>1
  <2>4. n <= Len(messages) /\ n \in Nat
    BY ConversationAssumption DEF Witnessed, Numbers
  <2>5. members'[p][i].joined <= n /\ (members'[p][i].left = 0 \/ n < members'[p][i].left)
    BY <1>1, <1>4, <2>2, <2>3, <2>4
  <2>6. i \in 1 .. Len(members'[p])
    BY <1>4, <2>3
  <2>7. MemberAt(p, n)'
    BY <2>5, <2>6 DEF MemberAt
  <2> QED
    BY <1>1, <2>4, <2>7 DEF Witnessed
<1> QED
  BY <1>5, <1>6, <1>7

(* Numbers are integers. *)
LEMMA NumbersAreIntegers ==
    ASSUME CTypeOK
    PROVE  /\ Numbers \subseteq Int /\ Len(messages) \in Nat
           /\ \A i \in 1 .. Len(messages) : messages[i] \in Messages /\ messages[i].number \in Int
           /\ \A p \in Principals : \A i \in 1 .. Len(members[p]) :
                 members[p][i] \in Intervals /\ members[p][i].joined \in 1 .. MaxMessages + 1
<1>1. Numbers \subseteq Int
  BY ConversationAssumption DEF Numbers
<1>2. Len(messages) \in Nat /\ \A i \in 1 .. Len(messages) : messages[i] \in Messages
  BY DEF CTypeOK
<1>3. \A m \in Messages : m.number \in Int
  BY <1>1 DEF Messages
<1>4. \A p \in Principals : \A i \in 1 .. Len(members[p]) : members[p][i] \in Intervals
  BY DEF CTypeOK
<1>5. \A interval \in Intervals : interval.joined \in 1 .. MaxMessages + 1
  BY DEF Intervals
<1> QED
  BY <1>1, <1>2, <1>3, <1>4, <1>5

(* The numbers of what readers hold. *)
LEMMA ReadNumbers ==
    ASSUME CTypeOK, NEW p \in Humans
    PROVE  /\ p \in Principals
           /\ \A n \in reading[p].visible : n \in Numbers
           /\ \A e \in reading[p].batch : e.of \in Numbers
           /\ \A e \in seen[p] : e.of \in Numbers
<1>1. reading[p] \in Reads /\ seen[p] \subseteq Events /\ p \in Principals
  BY DEF CTypeOK, Principals
<1> QED
  BY <1>1 DEF Reads, Events

(* Who joins joins after the last message. *)
LEMMA MembershipKeepsNoneAhead ==
    ASSUME CTypeOK, Counted, NoneAhead, NEW t \in Threads, Membership(t)
    PROVE  NoneAhead'
<1>1. UNCHANGED <<messages, call>> /\ Len(messages) \in Nat
  BY DEF Membership, AddMember, RemoveMember, BeginChange, StoreInterval, log, CTypeOK
<1>2. CASE StoreInterval(t)
  <2>1. PICK q \in Principals, interval \in Intervals : Stores(t, q, interval)
    BY <1>2, StoreMeans
  <2> USE DEF Stores
  <2>2. interval.joined <= Len(messages) + 1
    BY <2>1 DEF NoneAhead
  <2>3. members[q] \in Seq(Intervals)
    BY DEF CTypeOK
  <2>4. /\ members'[q] # <<>>
        /\ \A i \in 1 .. Len(members'[q]) : members'[q][i] = interval \/ (i \in 1 .. Len(members[q]) /\ members'[q][i] = members[q][i])
    <3>1. CASE interval.left = 0
      BY <2>1, <2>3, <3>1
    <3>2. CASE interval.left # 0
      BY <2>1, <2>3, <3>2
    <3> QED
      BY <3>1, <3>2
  <2>5. \A r \in Principals : /\ members'[r] # <<>>
                              /\ \A i \in 1 .. Len(members'[r]) : members'[r][i].joined <= Len(messages) + 1
    BY <2>1, <2>2, <2>4 DEF NoneAhead
  <2>6. \A u \in Threads : change'[u] # NONE => change'[u] = change[u]
    BY <1>2 DEF StoreInterval, CTypeOK
  <2> QED
    BY <1>1, <2>5, <2>6 DEF NoneAhead
<1>3. ASSUME NEW p \in Principals, NEW interval \in Intervals, BeginChange(t, p, interval),
             interval.joined <= Len(messages) + 1
      PROVE  NoneAhead'
  <2>1. members' = members
    BY <1>3 DEF BeginChange, log
  <2>2. \A u \in Threads : change'[u] = IF u = t THEN [who |-> p, interval |-> interval] ELSE change[u]
    BY <1>3 DEF BeginChange, CTypeOK
  <2>3. \A u \in Threads : change'[u] # NONE => change'[u].interval.joined <= Len(messages) + 1
    BY <1>3, <2>2 DEF NoneAhead
  <2> QED
    BY <1>1, <2>1, <2>3 DEF NoneAhead
<1>4. ASSUME NEW p \in Principals, AddMember(t, p) \/ RemoveMember(t, p) PROVE NoneAhead'
  <2>1. PICK interval \in Intervals :
              /\ BeginChange(t, p, interval)
              /\ \/ AddMember(t, p) /\ interval = [joined |-> Len(messages) + 1, left |-> 0]
                 \/ /\ RemoveMember(t, p)
                    /\ interval = [joined |-> members[p][LastActive(p)].joined, left |-> Len(messages) + 1]
    BY <1>4, ChangeMeans
  <2>2. interval.joined <= Len(messages) + 1
    <3>1. CASE interval = [joined |-> Len(messages) + 1, left |-> 0]
      BY <1>1, <3>1
    <3>2. CASE RemoveMember(t, p) /\ interval = [joined |-> members[p][LastActive(p)].joined, left |-> Len(messages) + 1]
      BY <3>2, LastActiveIsOne DEF RemoveMember, NoneAhead
    <3> QED
      BY <2>1, <3>1, <3>2
  <2> QED
    BY <1>3, <2>1, <2>2
<1> QED
  BY <1>2, <1>4 DEF Membership

(* A step of a request: the log only grows, by a number of it, and only    *)
(* the next number is given out.                                           *)
LEMMA WritingKeepsNoneAhead ==
    ASSUME CTypeOK, Shapes, NoneAhead, NEW t \in Threads, UNCHANGED <<members, change>>,
           \A u \in Threads : u # t => call'[u] = call[u],
           \/ UNCHANGED messages
           \/ call[t].at = "append" /\ messages' = Append(messages, call[t].message),
           call'[t].at = "append" => UNCHANGED messages /\ call'[t].message.number <= Len(messages) + 1
    PROVE  NoneAhead'
<1>0. Len(messages) \in Nat /\ \A i \in 1 .. Len(messages) : messages[i].number \in Int
  BY NumbersAreIntegers
<1>1. Len(messages') \in Nat /\ Len(messages') >= Len(messages)
  BY <1>0 DEF CTypeOK
<1>2. \A p \in Principals : \A i \in 1 .. Len(members[p]) : members[p][i].joined \in Int
  BY NumbersAreIntegers
<1>3. \A p \in Principals : \A i \in 1 .. Len(members'[p]) : members'[p][i].joined <= Len(messages') + 1
  BY <1>0, <1>1, <1>2 DEF NoneAhead
<1>4. \A u \in Threads : call'[u].at = "append" => call'[u].message.number <= Len(messages') + 1
  <2>1. ASSUME NEW u \in Threads, u # t, call'[u].at = "append" PROVE call'[u].message.number <= Len(messages') + 1
    <3>1. call[u].at = "append" /\ call'[u] = call[u]
      BY <2>1
    <3>2. call[u].message.number <= Len(messages) + 1
      BY <3>1 DEF NoneAhead
    <3>3. CASE UNCHANGED messages
      BY <3>1, <3>2, <3>3
    <3>4. CASE messages' = Append(messages, call[t].message)
      <4>1. Len(messages') = Len(messages) + 1
        BY <3>4 DEF CTypeOK
      <4>2. call[u].message \in Messages
        BY <3>1 DEF Shapes, Shape
      <4>3. call[u].message.number \in Int
        BY <4>2, NumbersAreIntegers DEF Messages
      <4> QED
        BY <1>0, <3>1, <3>2, <4>1, <4>3
    <3> QED
      BY <3>3, <3>4
  <2> QED
    BY <2>1
<1>5. \A i \in 1 .. Len(messages') : messages'[i].number <= Len(messages')
  <2>1. CASE UNCHANGED messages
    BY <2>1 DEF NoneAhead
  <2>2. CASE call[t].at = "append" /\ messages' = Append(messages, call[t].message)
    <3>1. Len(messages') = Len(messages) + 1 /\ messages'[Len(messages) + 1] = call[t].message
      BY <2>2 DEF CTypeOK
    <3>2. \A i \in 1 .. Len(messages) : messages'[i] = messages[i]
      BY <2>2 DEF CTypeOK
    <3>3. call[t].message.number <= Len(messages) + 1
      BY <2>2 DEF NoneAhead
    <3>4. \A i \in 1 .. Len(messages) : messages[i].number <= Len(messages) + 1
      BY <1>0 DEF NoneAhead
    <3> QED
      BY <1>0, <3>1, <3>2, <3>3, <3>4
  <2> QED
    BY <2>1, <2>2
<1>6. \A u \in Threads : change'[u] # NONE => change'[u].interval.joined <= Len(messages') + 1
  <2>1. \A u \in Threads : change[u] # NONE => change[u].interval.joined \in Int
    BY DEF CTypeOK, Changes, Intervals
  <2> QED
    BY <1>0, <1>1, <2>1 DEF NoneAhead
<1>7. \A p \in Principals : members'[p] # <<>>
  BY DEF NoneAhead
<1> QED
  BY <1>3, <1>4, <1>5, <1>6, <1>7 DEF NoneAhead

(* Every step keeps whoever is ahead of the log out of it. *)
LEMMA StepsKeepNoneAhead ==
    ASSUME CTypeOK, Shapes, Counted, NoneAhead, Next
    PROVE  NoneAhead'
<1>1. CASE \E t \in Threads : Membership(t)
  BY <1>1, MembershipKeepsNoneAhead
<1>2. CASE \E p \in Humans : Poll(p)
  <2>1. UNCHANGED <<members, messages, call, change>>
    BY <1>2 DEF Poll, BeginRead, ReadFrom, ReadVisible, ReadEvents, ReadEnds, log
  <2> QED
    BY <2>1 DEF NoneAhead
<1>3. ASSUME NEW t \in Threads, NEW step, NEW x, NEW m, NEW e, Onward(t, step, x, m, e),
             UNCHANGED <<members, change>>,
             \/ UNCHANGED messages
             \/ call[t].at = "append" /\ messages' = Append(messages, call[t].message),
             step = "append" => UNCHANGED messages /\ m.number <= Len(messages) + 1
      PROVE  NoneAhead'
  BY <1>3, OnwardMeans, WritingKeepsNoneAhead
<1>4. ASSUME NEW t \in Threads, Done(t), UNCHANGED <<members, messages, change>> PROVE NoneAhead'
  BY <1>4, DoneKeepsTypes, WritingKeepsNoneAhead
<1>5. ASSUME NEW t \in Threads, NEW step \in {"lookup", "model"}, NEW p \in Principals, NEW k \in Keys,
             NEW b \in Bodies \cup {Answer}, call' = [call EXCEPT ![t] = Request(step, p, k, b)],
             UNCHANGED <<members, messages, change>>
      PROVE  NoneAhead'
  <2>1. call'[t].at # "append" /\ \A u \in Threads : u # t => call'[u] = call[u]
    BY <1>5, RequestKeepsTypes DEF Request
  <2> QED
    BY <1>5, <2>1, WritingKeepsNoneAhead
<1>6. ASSUME NEW t \in Threads, NEW k \in Keys, NEW p \in Humans, NEW b \in Bodies, Send(t, p, k, b)
      PROVE  NoneAhead'
  BY <1>5, <1>6 DEF Send, Principals, log, beside
<1>7. ASSUME NEW t \in Threads, NEW k \in Keys, NEW actor \in Humans, NEW p \in Bots, BotTurn(t, actor, p, k)
      PROVE  NoneAhead'
  BY <1>5, <1>7 DEF BotTurn, Principals, log, beside
<1>8. ASSUME NEW t \in Threads, Write(t) PROVE NoneAhead'
  <2>1. CASE BotTurnEnds(t) \/ Check(t) \/ Deduplicate(t) \/ Recall(t)
    BY <1>3, <1>4, <2>1 DEF BotTurnEnds, Check, Deduplicate, Recall, Goto, log, beside
  <2>2. CASE Lookup(t) \/ Index(t)
    BY <1>3, <2>2 DEF Lookup, Index, log, beside
  <2>3. CASE Number(t)
    <3>1. NextNumber <= Len(messages) + 1
      BY NumbersAreIntegers DEF NextNumber
    <3> QED
      BY <1>3, <2>3, <3>1 DEF Number, log, beside
  <2>4. CASE AppendMessage(t)
    BY <1>3, <2>4 DEF AppendMessage, Goto, beside
  <2>5. CASE Publish(t)
    BY <1>3, <2>5 DEF Publish, Goto, beside
  <2>6. CASE Dispatch(t)
    BY <1>4, <2>6 DEF Dispatch, beside
  <2> QED
    BY <1>8, <2>1, <2>2, <2>3, <2>4, <2>5, <2>6 DEF Write
<1> QED
  BY <1>1, <1>2, <1>6, <1>7, <1>8 DEF Next

-----------------------------------------------------------------------------
(* Readers.  Whoever reads sees what was written since they last joined.   *)
LEMMA VisibleIsWitnessed ==
    ASSUME CTypeOK, NoneAhead, NEW p \in Humans, Active(p), NEW n \in MessagesFrom(VisibleFrom(p))
    PROVE  Witnessed(p, n)
<1>1. p \in Principals
  BY DEF Principals
<1>2. PICK i \in 1 .. Len(members[p]) : members[p][i].left = 0
  BY DEF Active
<1>3. PICK j \in 1 .. Len(messages) : n = messages[j].number /\ n >= VisibleFrom(p)
  BY DEF MessagesFrom, Elements
<1>4. n \in Int /\ n <= Len(messages)
  BY <1>3, NumbersAreIntegers DEF NoneAhead
<1>5. members[p][i].joined \in Int /\ VisibleFrom(p) \in Int /\ members[p][i].joined <= VisibleFrom(p)
  BY <1>1, <1>2, VisibleFromIsGreatest, NumbersAreIntegers
<1>6. members[p][i].joined <= n
  BY <1>3, <1>4, <1>5
<1> QED
  BY <1>2, <1>4, <1>6 DEF Witnessed, MemberAt

(* Reading hands on what was seen to be visible. *)
LEMMA ReadsKeepOnlyWitnessed ==
    ASSUME CTypeOK, NoneAhead, OnlyWitnessed, NEW p \in Humans, Poll(p)
    PROVE  OnlyWitnessed'
<1>1. UNCHANGED <<members, messages, change>>
  BY DEF Poll, BeginRead, ReadFrom, ReadVisible, ReadEvents, ReadEnds, log
<1>2. /\ \A q, n : Witnessed(q, n)' <=> Witnessed(q, n)
      /\ \A q : (Active(q)' <=> Active(q)) /\ ChangesOf(q)' = ChangesOf(q) /\ VisibleFrom(q)' = VisibleFrom(q)
  BY <1>1 DEF Witnessed, MemberAt, Active, ChangesOf, VisibleFrom
<1> DEFINE Sees(q) == /\ reading'[q].at \in {"active", "from"} => Active(q) /\ ChangesOf(q) = {}
                      /\ reading'[q].at = "from" => reading'[q].from = VisibleFrom(q)
                      /\ \A n \in reading'[q].visible : Witnessed(q, n)
                      /\ \A e \in reading'[q].batch : Witnessed(q, e.of)
                      /\ \A e \in seen'[q] : Witnessed(q, e.of)
<1>3. ASSUME NEW q \in Humans, q \notin torn'
      PROVE  Sees(q)
  <2>0. /\ q \notin torn
        /\ reading[q].at \in {"active", "from"} => Active(q) /\ ChangesOf(q) = {}
        /\ reading[q].at = "from" => reading[q].from = VisibleFrom(q)
        /\ \A n \in reading[q].visible : Witnessed(q, n)
        /\ \A e \in reading[q].batch : Witnessed(q, e.of)
        /\ \A e \in seen[q] : Witnessed(q, e.of)
    <3>1. q \notin torn
      BY <1>3 DEF Poll, BeginRead, ReadFrom, ReadVisible, ReadEvents, ReadEnds
    <3> QED
      BY <3>1 DEF OnlyWitnessed
  <2>1. CASE q # p
    <3>1. reading'[q] = reading[q] /\ seen'[q] = seen[q]
      BY <2>1 DEF Poll, BeginRead, ReadFrom, ReadVisible, ReadEvents, ReadEnds, CTypeOK
    <3> QED
      BY <2>0, <3>1
  <2>2. CASE q = p /\ BeginRead(p)
    <3>1. /\ reading'[p].at = "active" /\ reading'[p].visible = reading[p].visible
          /\ reading'[p].batch = reading[p].batch /\ seen' = seen /\ Active(p)
      BY <2>2 DEF BeginRead, CTypeOK, Reads
    <3>2. ChangesOf(p) = {}
      BY <1>3, <2>2 DEF BeginRead
    <3> QED
      BY <2>0, <2>2, <3>1, <3>2
  <2>3. CASE q = p /\ ReadFrom(p)
    <3>1. /\ reading'[p] = [at |-> "from", from |-> VisibleFrom(p), visible |-> {}, batch |-> {}]
          /\ seen' = seen /\ reading[p].at = "active"
      BY <2>3 DEF ReadFrom, CTypeOK
    <3> QED
      BY <2>0, <2>3, <3>1
  <2>4. CASE q = p /\ ReadVisible(p)
    <3>1. /\ reading'[p] = [at |-> "visible", from |-> 0, visible |-> MessagesFrom(reading[p].from), batch |-> {}]
          /\ seen' = seen /\ reading[p].at = "from"
      BY <2>4 DEF ReadVisible, CTypeOK
    <3>2. reading'[p].at = "visible" /\ reading'[p].visible = MessagesFrom(VisibleFrom(p)) /\ reading'[p].batch = {}
      BY <2>0, <2>4, <3>1
    <3> QED
      BY <2>0, <2>4, <3>1, <3>2, VisibleIsWitnessed
  <2>5. CASE q = p /\ ReadEvents(p)
    <3>1. /\ reading'[p].visible = {} /\ seen' = seen /\ reading'[p].at = "events"
          /\ reading'[p].batch = {e \in Elements(events) : e.number > cursor[p] /\ e.of \in reading[p].visible}
      BY <2>5 DEF ReadEvents, CTypeOK
    <3> QED
      BY <2>0, <2>5, <3>1
  <2>6. CASE q = p /\ ReadEnds(p)
    <3>1. reading'[p] = NotReading /\ seen'[p] = seen[p] \cup reading[p].batch
      BY <2>6 DEF ReadEnds, CTypeOK
    <3> QED
      BY <2>0, <2>6, <3>1 DEF NotReading
  <2> QED
    BY <2>1, <2>2, <2>3, <2>4, <2>5, <2>6 DEF Poll
<1> QED
  BY <1>2, <1>3 DEF OnlyWitnessed

(* A message more, or none, is nothing to who has read. *)
LEMMA WritingKeepsOnlyWitnessed ==
    ASSUME CTypeOK, OnlyWitnessed, UNCHANGED <<members, beside>>,
           UNCHANGED messages \/ \E m : messages' = Append(messages, m)
    PROVE  OnlyWitnessed'
<1>1. Len(messages) \in Nat /\ Len(messages') \in Nat /\ Len(messages') >= Len(messages)
  BY DEF CTypeOK
<1>2. \A p \in Principals : \A n \in Numbers : Witnessed(p, n) => Witnessed(p, n)'
  BY <1>1, ConversationAssumption DEF Witnessed, MemberAt, Numbers
<1>3. \A q : (Active(q)' <=> Active(q)) /\ ChangesOf(q)' = ChangesOf(q) /\ VisibleFrom(q)' = VisibleFrom(q)
  BY DEF Active, ChangesOf, VisibleFrom, beside
<1>4. UNCHANGED <<reading, seen, torn>>
  BY DEF beside
<1> QED
  BY <1>2, <1>3, <1>4, ReadNumbers DEF OnlyWitnessed

(* Whoever joins or leaves while they read is known to; who only read      *)
(* before has read what they could.                                        *)
LEMMA MembershipKeepsOnlyWitnessed ==
    ASSUME CTypeOK, NoneAhead, Alone, OnlyWitnessed, NEW t \in Threads, Membership(t)
    PROVE  OnlyWitnessed'
<1>1. UNCHANGED <<messages, reading, seen>>
  BY DEF Membership, AddMember, RemoveMember, BeginChange, StoreInterval, log
<1>2. CASE StoreInterval(t)
  <2>1. PICK q \in Principals : /\ change[t] # NONE /\ change[t].who = q
                               /\ \A r \in Principals : r # q => members'[r] = members[r]
    <3>1. PICK q \in Principals, interval \in Intervals : Stores(t, q, interval)
      BY <1>2, StoreMeans
    <3> QED
      BY <3>1 DEF Stores
  <2>2. torn' = torn /\ \A u \in Threads : change'[u] # NONE => change'[u] = change[u]
    BY <1>2 DEF StoreInterval, CTypeOK
  <2>3. ASSUME NEW p \in Humans \ torn
        PROVE  /\ reading[p].at \in {"active", "from"} => Active(p)' /\ ChangesOf(p)' = {}
               /\ reading[p].at = "from" => reading[p].from = VisibleFrom(p)'
    <3>1. CASE reading[p].at \in {"active", "from"}
      <4>1. ChangesOf(p) = {} /\ Active(p) /\ (reading[p].at = "from" => reading[p].from = VisibleFrom(p))
        BY <3>1 DEF OnlyWitnessed
      <4>2. p # q
        BY <2>1, <4>1 DEF ChangesOf
      <4>3. members'[p] = members[p]
        BY <2>1, <4>2 DEF Principals
      <4>4. ChangesOf(p)' = {}
        BY <2>2, <4>1 DEF ChangesOf
      <4> QED
        BY <4>1, <4>3, <4>4 DEF Active, VisibleFrom
    <3> QED
      BY <3>1
  <2>4. ASSUME NEW p \in Humans \ torn
        PROVE  /\ \A n \in reading[p].visible : Witnessed(p, n)'
               /\ \A e \in reading[p].batch : Witnessed(p, e.of)'
               /\ \A e \in seen[p] : Witnessed(p, e.of)'
    <3>1. /\ \A n \in reading[p].visible : Witnessed(p, n)
          /\ \A e \in reading[p].batch : Witnessed(p, e.of)
          /\ \A e \in seen[p] : Witnessed(p, e.of)
      BY DEF OnlyWitnessed
    <3>2. \A n \in Numbers : Witnessed(p, n) => Witnessed(p, n)'
      BY <1>2, JoiningKeepsWitnessed DEF Principals
    <3> QED
      BY <3>1, <3>2, ReadNumbers
  <2>5. \A p \in Humans \ torn' :
           /\ \A n \in reading'[p].visible : Witnessed(p, n)'
           /\ \A e \in reading'[p].batch : Witnessed(p, e.of)'
           /\ \A e \in seen'[p] : Witnessed(p, e.of)'
    BY <1>1, <2>2, <2>4
  <2>6. \A p \in Humans \ torn' :
           /\ reading'[p].at \in {"active", "from"} => Active(p)' /\ ChangesOf(p)' = {}
           /\ reading'[p].at = "from" => reading'[p].from = VisibleFrom(p)'
    BY <1>1, <2>2, <2>3
  <2> QED
    BY <2>5, <2>6 DEF OnlyWitnessed
<1>3. ASSUME NEW q \in Principals, NEW interval, BeginChange(t, q, interval)
      PROVE  OnlyWitnessed'
  <2>1. members' = members
    BY <1>3 DEF BeginChange, log
  <2>2. /\ \A p, n : Witnessed(p, n)' <=> Witnessed(p, n)
        /\ \A p : (Active(p)' <=> Active(p)) /\ VisibleFrom(p)' = VisibleFrom(p)
    BY <1>1, <2>1 DEF Witnessed, MemberAt, Active, VisibleFrom
  <2>3. ASSUME NEW p \in Humans, p \notin torn', reading[p].at \in {"active", "from"}
        PROVE  ChangesOf(p)' = {}
    <3>1. p # q /\ p \notin torn
      BY <1>3, <2>3 DEF BeginChange
    <3>2. ChangesOf(p) = {}
      BY <2>3, <3>1 DEF OnlyWitnessed
    <3>3. \A u \in Threads : change'[u] = IF u = t THEN [who |-> q, interval |-> interval] ELSE change[u]
      BY <1>3 DEF BeginChange, CTypeOK
    <3> QED
      BY <3>1, <3>2, <3>3 DEF ChangesOf
  <2>4. torn \subseteq torn'
    BY <1>3 DEF BeginChange
  <2>5. \A p \in Humans \ torn' :
           /\ reading'[p].at \in {"active", "from"} => Active(p)' /\ ChangesOf(p)' = {}
           /\ reading'[p].at = "from" => reading'[p].from = VisibleFrom(p)'
    BY <1>1, <2>2, <2>3, <2>4 DEF OnlyWitnessed
  <2>6. \A p \in Humans \ torn' :
           /\ \A n \in reading'[p].visible : Witnessed(p, n)'
           /\ \A e \in reading'[p].batch : Witnessed(p, e.of)'
           /\ \A e \in seen'[p] : Witnessed(p, e.of)'
    BY <1>1, <2>2, <2>4 DEF OnlyWitnessed
  <2> QED
    BY <2>5, <2>6 DEF OnlyWitnessed
<1> QED
  BY <1>2, <1>3 DEF Membership, AddMember, RemoveMember

(* Every step, as long as no two writes overlap. *)
LEMMA StepsKeepOnlyWitnessed ==
    ASSUME CTypeOK, NoneAhead, Alone, OnlyWitnessed, Next
    PROVE  OnlyWitnessed'
<1>1. CASE \E t \in Threads : Membership(t)
  BY <1>1, MembershipKeepsOnlyWitnessed
<1>2. CASE \E p \in Humans : Poll(p)
  BY <1>2, ReadsKeepOnlyWitnessed
<1>3. CASE UNCHANGED <<members, beside>> /\ (UNCHANGED messages \/ \E m : messages' = Append(messages, m))
  BY <1>3, WritingKeepsOnlyWitnessed
<1>4. CASE \E t \in Threads, k \in Keys :
              \/ \E p \in Humans, b \in Bodies : Send(t, p, k, b)
              \/ \E actor \in Humans, p \in Bots : BotTurn(t, actor, p, k)
  BY <1>3, <1>4 DEF Send, BotTurn, log
<1>5. ASSUME NEW t \in Threads, Write(t)
      PROVE  UNCHANGED <<members, beside>> /\ (UNCHANGED messages \/ \E m : messages' = Append(messages, m))
  <2>1. CASE AppendMessage(t)
    BY <2>1 DEF AppendMessage
  <2> QED
    BY <1>5, <2>1 DEF Write, BotTurnEnds, Lookup, Check, Number, Index, Deduplicate, Publish, Dispatch, Recall, log
<1> QED
  BY <1>1, <1>2, <1>3, <1>4, <1>5 DEF Next

-----------------------------------------------------------------------------
(* One write after the other.                                              *)
LEMMA WriterIsAlone ==
    ASSUME InStep, NEW t \in Threads, call[t].at \in Writing
    PROVE  /\ \A u \in Threads : u # t => call[u].at \notin Writing
           /\ Reached(t)
BY DEF InStep, OneWriter

(* A step of the one request that writes, up to its last. *)
LEMMA WriterKeepsInStep ==
    ASSUME InStep, NEW t \in Threads, call[t].at \in Writing,
           \A u \in Threads : u # t => call'[u] = call[u],
           call'[t].at \in Writing => Reached(t)', call'[t].at \notin Writing => Whole',
           \A a \in answers' : Told(a)', SpokenByMembers'
    PROVE  InStep'
<1>1. \A u \in Threads : u # t => call'[u].at \notin Writing
  BY WriterIsAlone
<1>2. OneWriter'
  BY <1>1 DEF OneWriter
<1>3. \A u \in Threads : call'[u].at \notin Writing => Reached(u)'
  BY DEF Reached, Writing
<1>4. \A u \in Threads : Reached(u)'
  BY <1>1, <1>3
<1>5. ~Busy' => Whole'
  BY DEF Busy
<1> QED
  BY <1>2, <1>4, <1>5 DEF InStep

(* A step that writes nothing, of a request or of none. *)
LEMMA OthersKeepInStep ==
    ASSUME InStep, UNCHANGED <<messages, idempotency, eventSequence, events, outcomes, answers>>, SpokenByMembers',
           \A u \in Threads : \/ call'[u] = call[u] /\ (call[u].at \in Writing => Active(call[u].sender)' = Active(call[u].sender))
                              \/ call[u].at \notin Writing /\ call'[u].at \notin Writing
    PROVE  InStep'
<1>1. \A i, e, o : Written(i, e, o)' <=> Written(i, e, o)
  BY DEF Written
<1>2. Whole' <=> Whole
  BY <1>1 DEF Whole
<1>3. ASSUME NEW u \in Threads PROVE Reached(u)'
  <2>1. CASE call'[u].at \notin Writing
    BY <2>1 DEF Reached, Writing
  <2>2. CASE call'[u].at \in Writing
    <3>1. call'[u] = call[u] /\ Active(call[u].sender)' = Active(call[u].sender) /\ Reached(u)
      BY <2>2 DEF InStep
    <3> QED
      BY <1>1, <1>2, <3>1 DEF Reached, Held, Composed, Active
  <2> QED
    BY <2>1, <2>2
<1>4. OneWriter' /\ (Busy' <=> Busy)
  BY DEF InStep, OneWriter, Busy
<1>5. \A a \in answers' : Told(a)'
  BY DEF InStep, Told
<1> QED
  BY <1>2, <1>3, <1>4, <1>5 DEF InStep

(* A write that begins while no other is under way finds the log whole. *)
LEMMA LookupKeepsInStep ==
    ASSUME CTypeOK, InStep, NEW t \in Threads, Lookup(t), ~raced'
    PROVE  InStep'
<1>1. ~Busy /\ Whole /\ \A u \in Threads : call[u].at \notin Writing
  BY DEF Lookup, Busy, InStep
<1>2. /\ UNCHANGED <<log, answers>> /\ Onward(t, "check", Held(t), NONE, NONE)
  BY DEF Lookup, Kept, Held
<1>3. UNCHANGED <<messages, idempotency, eventSequence, events, outcomes, members>>
  BY <1>2 DEF log
<1>4. /\ call'[t].at = "check" /\ call'[t].existing = Held(t)
      /\ call'[t].sender = call[t].sender /\ call'[t].key = call[t].key
      /\ \A u \in Threads : u # t => call'[u] = call[u]
  BY <1>2, OnwardMeans
<1>5. Whole'
  BY <1>1, <1>3 DEF Whole, Written
<1>6. Held(t)' = Held(t)
  BY <1>3, <1>4 DEF Held
<1>7. Reached(t)'
  BY <1>4, <1>5, <1>6 DEF Reached
<1>8. \A u \in Threads : u # t => call'[u].at \notin Writing
  BY <1>1, <1>4
<1>9. \A u \in Threads : Reached(u)'
  BY <1>7, <1>8 DEF Reached, Writing
<1>10. OneWriter' /\ Busy'
  BY <1>4, <1>8 DEF OneWriter, Busy, Writing
<1>11. (\A a \in answers' : Told(a)') /\ SpokenByMembers'
  BY <1>2, <1>3 DEF InStep, Told, SpokenByMembers, MemberAt
<1> QED
  BY <1>5, <1>9, <1>10, <1>11 DEF InStep

\* The log is as it was, to every writer.
LEMMA LogStays ==
    ASSUME InStep, UNCHANGED <<log, answers>>
    PROVE  /\ \A i, e, o : Written(i, e, o)' <=> Written(i, e, o)
           /\ Whole' <=> Whole
           /\ \A a \in answers' : Told(a)'
           /\ SpokenByMembers'
<1>1. UNCHANGED <<messages, idempotency, eventSequence, events, outcomes, members, answers>>
  BY DEF log
<1>2. \A i, e, o : Written(i, e, o)' <=> Written(i, e, o)
  BY <1>1 DEF Written
<1>3. \A a \in answers' : Told(a)'
  BY <1>1 DEF InStep, Told
<1>4. SpokenByMembers'
  BY <1>1 DEF InStep, SpokenByMembers, MemberAt
<1> QED
  BY <1>2, <1>3, <1>4 DEF Whole

(* A repeated request has found the message that is kept, a new one none. *)
LEMMA CheckKeepsInStep ==
    ASSUME CTypeOK, Shapes, InStep, NEW t \in Threads, Check(t)
    PROVE  InStep'
<1>1. /\ call[t].at = "check" /\ call[t].at \in Writing /\ UNCHANGED <<log, answers>>
      /\ UNCHANGED <<messages, idempotency, eventSequence, events, outcomes, members>>
  BY DEF Check, Writing, log
<1>2. Reached(t) /\ Whole /\ call[t].existing = Held(t)
  BY <1>1, WriterIsAlone DEF Reached
<1>3. Whole' /\ (\A a \in answers' : Told(a)') /\ SpokenByMembers'
  BY <1>1, <1>2, LogStays
<1>4. CASE Done(t)
  <2>1. call'[t].at = "idle" /\ \A u \in Threads : u # t => call'[u] = call[u]
    BY <1>4, DoneKeepsTypes
  <2>2. call'[t].at \notin Writing
    BY <2>1 DEF Writing
  <2> QED
    BY <1>1, <1>3, <2>1, <2>2, WriterKeepsInStep
<1>5. CASE MaySend(call[t].sender) /\ Held(t) = NONE /\ Goto(t, "number")
  <2>1. /\ call'[t].at = "number" /\ call'[t].sender = call[t].sender /\ call'[t].key = call[t].key
        /\ \A u \in Threads : u # t => call'[u] = call[u]
    BY <1>5, OnwardMeans DEF Goto
  <2>2. Held(t)' = NONE /\ Active(call[t].sender)'
    BY <1>1, <1>5, <2>1 DEF Held, MaySend, Active
  <2>3. Reached(t)'
    BY <1>3, <2>1, <2>2 DEF Reached
  <2> QED
    BY <1>1, <1>3, <2>1, <2>3, WriterKeepsInStep
<1>6. CASE /\ Held(t) # NONE /\ SamePayload(Held(t), call[t].body)
           /\ Onward(t, IF call[t].existing # NONE THEN "recall" ELSE "outbox", call[t].existing, Held(t),
                     [number |-> eventSequence, of |-> Held(t).number])
  <2>1. PICK e : Onward(t, "recall", Held(t), Held(t), e)
    BY <1>2, <1>6
  <2>2. /\ call'[t].at = "recall" /\ call'[t].sender = call[t].sender /\ call'[t].key = call[t].key
        /\ call'[t].existing = Held(t) /\ call'[t].message = Held(t) /\ call'[t].body = call[t].body
        /\ \A u \in Threads : u # t => call'[u] = call[u]
    BY <2>1, OnwardMeans
  <2>3. Held(t)' = Held(t)
    BY <1>1, <2>2 DEF Held
  <2>4. Reached(t)'
    BY <1>3, <1>6, <2>2, <2>3 DEF Reached, SamePayload
  <2> QED
    BY <1>1, <1>3, <2>2, <2>4, WriterKeepsInStep
<1> QED
  BY <1>4, <1>5, <1>6 DEF Check, Held

(* The next number is that of the next place in the log. *)
LEMMA NumberKeepsInStep ==
    ASSUME CTypeOK, Shapes, InStep, NEW t \in Threads, Number(t)
    PROVE  InStep'
<1>1. /\ call[t].at = "number" /\ call[t].at \in Writing /\ UNCHANGED <<log, answers>>
      /\ UNCHANGED <<messages, idempotency, eventSequence, events, outcomes, members>>
  BY DEF Number, Writing, log
<1>2. Reached(t) /\ Whole /\ Held(t) = NONE /\ Active(call[t].sender)
  BY <1>1, WriterIsAlone DEF Reached
<1>3. Whole' /\ (\A a \in answers' : Told(a)') /\ SpokenByMembers'
  BY <1>1, <1>2, LogStays
<1>4. /\ call'[t].at = "append" /\ call'[t].sender = call[t].sender /\ call'[t].key = call[t].key
      /\ call'[t].body = call[t].body
      /\ call'[t].message = [sender |-> call[t].sender, key |-> call[t].key, body |-> call[t].body, number |-> Len(messages) + 1]
      /\ \A u \in Threads : u # t => call'[u] = call[u]
  <2>1. PICK m : /\ Onward(t, "append", NONE, m, NONE)
                 /\ m = [sender |-> call[t].sender, key |-> call[t].key, body |-> call[t].body, number |-> Len(messages) + 1]
    BY DEF Number, NextNumber
  <2> QED
    BY <2>1, OnwardMeans
<1>5. Held(t)' = NONE /\ Active(call[t].sender)' /\ Composed(t, Len(messages) + 1)'
  BY <1>1, <1>2, <1>4 DEF Held, Active, Composed
<1>6. Reached(t)'
  BY <1>1, <1>3, <1>4, <1>5 DEF Reached, Composed
<1> QED
  BY <1>1, <1>3, <1>4, <1>6, WriterKeepsInStep

(* From here to the dispatch the log is ahead of what tells of it. *)
LEMMA AppendKeepsInStep ==
    ASSUME CTypeOK, Shapes, NoneAhead, InStep, NEW t \in Threads, AppendMessage(t)
    PROVE  InStep'
<1> DEFINE n == Len(messages)
           m == call[t].message
<1>1. /\ call[t].at = "append" /\ call[t].at \in Writing /\ messages' = Append(messages, m)
      /\ UNCHANGED <<members, idempotency, eventSequence, events, outcomes, answers>>
  BY DEF AppendMessage, Writing
<1>2. Reached(t) /\ Whole /\ Held(t) = NONE /\ Active(call[t].sender) /\ Composed(t, n + 1)
  BY <1>1, WriterIsAlone DEF Reached
<1>3. /\ call'[t].at = "index" /\ call'[t].sender = call[t].sender /\ call'[t].key = call[t].key
      /\ call'[t].body = call[t].body /\ call'[t].message = m
      /\ \A u \in Threads : u # t => call'[u] = call[u]
  BY OnwardMeans DEF AppendMessage, Goto
<1>4. n \in Nat /\ Len(messages') = n + 1 /\ messages'[n + 1] = m /\ \A i \in 1 .. n : messages'[i] = messages[i]
  BY <1>1 DEF CTypeOK
<1>5. m.number = n + 1 /\ m.sender = call[t].sender
  BY <1>2 DEF Composed
<1>6. Written(1, 1, 1)'
  <2>1. /\ eventSequence = n
        /\ \A j \in 1 .. n : messages[j].number = j
        /\ \A j \in 1 .. n : idempotency[messages[j].sender][messages[j].key] = messages[j]
        /\ \A p \in Principals, k \in Keys :
              idempotency[p][k] # NONE =>
                 /\ idempotency[p][k].number \in 1 .. n
                 /\ idempotency[p][k] = messages[idempotency[p][k].number]
        /\ events = [j \in 1 .. n |-> [number |-> j, of |-> j]]
        /\ \A j \in Numbers : outcomes[j] # NONE <=> j <= n
    BY <1>2, <1>4 DEF Whole, Written
  <2>2. Len(messages') - 1 = n
    BY <1>4
  <2> HIDE DEF n
  <2>3. \A j \in 1 .. Len(messages') : messages'[j].number = j
    BY <1>4, <1>5, <2>1
  <2> QED
    BY <1>1, <1>4, <2>1, <2>2, <2>3 DEF Written
<1>7. Reached(t)'
  <2>1. Held(t)' = NONE /\ Composed(t, Len(messages))'
    BY <1>1, <1>2, <1>3, <1>4 DEF Held, Composed
  <2> QED
    BY <1>3, <1>4, <1>6, <2>1 DEF Reached, Composed
<1>8. \A a \in answers' : Told(a)'
  BY <1>1 DEF InStep, Told
<1>9. SpokenByMembers'
  <2> HIDE DEF n, m
  <2>1. \A i \in 1 .. n : MemberAt(messages[i].sender, messages[i].number)
    BY DEF InStep, SpokenByMembers, n
  <2>2. MemberAt(m.sender, n + 1)
    <3>1. call[t].sender \in Principals
      BY <1>1 DEF Shapes, Shape
    <3>2. PICK i \in 1 .. Len(members[m.sender]) : members[m.sender][i].left = 0
      BY <1>2, <1>5 DEF Active
    <3>3. members[m.sender][i].joined <= n + 1
      BY <1>5, <3>1, <3>2 DEF NoneAhead, n
    <3> QED
      BY <3>2, <3>3 DEF MemberAt
  <2>3. \A i \in 1 .. n + 1 : MemberAt(messages'[i].sender, messages'[i].number)
    <3>1. \A i \in 1 .. n + 1 : i \in 1 .. n \/ i = n + 1
      BY <1>4
    <3>2. \A i \in 1 .. n : MemberAt(messages'[i].sender, messages'[i].number)
      BY <1>4, <2>1
    <3>3. MemberAt(messages'[n + 1].sender, messages'[n + 1].number)
      BY <1>4, <1>5, <2>2
    <3> QED
      BY <3>1, <3>2, <3>3
  <2> QED
    BY <1>1, <1>4, <2>3 DEF SpokenByMembers, MemberAt
<1> QED
  BY <1>1, <1>3, <1>7, <1>8, <1>9, WriterKeepsInStep DEF Writing

(* A key that was free is kept, for the last message. *)
LEMMA IndexMeans ==
    ASSUME CTypeOK, Shapes, NEW t \in Threads, Index(t)
    PROVE  /\ call[t].sender \in Principals /\ call[t].key \in Keys
           /\ idempotency'[call[t].sender][call[t].key] = call[t].message
           /\ \A p \in Principals, k \in Keys :
                 p # call[t].sender \/ k # call[t].key => idempotency'[p][k] = idempotency[p][k]
<1>1. call[t].sender \in Principals /\ call[t].key \in Keys
  BY DEF Shapes, Shape, Index
<1>2. idempotency \in [Principals -> [Keys -> Messages \cup {NONE}]]
  BY DEF CTypeOK
<1> QED
  BY <1>1, <1>2 DEF Index

(* Answers that were given are of other keys, and stand. *)
LEMMA IndexKeepsInStep ==
    ASSUME CTypeOK, Shapes, InStep, NEW t \in Threads, Index(t)
    PROVE  InStep'
<1> DEFINE n == Len(messages)
           m == call[t].message
<1>1. /\ call[t].at = "index" /\ call[t].at \in Writing /\ eventSequence' = eventSequence + 1
      /\ UNCHANGED <<members, messages, events, outcomes, answers>>
  BY DEF Index, Writing
<1>2. Reached(t) /\ Written(1, 1, 1) /\ n >= 1 /\ Held(t) = NONE /\ Composed(t, n) /\ messages[n] = m
  BY <1>1, WriterIsAlone DEF Reached
<1>3. m.number = n /\ m.sender = call[t].sender /\ m.key = call[t].key
  BY <1>2 DEF Composed
<1>4. n \in Nat /\ eventSequence = n - 1 /\ eventSequence' = n
  <2>1. n \in Nat /\ eventSequence = n - 1
    BY <1>2 DEF CTypeOK, Written
  <2> QED
    BY <1>1, <2>1
<1>5. /\ call'[t].at = "outbox" /\ call'[t].sender = call[t].sender /\ call'[t].key = call[t].key
      /\ call'[t].body = call[t].body /\ call'[t].message = m
      /\ call'[t].event = [number |-> eventSequence', of |-> m.number]
      /\ \A u \in Threads : u # t => call'[u] = call[u]
  BY OnwardMeans DEF Index
<1>6. Held(t)' = m /\ Composed(t, n)' /\ call'[t].event = [number |-> n, of |-> n]
  BY <1>1, <1>2, <1>3, <1>4, <1>5, IndexMeans DEF Held, Composed
<1>7. \A i \in 1 .. n : messages[i] \in Messages /\ messages[i].sender \in Principals /\ messages[i].key \in Keys
  <2>1. \A i \in 1 .. n : messages[i] \in Messages
    BY DEF CTypeOK
  <2> QED
    BY <2>1 DEF Messages
<1>8. Written(0, 1, 1)'
  <2>1. /\ \A j \in 1 .. n : messages[j].number = j
        /\ \A j \in 1 .. n - 1 : idempotency[messages[j].sender][messages[j].key] = messages[j]
        /\ \A p \in Principals, k \in Keys :
              idempotency[p][k] # NONE =>
                 /\ idempotency[p][k].number \in 1 .. n - 1
                 /\ idempotency[p][k] = messages[idempotency[p][k].number]
        /\ events = [j \in 1 .. n - 1 |-> [number |-> j, of |-> j]]
        /\ \A j \in Numbers : outcomes[j] # NONE <=> j <= n - 1
    BY <1>2 DEF Written
  <2> HIDE DEF n, m
  <2>2. \A j \in 1 .. n : idempotency'[messages[j].sender][messages[j].key] = messages[j]
    <3>1. ASSUME NEW j \in 1 .. n - 1 PROVE idempotency'[messages[j].sender][messages[j].key] = messages[j]
      <4>1. j \in 1 .. n
        BY <1>4
      <4>2. messages[j] # NONE /\ idempotency[messages[j].sender][messages[j].key] = messages[j]
        BY <1>7, <2>1, <4>1, ConversationAssumption
      <4>3. messages[j].sender # call[t].sender \/ messages[j].key # call[t].key
        BY <1>2, <4>2 DEF Held
      <4> QED
        BY <1>7, <4>1, <4>2, <4>3, IndexMeans
    <3>2. idempotency'[messages[n].sender][messages[n].key] = messages[n]
      BY <1>2, <1>3, IndexMeans DEF m
    <3>3. \A j \in 1 .. n : j \in 1 .. n - 1 \/ j = n
      BY <1>4
    <3> QED
      BY <3>1, <3>2, <3>3
  <2>3. ASSUME NEW p \in Principals, NEW k \in Keys, idempotency'[p][k] # NONE
        PROVE  /\ idempotency'[p][k].number \in 1 .. n
               /\ idempotency'[p][k] = messages[idempotency'[p][k].number]
    <3>1. CASE p = call[t].sender /\ k = call[t].key
      BY <1>2, <1>3, <1>4, <3>1, IndexMeans DEF m
    <3>2. CASE p # call[t].sender \/ k # call[t].key
      <4>1. idempotency'[p][k] = idempotency[p][k]
        BY <3>2, IndexMeans
      <4> QED
        BY <1>4, <2>1, <2>3, <4>1
    <3> QED
      BY <3>1, <3>2
  <2>4. n - 0 = n
    BY <1>4
  <2>5. messages' = messages /\ Len(messages') = n
    BY <1>1 DEF n
  <2> QED
    BY <1>1, <1>4, <2>1, <2>2, <2>3, <2>4, <2>5 DEF Written
<1>9. Reached(t)'
  <2>1. Len(messages') = n
    BY <1>1
  <2> QED
    BY <1>2, <1>5, <1>6, <1>8, <2>1 DEF Reached, Composed
<1>10. \A a \in answers' : Told(a)'
  <2>1. ASSUME NEW a \in answers PROVE Told(a)'
    <3>1. Told(a) /\ a.sender \in Principals /\ a.key \in Keys /\ idempotency[a.sender][a.key] # NONE
      BY DEF InStep, Told
    <3>2. a.sender # call[t].sender \/ a.key # call[t].key
      BY <1>2, <3>1 DEF Held
    <3>3. idempotency'[a.sender][a.key] = idempotency[a.sender][a.key]
      BY <3>1, <3>2, IndexMeans
    <3> QED
      BY <1>1, <3>1, <3>3 DEF Told
  <2> QED
    BY <1>1, <2>1
<1>11. SpokenByMembers'
  BY <1>1 DEF InStep, SpokenByMembers, MemberAt
<1> QED
  BY <1>1, <1>5, <1>9, <1>10, <1>11, WriterKeepsInStep DEF Writing

(* The event of a new message is never taken for one that is there. *)
LEMMA DeduplicateKeepsInStep ==
    ASSUME CTypeOK, Shapes, InStep, NEW t \in Threads, Deduplicate(t)
    PROVE  InStep'
<1>1. /\ call[t].at = "outbox" /\ call[t].at \in Writing /\ UNCHANGED <<log, answers>>
      /\ UNCHANGED <<messages, idempotency, eventSequence, events, outcomes, members>>
  BY DEF Deduplicate, Writing, log
<1>2. /\ Reached(t) /\ Written(0, 1, 1) /\ Len(messages) >= 1 /\ Held(t) = call[t].message
      /\ Composed(t, Len(messages)) /\ call[t].event = [number |-> Len(messages), of |-> Len(messages)]
  BY <1>1, WriterIsAlone DEF Reached
<1>3. Written(0, 1, 1)' /\ (\A a \in answers' : Told(a)') /\ SpokenByMembers'
  BY <1>1, <1>2, LogStays
<1>4. ~ \E i \in 1 .. Len(events) : events[i].number = call[t].event.number
  <2>1. events = [j \in 1 .. Len(messages) - 1 |-> [number |-> j, of |-> j]] /\ Len(messages) \in Nat
    BY <1>2 DEF Written, CTypeOK
  <2>2. Len(events) = Len(messages) - 1
    BY <1>2, <2>1
  <2>3. \A i \in 1 .. Len(messages) - 1 : events[i].number = i
    BY <2>1
  <2>4. call[t].event.number = Len(messages)
    BY <1>2
  <2>5. ASSUME NEW i \in 1 .. Len(events), events[i].number = call[t].event.number PROVE FALSE
    <3>1. i \in 1 .. Len(messages) - 1 /\ i = Len(messages)
      BY <2>2, <2>3, <2>4, <2>5
    <3> QED
      BY <2>1, <3>1
  <2> QED
    BY <2>5
<1>5. Goto(t, "publish")
  BY <1>4 DEF Deduplicate
<1>6. /\ call'[t].at = "publish" /\ call'[t].sender = call[t].sender /\ call'[t].key = call[t].key
      /\ call'[t].body = call[t].body /\ call'[t].message = call[t].message /\ call'[t].event = call[t].event
      /\ \A u \in Threads : u # t => call'[u] = call[u]
  BY <1>5, OnwardMeans DEF Goto
<1>7. Held(t)' = call[t].message /\ Composed(t, Len(messages))'
  BY <1>1, <1>2, <1>6 DEF Held, Composed
<1>8. Reached(t)'
  BY <1>1, <1>2, <1>3, <1>6, <1>7 DEF Reached, Composed
<1> QED
  BY <1>1, <1>3, <1>6, <1>8, WriterKeepsInStep DEF Writing

(* The outbox has caught up with the log. *)
LEMMA PublishKeepsInStep ==
    ASSUME CTypeOK, Shapes, InStep, NEW t \in Threads, Publish(t)
    PROVE  InStep'
<1>1. /\ call[t].at = "publish" /\ call[t].at \in Writing /\ events' = Append(events, call[t].event)
      /\ UNCHANGED <<messages, idempotency, eventSequence, outcomes, members, answers>>
  BY DEF Publish, Writing
<1>2. /\ Reached(t) /\ Written(0, 1, 1) /\ Len(messages) >= 1 /\ Held(t) = call[t].message
      /\ Composed(t, Len(messages)) /\ call[t].event = [number |-> Len(messages), of |-> Len(messages)]
  BY <1>1, WriterIsAlone DEF Reached
<1>3. /\ call'[t].at = "dispatch" /\ call'[t].sender = call[t].sender /\ call'[t].key = call[t].key
      /\ call'[t].body = call[t].body /\ call'[t].message = call[t].message /\ call'[t].event = call[t].event
      /\ \A u \in Threads : u # t => call'[u] = call[u]
  BY OnwardMeans DEF Publish, Goto
<1>4. events' = [j \in 1 .. Len(messages) |-> [number |-> j, of |-> j]]
  <2> DEFINE n == Len(messages)
  <2>1. events = [j \in 1 .. n - 1 |-> [number |-> j, of |-> j]] /\ n \in Nat
    BY <1>2 DEF Written, CTypeOK
  <2>2. n >= 1 /\ events' = Append(events, [number |-> n, of |-> n])
    BY <1>1, <1>2
  <2> HIDE DEF n
  <2>3. events \in Seq(Events) /\ Len(events) = n - 1
    BY <2>1, <2>2 DEF CTypeOK
  <2>4. events' \in Seq(Events \cup {[number |-> n, of |-> n]}) /\ Len(events') = n
    BY <2>2, <2>1, <2>3
  <2>5. \A j \in 1 .. n : events'[j] = [number |-> j, of |-> j]
    <3>1. \A j \in 1 .. n - 1 : events'[j] = [number |-> j, of |-> j]
      <4>1. \A j \in 1 .. Len(events) : events'[j] = events[j]
        BY <2>2, <2>3
      <4>2. \A j \in 1 .. n - 1 : events[j] = [number |-> j, of |-> j]
        BY <2>1
      <4> QED
        BY <2>3, <4>1, <4>2
    <3>2. events'[n] = [number |-> n, of |-> n]
      BY <2>1, <2>2, <2>3
    <3>3. \A j \in 1 .. n : j \in 1 .. n - 1 \/ j = n
      BY <2>1
    <3> QED
      BY <3>1, <3>2, <3>3
  <2>6. events' = [j \in 1 .. n |-> events'[j]]
    BY <2>4
  <2> QED
    BY <2>5, <2>6 DEF n
<1>5. Written(0, 0, 1)'
  <2>1. Len(messages) - 0 = Len(messages)
    BY DEF CTypeOK
  <2> QED
    BY <1>1, <1>2, <1>4, <2>1 DEF Written
<1>6. Held(t)' = call[t].message /\ Composed(t, Len(messages))'
  BY <1>1, <1>2, <1>3 DEF Held, Composed
<1>7. Reached(t)'
  BY <1>1, <1>2, <1>3, <1>5, <1>6 DEF Reached, Composed
<1>8. (\A a \in answers' : Told(a)') /\ SpokenByMembers'
  BY <1>1 DEF InStep, Told, SpokenByMembers, MemberAt
<1> QED
  BY <1>1, <1>3, <1>7, <1>8, WriterKeepsInStep DEF Writing

(* The last step of a write: its dispatch is decided, and told. *)
LEMMA DispatchKeepsInStep ==
    ASSUME CTypeOK, Shapes, InStep, NEW t \in Threads, Dispatch(t)
    PROVE  InStep'
<1> DEFINE n == Len(messages)
           c == call[t]
<1>1. /\ c.at = "dispatch" /\ c.at \in Writing /\ Done(t)
      /\ UNCHANGED <<members, messages, idempotency, eventSequence, events>>
  BY DEF Dispatch, Writing
<1>2. /\ Reached(t) /\ Written(0, 0, 1) /\ n >= 1 /\ Held(t) = c.message
      /\ Composed(t, n) /\ c.event = [number |-> n, of |-> n]
  BY <1>1, WriterIsAlone DEF Reached
<1>3. c.sender \in Principals /\ c.key \in Keys /\ c.message \in Messages
  BY <1>1 DEF Shapes, Shape
<1>4. c.message.number = n /\ c.message.body = c.body /\ n \in Numbers /\ n \in Nat
  <2>1. c.message.number = n /\ c.message.body = c.body
    BY <1>2 DEF Composed
  <2> QED
    BY <1>3, <2>1 DEF Messages, CTypeOK
<1>5. PICK d \in Outcomes : /\ outcomes' = [outcomes EXCEPT ![n] = d]
                            /\ Acknowledge(c, d, c.event)
  <2>1. PICK d : /\ d = Decision(c.message, quota) /\ Acknowledge(c, d, c.event)
                 /\ outcomes' = [outcomes EXCEPT ![c.message.number] = d]
    BY DispatchMeans
  <2> QED
    BY <1>4, <2>1, DecisionIsOutcome DEF CTypeOK
<1>6. d # NONE /\ outcomes'[n] = d /\ \A j \in Numbers : j # n => outcomes'[j] = outcomes[j]
  BY <1>4, <1>5, ConversationAssumption DEF CTypeOK
<1>7. Whole'
  <2>1. \A j \in Numbers : outcomes[j] # NONE <=> j <= n - 1
    BY <1>2 DEF Written
  <2>2. \A j \in Numbers : j \in Int
    BY NumbersAreIntegers
  <2>3. \A j \in Numbers : outcomes'[j] # NONE <=> j <= n
    <3> HIDE DEF n
    <3>1. outcomes'[n] # NONE
      BY <1>6
    <3>2. ASSUME NEW j \in Numbers, j # n PROVE outcomes'[j] # NONE <=> j <= n
      <4>1. outcomes'[j] = outcomes[j] /\ (outcomes[j] # NONE <=> j <= n - 1)
        BY <1>6, <2>1, <3>2
      <4>2. j \in Int
        BY <2>2
      <4>3. j <= n - 1 <=> j <= n
        BY <1>4, <3>2, <4>2
      <4> QED
        BY <4>1, <4>3
    <3> QED
      BY <1>4, <3>1, <3>2
  <2>4. n - 0 = n
    BY <1>4
  <2> QED
    BY <1>1, <1>2, <2>3, <2>4 DEF Whole, Written
<1>8. \A a \in answers' : Told(a)'
  <2>1. ASSUME NEW a \in answers PROVE Told(a)'
    <3>1. Told(a)
      BY DEF InStep
    <3>2. PICK m : m = idempotency[a.sender][a.key]
      OBVIOUS
    <3>3. m \in Messages /\ m.number \in 1 .. n /\ outcomes[m.number] # NONE
      <4>1. m \in Messages
        BY <3>1, <3>2 DEF Told, CTypeOK
      <4>2. m.number \in 1 .. n - 0
        BY <1>2, <3>1, <3>2 DEF Told, Written
      <4> QED
        BY <1>4, <3>1, <3>2, <4>1, <4>2 DEF Told
    <3>4. m.number \in Numbers
      BY <3>3 DEF Messages
    <3>5. m.number <= n - 1
      BY <1>2, <3>3, <3>4 DEF Written
    <3>6. m.number # n
      BY <1>4, <3>3, <3>5
    <3>7. outcomes'[m.number] = outcomes[m.number]
      BY <1>6, <3>4, <3>6
    <3>8. idempotency'[a.sender][a.key] = m
      BY <1>1, <3>2
    <3> HIDE DEF n
    <3> QED
      BY <1>6, <3>1, <3>2, <3>3, <3>7, <3>8 DEF Told
  <2>2. PICK b : b = [sender |-> c.sender, key |-> c.key, body |-> c.body, number |-> n,
                      dispatch |-> d, event |-> [number |-> n, of |-> n]]
    OBVIOUS
  <2>3. answers' = answers \cup {b}
    BY <1>2, <1>4, <1>5, <2>2 DEF Acknowledge
  <2>4. Told(b)'
    <3>1. idempotency'[b.sender][b.key] = c.message /\ b.sender \in Principals /\ b.key \in Keys
      BY <1>1, <1>2, <1>3, <2>2 DEF Held
    <3>2. c.message # NONE
      BY <1>3, ConversationAssumption
    <3> HIDE DEF n, c
    <3> QED
      BY <1>4, <1>6, <2>2, <3>1, <3>2 DEF Told
  <2> QED
    BY <2>1, <2>3, <2>4
<1>9. SpokenByMembers'
  BY <1>1 DEF InStep, SpokenByMembers, MemberAt
<1>10. call'[t].at = "idle" /\ \A u \in Threads : u # t => call'[u] = call[u]
  BY <1>1, DoneKeepsTypes
<1>11. call'[t].at \notin Writing
  BY <1>10 DEF Writing
<1> QED
  BY <1>1, <1>7, <1>8, <1>9, <1>10, <1>11, WriterKeepsInStep

(* A retry is told what the first try was told. *)
LEMMA RecallKeepsInStep ==
    ASSUME CTypeOK, Shapes, InStep, NEW t \in Threads, Recall(t)
    PROVE  InStep'
<1> DEFINE c == call[t]
           m == Held(t)
<1>1. /\ c.at = "recall" /\ c.at \in Writing /\ Done(t) /\ UNCHANGED log
      /\ UNCHANGED <<members, messages, idempotency, eventSequence, events, outcomes>>
  BY DEF Recall, Writing, log
<1>2. Reached(t) /\ Whole /\ m # NONE /\ c.existing = m /\ c.message = m /\ c.body = m.body
  BY <1>1, WriterIsAlone DEF Reached
<1>3. c.sender \in Principals /\ c.key \in Keys
  BY <1>1 DEF Shapes, Shape
<1>4. Whole' /\ SpokenByMembers'
  <2>1. \A i, e, o : Written(i, e, o)' <=> Written(i, e, o)
    BY <1>1 DEF Written
  <2> QED
    BY <1>1, <1>2, <2>1 DEF Whole, InStep, SpokenByMembers, MemberAt
<1>5. \A a \in answers : Told(a)'
  BY <1>1 DEF InStep, Told
<1>6. \A a \in answers' : Told(a)'
  <2>1. CASE UNCHANGED answers
    BY <1>5, <2>1
  <2>2. ASSUME NEW i \in 1 .. Len(events), events[i].of = m.number, outcomes[m.number] # NONE,
               Acknowledge(c, outcomes[m.number], events[i])
        PROVE  \A a \in answers' : Told(a)'
    <3>1. events = [j \in 1 .. Len(messages) |-> [number |-> j, of |-> j]]
      <4>1. Len(messages) - 0 = Len(messages)
        BY DEF CTypeOK
      <4> QED
        BY <1>2, <4>1 DEF Whole, Written
    <3>2. i \in 1 .. Len(messages)
      <4>1. Len(messages) \in Nat
        BY DEF CTypeOK
      <4> QED
        BY <3>1, <4>1
    <3>3. events[i] = [number |-> m.number, of |-> m.number]
      BY <2>2, <3>1, <3>2
    <3>4. PICK b : b = [sender |-> c.sender, key |-> c.key, body |-> c.body, number |-> m.number,
                        dispatch |-> outcomes[m.number], event |-> [number |-> m.number, of |-> m.number]]
      OBVIOUS
    <3>5. answers' = answers \cup {b}
      BY <1>2, <2>2, <3>3, <3>4 DEF Acknowledge
    <3>6. idempotency'[b.sender][b.key] = m
      BY <1>1, <3>4 DEF Held
    <3>7. Told(b)'
      <4>1. b.sender \in Principals /\ b.key \in Keys /\ outcomes'[m.number] = outcomes[m.number]
        BY <1>1, <1>3, <3>4
      <4> HIDE DEF m, c
      <4> QED
        BY <1>2, <2>2, <3>4, <3>6, <4>1 DEF Told
    <3> QED
      BY <1>5, <3>5, <3>7
  <2> QED
    BY <1>2, <2>1, <2>2 DEF Recall
<1>7. call'[t].at = "idle" /\ \A u \in Threads : u # t => call'[u] = call[u]
  BY <1>1, DoneKeepsTypes
<1>8. call'[t].at \notin Writing
  BY <1>7 DEF Writing
<1> QED
  BY <1>1, <1>4, <1>6, <1>7, <1>8, WriterKeepsInStep

(* Whoever only reads, or is not writing yet, leaves the log in step. *)
LEMMA QuietKeepsInStep ==
    ASSUME InStep, UNCHANGED <<log, answers>>, NEW t \in Threads,
           call[t].at \notin Writing, call'[t].at \notin Writing,
           \A u \in Threads : u # t => call'[u] = call[u]
    PROVE  InStep'
<1>1. UNCHANGED <<messages, idempotency, eventSequence, events, outcomes, answers, members>>
  BY DEF log
<1>2. SpokenByMembers'
  BY LogStays
<1>3. \A u \in Threads : u # t => Active(call[u].sender)' = Active(call[u].sender)
  BY <1>1 DEF Active
<1> QED
  BY <1>1, <1>2, <1>3, OthersKeepInStep

(* Requests that begin, and bots that think, have written nothing. *)
LEMMA RequestsKeepInStep ==
    ASSUME CTypeOK, Shapes, InStep, NEW t \in Threads, NEW k \in Keys,
           \/ \E p \in Humans, b \in Bodies : Send(t, p, k, b)
           \/ \E actor \in Humans, p \in Bots : BotTurn(t, actor, p, k)
           \/ BotTurnEnds(t)
    PROVE  InStep'
<1>1. UNCHANGED <<log, answers>>
  BY DEF Send, BotTurn, BotTurnEnds
<1>2. /\ call[t].at \notin Writing /\ call'[t].at \notin Writing
      /\ \A u \in Threads : u # t => call'[u] = call[u]
  <2>1. CASE BotTurnEnds(t)
    <3>1. /\ call[t].at = "model" /\ call'[t].at \in {"lookup", "idle"}
          /\ \A u \in Threads : u # t => call'[u] = call[u]
      BY <2>1, OnwardMeans, DoneKeepsTypes DEF BotTurnEnds, Goto
    <3> QED
      BY <3>1 DEF Writing
  <2>2. CASE /\ call[t] = Idle
             /\ \E p \in Principals, b \in Bodies \cup {Answer}, step \in {"lookup", "model"} :
                   call' = [call EXCEPT ![t] = Request(step, p, k, b)]
    <3>1. PICK p \in Principals, b \in Bodies \cup {Answer}, step \in {"lookup", "model"} :
             call' = [call EXCEPT ![t] = Request(step, p, k, b)]
      BY <2>2
    <3>2. call'[t] = Request(step, p, k, b) /\ \A u \in Threads : u # t => call'[u] = call[u]
      BY <3>1, RequestKeepsTypes
    <3> QED
      BY <2>2, <3>2 DEF Request, Idle, Writing
  <2> QED
    BY <2>1, <2>2 DEF Send, BotTurn, Principals, Free
<1> QED
  BY <1>1, <1>2, QuietKeepsInStep

(* Until two writes overlap, nobody writes when a membership changes.       *)
LEMMA MembershipIsBetweenWrites ==
    ASSUME Alone, NEW t \in Threads, Membership(t), ~raced'
    PROVE  ~Busy /\ UNCHANGED call
BY DEF Membership, AddMember, RemoveMember, BeginChange, StoreInterval, Alone

(* Members come and go between two writes. *)
LEMMA MembershipKeepsInStep ==
    ASSUME CTypeOK, Shapes, NoneAhead, Alone, InStep, ~raced', NEW t \in Threads, Membership(t)
    PROVE  InStep'
<1>1. UNCHANGED <<messages, idempotency, eventSequence, events, outcomes, call, answers>> /\ ~Busy
  BY MembershipIsBetweenWrites DEF Membership, AddMember, RemoveMember, BeginChange, StoreInterval, log
<1>2. ASSUME StoreInterval(t) PROVE SpokenByMembers'
  <2>1. ASSUME NEW i \in 1 .. Len(messages), NEW q, NEW k, q = messages[i].sender, k = messages[i].number
        PROVE  MemberAt(q, k)'
    <3>1. messages[i] \in Messages /\ k <= Len(messages)
      BY <2>1, NumbersAreIntegers DEF NoneAhead
    <3>2. q \in Principals /\ k \in Numbers
      BY <2>1, <3>1 DEF Messages
    <3>3. Witnessed(q, k)
      BY <2>1, <3>1 DEF InStep, SpokenByMembers, Witnessed
    <3> QED
      BY <1>2, <3>2, <3>3, JoiningKeepsWitnessed DEF Witnessed
  <2>2. \A i \in 1 .. Len(messages) :
           \E j \in 1 .. Len(members'[messages[i].sender]) :
              /\ members'[messages[i].sender][j].joined <= messages[i].number
              /\ \/ members'[messages[i].sender][j].left = 0
                 \/ messages[i].number < members'[messages[i].sender][j].left
    BY <2>1 DEF MemberAt
  <2> QED
    BY <1>1, <2>2 DEF SpokenByMembers, MemberAt
<1>3. SpokenByMembers'
  <2>1. CASE UNCHANGED members
    BY <1>1, <2>1 DEF InStep, SpokenByMembers, MemberAt
  <2>2. CASE StoreInterval(t)
    BY <1>2, <2>2
  <2> QED
    BY <2>1, <2>2 DEF Membership, AddMember, RemoveMember, BeginChange, log
<1>4. \A u \in Threads : call'[u] = call[u] /\ call[u].at \notin Writing
  BY <1>1 DEF Busy
<1> QED
  BY <1>1, <1>3, <1>4, OthersKeepInStep

LEMMA ReadsKeepInStep ==
    ASSUME InStep, NEW p \in Humans, Poll(p)
    PROVE  InStep'
<1>1. UNCHANGED <<log, answers, call>>
  BY DEF Poll, BeginRead, ReadFrom, ReadVisible, ReadEvents, ReadEnds
<1>2. UNCHANGED <<messages, idempotency, eventSequence, events, outcomes, answers, members>>
  BY <1>1 DEF log
<1>3. SpokenByMembers'
  BY <1>1, LogStays
<1>4. \A u \in Threads : call'[u] = call[u] /\ Active(call[u].sender)' = Active(call[u].sender)
  BY <1>1, <1>2 DEF Active
<1> QED
  BY <1>2, <1>3, <1>4, OthersKeepInStep

(* Writes that overlapped once are known to have. *)
LEMMA RacedIsKnown ==
    ASSUME CTypeOK, Next, raced
    PROVE  raced'
<1>1. CASE \E t \in Threads : Membership(t)
  BY <1>1 DEF Membership, AddMember, RemoveMember, BeginChange, StoreInterval
<1>2. CASE \E t \in Threads, k \in Keys :
              \/ \E p \in Humans, b \in Bodies : Send(t, p, k, b)
              \/ \E actor \in Humans, p \in Bots : BotTurn(t, actor, p, k)
  BY <1>2 DEF Send, BotTurn
<1>3. CASE \E t \in Threads : Write(t)
  BY <1>3 DEF Write, BotTurnEnds, Lookup, Check, Number, AppendMessage, Index, Deduplicate, Publish, Dispatch, Recall
<1>4. CASE \E p \in Humans : Poll(p)
  BY <1>4 DEF Poll, BeginRead, ReadFrom, ReadVisible, ReadEvents, ReadEnds
<1> QED
  BY <1>1, <1>2, <1>3, <1>4 DEF Next

(* Every step, as long as it is not the one at which two writes overlap. *)
LEMMA StepsKeepInStep ==
    ASSUME CTypeOK, Shapes, Counted, NoneAhead, Alone, InStep, Next, ~raced'
    PROVE  InStep'
<1>1. CASE \E t \in Threads : Membership(t)
  BY <1>1, MembershipKeepsInStep
<1>2. CASE \E t \in Threads, k \in Keys :
              \/ \E p \in Humans, b \in Bodies : Send(t, p, k, b)
              \/ \E actor \in Humans, p \in Bots : BotTurn(t, actor, p, k)
  BY <1>2, RequestsKeepInStep
<1>3. ASSUME NEW t \in Threads, Write(t) PROVE InStep'
  <2>1. CASE BotTurnEnds(t)
    <3>1. PICK k : k = call[t].key
      OBVIOUS
    <3>2. k \in Keys
      BY <2>1, <3>1 DEF BotTurnEnds, Shapes, Shape
    <3> QED
      BY <2>1, <3>2, RequestsKeepInStep
  <2>2. CASE Lookup(t)
    BY <2>2, LookupKeepsInStep
  <2>3. CASE Check(t)
    BY <2>3, CheckKeepsInStep
  <2>4. CASE Number(t)
    BY <2>4, NumberKeepsInStep
  <2>5. CASE AppendMessage(t)
    BY <2>5, AppendKeepsInStep
  <2>6. CASE Index(t)
    BY <2>6, IndexKeepsInStep
  <2>7. CASE Deduplicate(t)
    BY <2>7, DeduplicateKeepsInStep
  <2>8. CASE Publish(t)
    BY <2>8, PublishKeepsInStep
  <2>9. CASE Dispatch(t)
    BY <2>9, DispatchKeepsInStep
  <2>10. CASE Recall(t)
    BY <2>10, RecallKeepsInStep
  <2> QED
    BY <1>3, <2>1, <2>2, <2>3, <2>4, <2>5, <2>6, <2>7, <2>8, <2>9, <2>10 DEF Write
<1>4. CASE \E p \in Humans : Poll(p)
  BY <1>4, ReadsKeepInStep
<1> QED
  BY <1>1, <1>2, <1>3, <1>4 DEF Next

(* A change of membership goes on alone until the step at which two writes *)
(* overlap.                                                                *)
LEMMA StepsKeepAlone ==
    ASSUME CTypeOK, Shapes, Counted, NoneAhead, Alone, Next, ~raced'
    PROVE  Alone'
<1>1. CASE UNCHANGED <<members, change, messages>> /\ (Busy' => Busy)
  BY <1>1 DEF Alone, Active
<1>2. ASSUME NEW t \in Threads, StoreInterval(t) PROVE Alone'
  <2>1. PICK p \in Principals, interval \in Intervals : Stores(t, p, interval)
    BY <1>2, StoreMeans
  <2> USE DEF Stores
  <2>2. \A u \in Threads : change'[u] = NONE
    BY <1>2, <2>1 DEF StoreInterval, CTypeOK, Alone
  <2>3. /\ \A i \in 1 .. Len(members[p]) : members[p][i].left = 0 => i = Len(members[p])
        /\ interval.left = 0 => \A i \in 1 .. Len(members[p]) : members[p][i].left # 0
        /\ members[p] \in Seq(Intervals)
    BY <2>1 DEF Alone, Active, CTypeOK
  <2>4. \A i \in 1 .. Len(members'[p]) : members'[p][i].left = 0 => i = Len(members'[p])
    <3>1. CASE interval.left = 0
      <4>1. /\ Len(members'[p]) = Len(members[p]) + 1
            /\ \A i \in 1 .. Len(members[p]) : members'[p][i] = members[p][i]
        BY <2>1, <2>3, <3>1
      <4> QED
        BY <2>1, <2>3, <3>1, <4>1
    <3>2. CASE interval.left # 0
      <4>1. /\ Len(members'[p]) = Len(members[p])
            /\ \A i \in 1 .. Len(members[p]) :
                  members'[p][i] = IF i = Len(members[p]) THEN interval ELSE members[p][i]
        BY <2>1, <2>3, <3>2
      <4> QED
        BY <2>3, <4>1
    <3> QED
      BY <3>1, <3>2
  <2>5. \A q \in Principals : \A i \in 1 .. Len(members'[q]) : members'[q][i].left = 0 => i = Len(members'[q])
    <3>1. ASSUME NEW q \in Principals, q # p
          PROVE  \A i \in 1 .. Len(members'[q]) : members'[q][i].left = 0 => i = Len(members'[q])
      <4>1. members'[q] = members[q]
        BY <2>1, <3>1
      <4> QED
        BY <4>1 DEF Alone
    <3> QED
      BY <2>4, <3>1
  <2> QED
    BY <2>2, <2>5 DEF Alone
<1>3. ASSUME NEW t \in Threads, NEW p \in Principals, AddMember(t, p) \/ RemoveMember(t, p) PROVE Alone'
  <2>1. PICK interval \in Intervals :
              /\ BeginChange(t, p, interval)
              /\ \/ AddMember(t, p) /\ interval = [joined |-> Len(messages) + 1, left |-> 0]
                 \/ /\ RemoveMember(t, p)
                    /\ interval = [joined |-> members[p][LastActive(p)].joined, left |-> Len(messages) + 1]
    BY <1>3, ChangeMeans
  <2>2. /\ ~Busy /\ (\A u \in Threads : change[u] = NONE)
        /\ UNCHANGED <<members, messages, call>> /\ Len(messages) \in Nat
    <3>1. ~Busy /\ ~Changing
      BY <2>1 DEF BeginChange
    <3>2. UNCHANGED <<members, messages, call>>
      BY <2>1 DEF BeginChange, log
    <3> QED
      BY <3>1, <3>2 DEF Changing, CTypeOK
  <2>3. change'[t] = [who |-> p, interval |-> interval] /\ \A u \in Threads : u # t => change'[u] = NONE
    BY <2>1, <2>2 DEF BeginChange, CTypeOK
  <2>4. ~Busy'
    BY <2>2 DEF Busy
  <2>5. /\ interval.left = 0 => ~Active(p)
        /\ interval.left # 0 => /\ interval.joined = members[p][Len(members[p])].joined
                                /\ interval.left = Len(messages) + 1
    <3>1. CASE AddMember(t, p) /\ interval = [joined |-> Len(messages) + 1, left |-> 0]
      BY <3>1 DEF AddMember
    <3>2. CASE /\ RemoveMember(t, p)
               /\ interval = [joined |-> members[p][LastActive(p)].joined, left |-> Len(messages) + 1]
      <4>1. LastActive(p) = Len(members[p])
        BY <3>2, LastActiveIsOne DEF RemoveMember, Alone
      <4> QED
        BY <2>2, <3>2, <4>1
    <3> QED
      BY <2>1, <3>1, <3>2
  <2>6. change'[t] # NONE => /\ change'[t].who = p /\ change'[t].interval = interval
    BY <2>3
  <2>7. (Active(p)' <=> Active(p))
    BY <2>2 DEF Active
  <2>8. ASSUME NEW u \in Threads, change'[u] # NONE
        PROVE  /\ u = t /\ change'[u].who = p /\ change'[u].interval = interval
    BY <2>3, <2>8
  <2> QED
    BY <2>2, <2>4, <2>5, <2>7, <2>8 DEF Alone
<1>4. ASSUME NEW t \in Threads, NEW k \in Keys,
             \/ \E p \in Humans, b \in Bodies : Send(t, p, k, b)
             \/ \E actor \in Humans, p \in Bots : BotTurn(t, actor, p, k)
      PROVE  Alone'
  <2>1. UNCHANGED <<members, change, messages>>
    BY <1>4 DEF Send, BotTurn, log, beside
  <2>2. PICK p \in Principals, b \in Bodies \cup {Answer}, step \in {"lookup", "model"} :
             call' = [call EXCEPT ![t] = Request(step, p, k, b)] /\ call[t] = Idle
    BY <1>4 DEF Send, BotTurn, Principals, Free
  <2>3. call'[t].at = step /\ \A u \in Threads : u # t => call'[u] = call[u]
    BY <2>2, RequestKeepsTypes DEF Request
  <2>4. Busy' => Busy
    BY <2>3 DEF Busy, Writing
  <2> QED
    BY <1>1, <2>1, <2>4
<1>5. ASSUME NEW t \in Threads, Write(t) PROVE Alone'
  <2>1. UNCHANGED <<members, change>>
    BY <1>5 DEF Write, BotTurnEnds, Lookup, Check, Number, AppendMessage, Index, Deduplicate, Publish, Dispatch,
                Recall, log, beside
  <2>2. CASE Changing
    <3>1. ~Busy /\ call[t].at \notin Writing
      BY <2>2 DEF Changing, Alone, Busy
    <3>2. BotTurnEnds(t)
      BY <1>5, <2>2, <3>1 DEF Write, Lookup, Check, Number, AppendMessage, Index, Deduplicate, Publish, Dispatch,
                              Recall, Writing
    <3>3. /\ call'[t].at \in {"lookup", "idle"} /\ \A u \in Threads : u # t => call'[u] = call[u]
      BY <3>2, OnwardMeans, DoneKeepsTypes DEF BotTurnEnds, Goto
    <3>4. UNCHANGED messages /\ (Busy' => Busy)
      BY <3>2, <3>3 DEF BotTurnEnds, log, Busy, Writing
    <3> QED
      BY <1>1, <2>1, <3>4
  <2>3. CASE ~Changing
    BY <2>1, <2>3 DEF Changing, Alone
  <2> QED
    BY <2>2, <2>3
<1>6. CASE \E p \in Humans : Poll(p)
  <2>1. UNCHANGED <<members, change, messages, call>>
    BY <1>6 DEF Poll, BeginRead, ReadFrom, ReadVisible, ReadEvents, ReadEnds, log
  <2> QED
    BY <1>1, <2>1 DEF Busy
<1> QED
  BY <1>2, <1>3, <1>4, <1>5, <1>6 DEF Next, Membership

-----------------------------------------------------------------------------
(* The invariant holds at the start, and every step keeps it.              *)
LEMMA InitIsInStep == Init => CInv
<1> SUFFICES ASSUME Init PROVE CInv
  OBVIOUS
<1>1. CTypeOK /\ Shapes
  BY InitIsTyped
<1>2. /\ messages = <<>> /\ Len(messages) = 0 /\ eventSequence = 0 /\ events = <<>> /\ quota = Quota /\ answers = {}
      /\ \A p \in Principals, k \in Keys : idempotency[p][k] = NONE
      /\ \A n \in Numbers : outcomes[n] = NONE
      /\ \A t \in Threads : call[t].at = "idle"
      /\ \A p \in Principals : members[p] = <<[joined |-> 1, left |-> 0]>>
      /\ \A t \in Threads : change[t] = NONE
      /\ \A p \in Humans : /\ reading[p].at = "idle" /\ reading[p].visible = {} /\ reading[p].batch = {}
                          /\ seen[p] = {}
  BY DEF Init, Idle, NotReading
<1>3. Counted
  <2>1. Coming = {} /\ Indexing = {}
    BY <1>2 DEF Coming, MayAppend, Indexing
  <2>2. Cardinality(Coming) = 0 /\ Cardinality(Indexing) = 0
    BY <2>1, FS_EmptySet
  <2> QED
    BY <1>2, <2>2, ConversationAssumption DEF Counted
<1>4. QuotaHolds
  <2>1. {n \in Numbers : outcomes[n] = "queued"} = {}
    BY <1>2, ConversationAssumption DEF Outcomes
  <2>2. Cardinality({n \in Numbers : outcomes[n] = "queued"}) = 0
    BY <2>1, FS_EmptySet
  <2> QED
    BY <1>2, <2>2, ConversationAssumption DEF QuotaHolds
<1>5. NoneAhead /\ Alone /\ OnlyWitnessed
  <2>1. \A p \in Principals : /\ members[p] # <<>> /\ Len(members[p]) = 1
                             /\ members[p][1].joined = 1
    <3>1. ASSUME NEW p \in Principals
          PROVE  members[p] # <<>> /\ Len(members[p]) = 1 /\ members[p][1].joined = 1
      <4>1. members[p] = <<[joined |-> 1, left |-> 0]>>
        BY <1>2
      <4> QED
        BY <4>1
    <3> QED
      BY <3>1
  <2>2. NoneAhead
    BY <1>2, <2>1 DEF NoneAhead
  <2>3. Alone
    <3>1. ASSUME NEW p \in Principals, NEW i \in 1 .. Len(members[p]) PROVE i = Len(members[p])
      <4>1. Len(members[p]) = 1
        BY <2>1
      <4> QED
        BY <4>1
    <3> QED
      BY <1>2, <3>1 DEF Alone
  <2>4. OnlyWitnessed
    BY <1>2 DEF OnlyWitnessed
  <2> QED
    BY <2>2, <2>3, <2>4
<1>6. Whole
  <2>1. events = [j \in 1 .. 0 |-> [number |-> j, of |-> j]]
    BY <1>2
  <2>2. \A j \in Numbers : ~(j <= 0)
    BY ConversationAssumption DEF Numbers
  <2> QED
    BY <1>2, <2>1, <2>2 DEF Whole, Written
<1>7. InStep
  <2>1. \A t \in Threads : call[t].at \notin Writing
    BY <1>2 DEF Writing
  <2>2. \A t \in Threads : Reached(t)
    BY <1>2 DEF Reached
  <2> QED
    BY <1>2, <1>6, <2>1, <2>2 DEF InStep, OneWriter, SpokenByMembers
<1> QED
  BY <1>1, <1>3, <1>4, <1>5, <1>7 DEF CInv

LEMMA StutteringKeepsInvariant ==
    ASSUME CInv, UNCHANGED cvars
    PROVE  CInv'
<1> USE DEF cvars
<1>1. CTypeOK' /\ Shapes'
  BY DEF CInv, CTypeOK, Shapes, Shape
<1>2. Counted'
  BY DEF CInv, Counted, Coming, Indexing, MayAppend, Held
<1>3. QuotaHolds'
  BY DEF CInv, QuotaHolds
<1>4. NoneAhead'
  BY DEF CInv, NoneAhead
<1>5. raced' \/ InStep'
  <2>1. CASE raced
    BY <2>1
  <2>2. CASE InStep
    <3>1. UNCHANGED <<log, answers>>
      BY DEF log
    <3>2. \A u \in Threads : Active(call[u].sender)' = Active(call[u].sender)
      BY DEF Active
    <3>3. SpokenByMembers'
      BY <2>2, <3>1, LogStays
    <3> QED
      BY <2>2, <3>2, <3>3, OthersKeepInStep
  <2> QED
    BY <2>1, <2>2 DEF CInv
<1>6. raced' \/ Alone'
  BY DEF CInv, Alone, Busy, Active
<1>7. raced' \/ OnlyWitnessed'
  BY DEF CInv, OnlyWitnessed, Witnessed, MemberAt, Active, ChangesOf, VisibleFrom
<1> QED
  BY <1>1, <1>2, <1>3, <1>4, <1>5, <1>6, <1>7 DEF CInv

(* The invariant holds whatever the pool's threads do, of any number of    *)
(* them, of members and of messages: types and the quota always, and the   *)
(* agreement of the log and what readers learn until two writes, one of    *)
(* which may be a change of membership, overlap.                           *)
(* conversation/state.py:88, conversation/outbox.py:35.                    *)
THEOREM ConversationInvariant == CSpec => []CInv
<1>1. CInv /\ [Next]_cvars => CInv'
  <2> SUFFICES ASSUME CInv, [Next]_cvars PROVE CInv'
    OBVIOUS
  <2>1. CASE Next
    <3>1. CTypeOK' /\ Shapes' /\ Counted' /\ QuotaHolds' /\ NoneAhead'
      BY <2>1, StepsKeepTypes, StepsKeepCounted, StepsKeepQuota, StepsKeepNoneAhead DEF CInv
    <3>2. raced' \/ (InStep' /\ Alone' /\ OnlyWitnessed')
      BY <2>1, RacedIsKnown, StepsKeepInStep, StepsKeepAlone, StepsKeepOnlyWitnessed DEF CInv
    <3> QED
      BY <3>1, <3>2 DEF CInv
  <2>2. CASE UNCHANGED cvars
    BY <2>2, StutteringKeepsInvariant
  <2> QED
    BY <2>1, <2>2
<1> QED
  BY <1>1, InitIsInStep, PTL DEF CSpec

(* Whatever overlaps, and for any bounds, the variables keep their types.  *)
THEOREM ConversationAlwaysTyped == CSpec => []CTypeOK
<1>1. CInv => CTypeOK
  BY DEF CInv
<1> QED
  BY <1>1, ConversationInvariant, PTL

(* Whatever overlaps, no more dispatches are queued than the quota.        *)
(* conversation/outbox.py:63.                                              *)
THEOREM QuotaAlwaysHolds == CSpec => []QuotaHolds
<1>1. CInv => QuotaHolds
  BY DEF CInv
<1> QED
  BY <1>1, ConversationInvariant, PTL

(* Until two writes overlap, whoever repeats a request gets the answer the *)
(* first try got.  conversation/outbox.py:35.                              *)
THEOREM RetriesAlwaysAnswerAlike == CSpec => []RetryAnswersAlike
<1>1. CInv => RetryAnswersAlike
  <2> SUFFICES ASSUME InStep, NEW a \in answers, NEW b \in answers, a.sender = b.sender, a.key = b.key
               PROVE  a = b
    BY DEF CInv, RetryAnswersAlike
  <2>1. Told(a) /\ Told(b)
    BY DEF InStep
  <2> QED
    BY <2>1 DEF Told
<1> QED
  BY <1>1, ConversationInvariant, PTL

(* Until two writes overlap, between two of them the log, its numbers, its *)
(* keys, the outbox and its outcomes agree.  conversation/state.py:88.     *)
THEOREM CommitsAreAlwaysWhole == CSpec => []CommitIsWhole
<1>1. CInv => CommitIsWhole
  <2> SUFFICES ASSUME CTypeOK, Whole PROVE CommitIsWhole
    BY DEF CInv, InStep, CommitIsWhole
  <2>1. Len(messages) - 0 = Len(messages)
    BY DEF CTypeOK
  <2>2. \A i \in 1 .. Len(messages) : i = messages[i].number /\ i \in Numbers /\ i <= Len(messages)
    <3>1. \A i \in 1 .. Len(messages) : messages[i] \in Messages /\ messages[i].number = i /\ i <= Len(messages)
      BY DEF CTypeOK, Whole, Written
    <3> QED
      BY <3>1 DEF Messages
  <2> QED
    BY <2>1, <2>2 DEF Whole, Written, CommitIsWhole
<1> QED
  BY <1>1, ConversationInvariant, PTL

(* Until two writes overlap, one of which may be a change of membership,   *)
(* nobody speaks while they are no member, and nobody learns of what was   *)
(* written while they were none, but whose read of the messages a change   *)
(* of their own membership overlapped.                                     *)
(* conversation/state.py:79, api/application.py:239.                       *)
THEOREM MembersAlwaysSeeAndSpeak == CSpec => []MembersSeeAndSpeak
<1>1. CInv => MembersSeeAndSpeak
  BY DEF CInv, MembersSeeAndSpeak, SeenWhileMember, OnlyWitnessed, Witnessed,
         SpeakersAreMembers, InStep, SpokenByMembers
<1> QED
  BY <1>1, ConversationInvariant, PTL

-----------------------------------------------------------------------------
(* The conversation implements MessageLog. *)

\* Where a request has passed the check of its sender.
Passed == {"recall", "number", "append", "index", "outbox", "publish", "dispatch"}

(* Until two writes overlap: who passed the check is still a member, every *)
(* dispatch that is queued has been paid for, and a message is kept under  *)
(* the sender and key it has.                                              *)
SpeakersStay == \A t \in Threads : call[t].at \in Passed => Active(call[t].sender)
QuotaIsSpent == quota + Cardinality({n \in Numbers : outcomes[n] = "queued"}) = Quota
KeptAsSent == \A p \in Principals, k \in Keys :
                 idempotency[p][k] # NONE => idempotency[p][k].sender = p /\ idempotency[p][k].key = k

LogInv == raced \/ (SpeakersStay /\ QuotaIsSpent /\ KeptAsSent)

\* The steps of a request, and what they leave alone.
LEMMA WritesAreOfOneThread ==
    ASSUME CTypeOK, Shapes, NEW t \in Threads, Write(t)
    PROVE  /\ \A u \in Threads : u # t => call'[u] = call[u]
           /\ UNCHANGED members
           /\ call'[t].at \in Passed => call'[t].sender = call[t].sender
           /\ call'[t].at \in Passed => \/ call[t].at \in Passed
                                        \/ call[t].at = "check" /\ Active(call[t].sender)
<1> USE DEF Passed
<1>1. CASE BotTurnEnds(t)
  BY <1>1, OnwardMeans, DoneKeepsTypes DEF BotTurnEnds, Goto, log
<1>2. CASE Lookup(t)
  BY <1>2, OnwardMeans DEF Lookup, log
<1>3. CASE Check(t)
  <2>1. CASE Done(t)
    BY <1>3, <2>1, DoneKeepsTypes DEF Check, log
  <2>2. ASSUME MaySend(call[t].sender), NEW step, NEW x, NEW m, NEW e, Onward(t, step, x, m, e)
        PROVE  /\ \A u \in Threads : u # t => call'[u] = call[u]
               /\ UNCHANGED members
               /\ call'[t].sender = call[t].sender
               /\ call[t].at = "check" /\ Active(call[t].sender)
    BY <1>3, <2>2, OnwardMeans DEF Check, log, MaySend
  <2> QED
    BY <1>3, <2>1, <2>2 DEF Check, Goto
<1>4. CASE Number(t)
  BY <1>4, OnwardMeans DEF Number, log
<1>5. CASE AppendMessage(t)
  BY <1>5, OnwardMeans DEF AppendMessage, Goto
<1>6. CASE Index(t)
  BY <1>6, OnwardMeans DEF Index
<1>7. CASE Deduplicate(t)
  BY <1>7, OnwardMeans DEF Deduplicate, Goto, log
<1>8. CASE Publish(t)
  BY <1>8, OnwardMeans DEF Publish, Goto
<1>9. CASE Dispatch(t)
  BY <1>9, DoneKeepsTypes DEF Dispatch
<1>10. CASE Recall(t)
  BY <1>10, DoneKeepsTypes DEF Recall, log
<1> QED
  BY <1>1, <1>2, <1>3, <1>4, <1>5, <1>6, <1>7, <1>8, <1>9, <1>10 DEF Write

LEMMA StepsKeepSpeakers ==
    ASSUME CTypeOK, Shapes, Alone, SpeakersStay, Next, ~raced'
    PROVE  SpeakersStay'
<1>1. CASE \E t \in Threads : Membership(t)
  <2>1. ~Busy /\ UNCHANGED call
    BY <1>1, MembershipIsBetweenWrites
  <2> QED
    BY <2>1 DEF Busy, SpeakersStay, Passed, Writing
<1>2. ASSUME NEW t \in Threads, NEW k \in Keys,
             \/ \E p \in Humans, b \in Bodies : Send(t, p, k, b)
             \/ \E actor \in Humans, p \in Bots : BotTurn(t, actor, p, k)
      PROVE  SpeakersStay'
  <2>1. UNCHANGED members
    BY <1>2 DEF Send, BotTurn, log
  <2>2. PICK p \in Principals, b \in Bodies \cup {Answer}, step \in {"lookup", "model"} :
             call' = [call EXCEPT ![t] = Request(step, p, k, b)] /\ call[t] = Idle
    BY <1>2 DEF Send, BotTurn, Principals, Free
  <2>3. call'[t].at = step /\ \A u \in Threads : u # t => call'[u] = call[u]
    BY <2>2, RequestKeepsTypes DEF Request
  <2> QED
    BY <2>1, <2>3 DEF SpeakersStay, Active, Passed
<1>3. ASSUME NEW t \in Threads, Write(t) PROVE SpeakersStay'
  BY <1>3, WritesAreOfOneThread DEF SpeakersStay, Active
<1>4. CASE \E p \in Humans : Poll(p)
  <2>1. UNCHANGED <<call, members>>
    BY <1>4 DEF Poll, BeginRead, ReadFrom, ReadVisible, ReadEvents, ReadEnds, log
  <2> QED
    BY <2>1 DEF SpeakersStay, Active
<1> QED
  BY <1>1, <1>2, <1>3, <1>4 DEF Next

(* Nothing had become of the last message when its dispatch is decided.    *)
LEMMA DispatchOfLast ==
    ASSUME CTypeOK, Shapes, InStep, NEW t \in Threads, Dispatch(t)
    PROVE  LET n == Len(messages) IN
           /\ n \in Numbers /\ outcomes[n] = NONE /\ Written(0, 0, 1)
           /\ call[t].message.number = n /\ Held(t) = call[t].message
           /\ Composed(t, n) /\ call[t].event = [number |-> n, of |-> n]
           /\ call[t].sender \in Principals /\ call[t].key \in Keys /\ call[t].body \in Bodies \cup {Answer}
<1> DEFINE n == Len(messages)
<1>1. call[t].at = "dispatch" /\ call[t].at \in Writing
  BY DEF Dispatch, Writing
<1>2. /\ Written(0, 0, 1) /\ Held(t) = call[t].message
      /\ Composed(t, n) /\ call[t].event = [number |-> n, of |-> n]
  BY <1>1, WriterIsAlone DEF Reached
<1>3. /\ call[t].sender \in Principals /\ call[t].key \in Keys /\ call[t].body \in Bodies \cup {Answer}
      /\ call[t].message \in Messages
  BY <1>1 DEF Shapes, Shape
<1>4. call[t].message.number = n /\ n \in Numbers /\ n \in Nat
  <2>1. call[t].message.number = n
    BY <1>2 DEF Composed
  <2> QED
    BY <1>3, <2>1 DEF Messages, CTypeOK
<1>5. outcomes[n] = NONE
  <2>1. ~(n <= n - 1)
    BY <1>4
  <2> QED
    BY <1>2, <1>4, <2>1 DEF Written
<1> QED
  BY <1>2, <1>3, <1>4, <1>5

LEMMA DispatchSpendsQuota ==
    ASSUME CTypeOK, Shapes, InStep, QuotaIsSpent, NEW t \in Threads, Dispatch(t)
    PROVE  QuotaIsSpent'
<1> DEFINE Queued == {n \in Numbers : outcomes[n] = "queued"}
           After == {n \in Numbers : outcomes'[n] = "queued"}
           m == Len(messages)
<1>1. m \in Numbers /\ outcomes[m] = NONE /\ call[t].message.number = m
  BY DispatchOfLast
<1>2. PICK dispatch : /\ dispatch = Decision(call[t].message, quota)
                      /\ quota' = quota - Spent(dispatch)
                      /\ outcomes' = [outcomes EXCEPT ![m] = dispatch]
  BY <1>1, DispatchMeans
<1>3. quota \in 0 .. Quota /\ Quota \in Nat
  BY ConversationAssumption DEF CTypeOK
<1>4. IsFiniteSet(Numbers)
  BY ConversationAssumption, FS_Interval DEF Numbers
<1>5. IsFiniteSet(Queued) /\ Cardinality(Queued) \in Nat
  BY <1>4, FS_Subset, FS_CardinalityType
<1>6. outcomes'[m] = dispatch /\ \A n \in Numbers : n # m => outcomes'[n] = outcomes[n]
  BY <1>1, <1>2 DEF CTypeOK
<1>7. m \notin Queued
  BY <1>1, ConversationAssumption DEF Outcomes
<1>8. CASE dispatch = "queued"
  <2>1. After = Queued \cup {m}
    BY <1>1, <1>6, <1>8
  <2>2. Cardinality(After) = Cardinality(Queued) + 1
    <3> HIDE DEF Queued, After, m
    <3> QED
      BY <1>5, <1>7, <2>1, FS_AddElement
  <2>3. quota' = quota - 1
    BY <1>2, <1>8 DEF Spent
  <2> QED
    BY <1>3, <1>5, <2>2, <2>3 DEF QuotaIsSpent
<1>9. CASE dispatch # "queued"
  <2>1. After = Queued
    BY <1>1, <1>6, <1>7, <1>9
  <2>2. quota' = quota
    BY <1>2, <1>3, <1>9 DEF Spent
  <2> QED
    BY <2>1, <2>2 DEF QuotaIsSpent
<1> QED
  BY <1>8, <1>9

\* Only a dispatch touches quota and outcomes, only an index the keys.
LEMMA WhoTouchesTheLog ==
    ASSUME Next
    PROVE  /\ (UNCHANGED <<quota, outcomes>>) \/ \E t \in Threads : Dispatch(t)
           /\ (UNCHANGED idempotency) \/ \E t \in Threads : Index(t)
<1>1. ASSUME NEW t \in Threads, Write(t)
      PROVE  /\ (UNCHANGED <<quota, outcomes>>) \/ Dispatch(t)
             /\ (UNCHANGED idempotency) \/ Index(t)
  BY <1>1 DEF Write, BotTurnEnds, Lookup, Check, Number, AppendMessage, Index, Deduplicate, Publish, Dispatch, Recall, log
<1> QED
  BY <1>1 DEF Next, Membership, AddMember, RemoveMember, BeginChange, StoreInterval, Send, BotTurn, Poll, BeginRead, ReadFrom, ReadVisible, ReadEvents, ReadEnds, log

LEMMA IndexKeepsSender ==
    ASSUME CTypeOK, Shapes, InStep, KeptAsSent, NEW t \in Threads, Index(t)
    PROVE  KeptAsSent'
<1>1. call[t].at = "index" /\ call[t].at \in Writing
  BY DEF Index, Writing
<1>2. Composed(t, Len(messages))
  BY <1>1, WriterIsAlone DEF Reached
<1>3. call[t].message.sender = call[t].sender /\ call[t].message.key = call[t].key
  BY <1>2 DEF Composed
<1> QED
  BY <1>3, IndexMeans DEF KeptAsSent

LEMMA StepsKeepLogInv ==
    ASSUME CInv, LogInv, Next
    PROVE  LogInv'
<1> SUFFICES ASSUME ~raced' PROVE LogInv'
  BY DEF LogInv
<1>1. CTypeOK /\ Shapes /\ InStep /\ Alone /\ SpeakersStay /\ QuotaIsSpent /\ KeptAsSent
  BY RacedIsKnown DEF CInv, LogInv
<1>2. SpeakersStay'
  BY <1>1, StepsKeepSpeakers
<1>3. QuotaIsSpent'
  <2>1. CASE UNCHANGED <<quota, outcomes>>
    BY <1>1, <2>1 DEF QuotaIsSpent
  <2> QED
    BY <1>1, <2>1, DispatchSpendsQuota, WhoTouchesTheLog
<1>4. KeptAsSent'
  <2>1. CASE UNCHANGED idempotency
    BY <1>1, <2>1 DEF KeptAsSent
  <2> QED
    BY <1>1, <2>1, IndexKeepsSender, WhoTouchesTheLog
<1> QED
  BY <1>2, <1>3, <1>4 DEF LogInv

LEMMA LogInvariant == CSpec => []LogInv
<1>1. Init => LogInv
  <2> SUFFICES ASSUME Init PROVE LogInv
    OBVIOUS
  <2>1. /\ quota = Quota /\ \A n \in Numbers : outcomes[n] = NONE
        /\ \A p \in Principals, k \in Keys : idempotency[p][k] = NONE
        /\ \A t \in Threads : call[t].at = "idle"
    BY DEF Init, Idle
  <2>2. {n \in Numbers : outcomes[n] = "queued"} = {}
    BY <2>1, ConversationAssumption DEF Outcomes
  <2>3. QuotaIsSpent
    BY <2>1, <2>2, FS_EmptySet, ConversationAssumption DEF QuotaIsSpent
  <2> QED
    BY <2>1, <2>3 DEF LogInv, SpeakersStay, KeptAsSent, Passed
<1>2. CInv /\ LogInv /\ [Next]_cvars => LogInv'
  <2>1. UNCHANGED cvars /\ LogInv => LogInv'
    BY DEF cvars, LogInv, SpeakersStay, QuotaIsSpent, KeptAsSent, Active
  <2> QED
    BY <2>1, StepsKeepLogInv
<1> QED
  BY <1>1, <1>2, ConversationInvariant, PTL DEF CSpec

\* Where a message is in the log and not told yet.
Handling == {"index", "outbox", "publish", "dispatch"}

\* What the message log sees of a step.
LogStep == [Log!LNext]_Log!lvars

LEMMA LogStutters ==
    ASSUME UNCHANGED <<Present, Entries, answers, raced>>
    PROVE  LogStep
BY DEF LogStep, Log!lvars

LEMMA EntriesStay ==
    ASSUME UNCHANGED <<messages, outcomes, InHand>>
    PROVE  Entries' = Entries
BY DEF Entries

LEMMA HandStays ==
    ASSUME NEW t \in Threads, \A u \in Threads : u # t => call'[u] = call[u],
           call'[t].at \in Handling <=> call[t].at \in Handling
    PROVE  InHand' = InHand
<1>1. (\E u \in Threads : call'[u].at \in Handling) <=> (\E u \in Threads : call[u].at \in Handling)
  OBVIOUS
<1> QED
  BY <1>1 DEF InHand, Handling

\* The one request that writes has the message in hand, or nobody has.
LEMMA HandOfWriter ==
    ASSUME InStep, NEW t \in Threads, call[t].at \in Writing, \A u \in Threads : u # t => call'[u] = call[u]
    PROVE  /\ InHand = IF call[t].at \in Handling THEN 1 ELSE 0
           /\ InHand' = IF call'[t].at \in Handling THEN 1 ELSE 0
<1>1. \A u \in Threads : u # t => call[u].at \notin Handling /\ call'[u].at \notin Handling
  BY WriterIsAlone DEF Handling, Writing
<1>2. (\E u \in Threads : call[u].at \in Handling) <=> call[t].at \in Handling
  BY <1>1
<1>3. (\E u \in Threads : call'[u].at \in Handling) <=> call'[t].at \in Handling
  BY <1>1
<1> QED
  BY <1>2, <1>3 DEF InHand, Handling

(* Who joins or leaves is present or not once the interval is stored; the  *)
(* log stays.                                                              *)
LEMMA MembershipIsPresence ==
    ASSUME CTypeOK, NoneAhead, NEW t \in Threads, Membership(t), ~raced'
    PROVE  LogStep
<1>1. UNCHANGED <<messages, outcomes, call, answers, raced>> /\ ~raced
  BY DEF Membership, AddMember, RemoveMember, BeginChange, StoreInterval, log, CTypeOK
<1>2. Entries' = Entries
  BY <1>1, EntriesStay DEF InHand
<1>3. CASE UNCHANGED members
  BY <1>1, <1>2, <1>3, LogStutters DEF Present, Active
<1>4. CASE StoreInterval(t)
  <2>1. PICK p \in Principals : \A q \in Principals : q # p => members'[q] = members[q]
    BY <1>4, StoreMeans DEF Stores
  <2>2. \A q \in Principals : q # p => (Active(q)' <=> Active(q))
    BY <2>1 DEF Active
  <2>3. CASE Active(p)'
    <3>1. Present' = Present \cup {p}
      BY <2>2, <2>3 DEF Present
    <3>2. Log!Join(p)
      BY <1>1, <1>2, <3>1 DEF Log!Join
    <3> QED
      BY <1>1, <3>2 DEF LogStep, Log!LNext, Principals
  <2>4. CASE ~Active(p)'
    <3>1. Present' = Present \ {p}
      BY <2>2, <2>4 DEF Present
    <3>2. Log!Leave(p)
      BY <1>1, <1>2, <3>1 DEF Log!Leave
    <3> QED
      BY <1>1, <3>2 DEF LogStep, Log!LNext, Principals
  <2> QED
    BY <2>3, <2>4
<1> QED
  BY <1>3, <1>4 DEF Membership, AddMember, RemoveMember, BeginChange, log

LEMMA RequestsAreUnseen ==
    ASSUME CTypeOK, Shapes, NEW t \in Threads, NEW k \in Keys,
           \/ \E p \in Humans, b \in Bodies : Send(t, p, k, b)
           \/ \E actor \in Humans, p \in Bots : BotTurn(t, actor, p, k)
    PROVE  LogStep
<1>1. UNCHANGED <<members, messages, outcomes, answers, raced>>
  BY DEF Send, BotTurn, log
<1>2. PICK p \in Principals, b \in Bodies \cup {Answer}, step \in {"lookup", "model"} :
           call' = [call EXCEPT ![t] = Request(step, p, k, b)] /\ call[t] = Idle
  BY DEF Send, BotTurn, Principals, Free
<1>3. call'[t].at = step /\ \A u \in Threads : u # t => call'[u] = call[u]
  BY <1>2, RequestKeepsTypes DEF Request
<1>4. InHand' = InHand
  BY <1>2, <1>3, HandStays DEF Handling, Idle
<1> QED
  BY <1>1, <1>4, EntriesStay, LogStutters DEF Present, Active

LEMMA ReadsAreUnseen ==
    ASSUME NEW p \in Humans, Poll(p)
    PROVE  LogStep
<1>1. UNCHANGED <<members, messages, outcomes, call, answers, raced>>
  BY DEF Poll, BeginRead, ReadFrom, ReadVisible, ReadEvents, ReadEnds, log
<1> QED
  BY <1>1, EntriesStay, LogStutters DEF Present, Active, InHand

(* All steps of a write but the last, and the append of the message, show  *)
(* nothing.                                                                *)
LEMMA UnderWayIsUnseen ==
    ASSUME CTypeOK, Shapes, InStep, NEW t \in Threads,
           \/ BotTurnEnds(t) \/ Lookup(t) \/ Check(t) \/ Number(t)
           \/ Index(t) \/ Deduplicate(t) \/ Publish(t), ~raced, ~raced'
    PROVE  LogStep
<1>1. UNCHANGED <<members, messages, outcomes, answers, raced>>
  BY DEF BotTurnEnds, Lookup, Check, Number, Index, Deduplicate, Publish, log, CTypeOK
<1>2. /\ \A u \in Threads : u # t => call'[u] = call[u]
      /\ call'[t].at \in Handling <=> call[t].at \in Handling
  <2> USE DEF Handling
  <2>1. CASE BotTurnEnds(t)
    BY <2>1, OnwardMeans, DoneKeepsTypes DEF BotTurnEnds, Goto
  <2>2. CASE Lookup(t)
    BY <2>2, OnwardMeans DEF Lookup
  <2>3. CASE Check(t)
    <3>1. call[t].at = "check" /\ call[t].at \in Writing
      BY <2>3 DEF Check, Writing
    <3>2. call[t].existing = Held(t)
      BY <3>1, WriterIsAlone DEF Reached
    <3>3. CASE Done(t)
      BY <3>1, <3>3, DoneKeepsTypes
    <3>4. CASE Goto(t, "number")
      BY <3>1, <3>4, OnwardMeans DEF Goto
    <3>5. ASSUME NEW e, Onward(t, "recall", call[t].existing, Held(t), e)
          PROVE  /\ \A u \in Threads : u # t => call'[u] = call[u]
                 /\ call'[t].at \in Handling <=> call[t].at \in Handling
      BY <3>1, <3>5, OnwardMeans
    <3> QED
      BY <2>3, <3>2, <3>3, <3>4, <3>5 DEF Check, Held
  <2>4. CASE Number(t)
    BY <2>4, OnwardMeans DEF Number
  <2>5. CASE Index(t)
    BY <2>5, OnwardMeans DEF Index
  <2>6. CASE Deduplicate(t)
    BY <2>6, OnwardMeans DEF Deduplicate, Goto
  <2>7. CASE Publish(t)
    BY <2>7, OnwardMeans DEF Publish, Goto
  <2> QED
    BY <2>1, <2>2, <2>3, <2>4, <2>5, <2>6, <2>7
<1>3. InHand' = InHand
  BY <1>2, HandStays
<1> QED
  BY <1>1, <1>3, EntriesStay, LogStutters DEF Present, Active

LEMMA AppendIsUnseen ==
    ASSUME CTypeOK, Shapes, InStep, NEW t \in Threads, AppendMessage(t)
    PROVE  LogStep
<1>1. /\ call[t].at = "append" /\ call[t].at \in Writing /\ messages' = Append(messages, call[t].message)
      /\ UNCHANGED <<members, outcomes, answers, raced>>
  BY DEF AppendMessage, Writing
<1>2. call'[t].at = "index" /\ \A u \in Threads : u # t => call'[u] = call[u]
  BY OnwardMeans DEF AppendMessage, Goto
<1>3. InHand = 0 /\ InHand' = 1
  BY <1>1, <1>2, HandOfWriter DEF Handling
<1>4. messages \in Seq(Messages) /\ Len(messages) \in Nat /\ call[t].message \in Messages
  BY <1>1 DEF CTypeOK, Shapes, Shape
<1>5. Len(messages') = Len(messages) + 1 /\ \A j \in 1 .. Len(messages) : messages'[j] = messages[j]
  BY <1>1, <1>4
<1>6. Len(messages) - 0 = Len(messages) /\ (Len(messages) + 1) - 1 = Len(messages)
  BY <1>4
<1>7. Entries' = Entries
  BY <1>1, <1>3, <1>5, <1>6 DEF Entries
<1> QED
  BY <1>1, <1>7, LogStutters DEF Present, Active

LogEntries == [sender : Principals, key : Keys, body : Bodies \cup {Answer}, dispatch : Outcomes \cup {NONE}]

\* Entry j is message j with its outcome.
Entry(ms, os, j) == [sender |-> ms[j].sender, key |-> ms[j].key, body |-> ms[j].body, dispatch |-> os[j]]

LEMMA EntriesAreASequence ==
    ASSUME NEW ms \in Seq(Messages), NEW os \in [Numbers -> Outcomes \cup {NONE}], NEW n \in 0 .. MaxMessages,
           n <= Len(ms), NEW es, es = [j \in 1 .. n |-> Entry(ms, os, j)]
    PROVE  /\ es \in Seq(LogEntries) /\ Len(es) = n
           /\ \A j \in 1 .. n : j \in Numbers /\ ms[j] \in Messages /\ es[j] = Entry(ms, os, j)
<1>1. n \in Nat /\ n <= MaxMessages /\ Len(ms) \in Nat /\ MaxMessages \in Nat
  BY ConversationAssumption
<1>2. \A j \in 1 .. n : j \in Numbers /\ j \in 1 .. Len(ms)
  BY <1>1 DEF Numbers
<1>3. \A j \in 1 .. n : ms[j] \in Messages /\ os[j] \in Outcomes \cup {NONE}
  BY <1>2
<1>4. \A j \in 1 .. n : Entry(ms, os, j) \in LogEntries
  BY <1>3 DEF Messages, LogEntries, Entry
<1>5. es \in [1 .. n -> LogEntries] /\ \A j \in 1 .. n : es[j] = Entry(ms, os, j)
  BY <1>4
<1>6. es \in Seq(LogEntries) /\ Len(es) = n
  BY <1>1, <1>5
<1> QED
  BY <1>2, <1>3, <1>5, <1>6

LEMMA LogGrows ==
    ASSUME NEW S, NEW f \in Seq(S), NEW g \in Seq(S), Len(g) = Len(f) + 1,
           \A j \in 1 .. Len(f) : g[j] = f[j]
    PROVE  g = Append(f, g[Len(g)])
<1>1. Len(f) \in Nat /\ g[Len(g)] \in S
  OBVIOUS
<1>2. /\ Append(f, g[Len(g)]) \in Seq(S) /\ Len(Append(f, g[Len(g)])) = Len(g)
      /\ \A j \in 1 .. Len(g) : Append(f, g[Len(g)])[j] = g[j]
  BY <1>1, AppendProperties
<1> QED
  BY <1>2, SeqEqual

LEMMA QueuedOfLog ==
    Log!Queued = Cardinality({j \in 1 .. Len(Entries) : Entries[j].dispatch = "queued"})
<1>1. \A S : Log!Cardinality(S) = Cardinality(S)
  BY Zenon DEF Log!Cardinality, Cardinality
<1> QED
  BY <1>1 DEF Log!Queued

(* The dispatch enters the message: it is the next of the log, under a key *)
(* not used before, with the outcome the quota allows.                     *)
LEMMA DispatchEnters ==
    ASSUME CTypeOK, Shapes, Counted, InStep, SpeakersStay, QuotaIsSpent, NEW t \in Threads, Dispatch(t), ~raced
    PROVE  LogStep
<1> DEFINE n == Len(messages)
           c == call[t]
           m == c.message
<1>1. /\ n \in Numbers /\ outcomes[n] = NONE /\ Written(0, 0, 1) /\ m.number = n /\ Held(t) = m
      /\ Composed(t, n) /\ c.event = [number |-> n, of |-> n]
      /\ c.sender \in Principals /\ c.key \in Keys /\ c.body \in Bodies \cup {Answer}
  BY DispatchOfLast
<1>2. n \in Nat /\ n >= 1 /\ n <= MaxMessages /\ MaxMessages \in Nat
  BY <1>1, ConversationAssumption DEF Numbers
<1>3. /\ c.at = "dispatch" /\ c.at \in Writing /\ Done(t)
      /\ UNCHANGED <<members, messages, idempotency, raced>>
  BY DEF Dispatch, Writing
<1>4. call'[t].at = "idle" /\ \A u \in Threads : u # t => call'[u] = call[u]
  BY <1>3, DoneKeepsTypes
<1>5. InHand = 1 /\ InHand' = 0
  BY <1>3, <1>4, HandOfWriter DEF Handling
<1>6. CTypeOK'
  BY DispatchKeepsTypes
<1>7. PICK d : /\ d = Decision(m, quota) /\ outcomes' = [outcomes EXCEPT ![n] = d]
               /\ Acknowledge(c, d, c.event)
  BY <1>1, DispatchMeans
<1>8. outcomes'[n] = d /\ \A j \in Numbers : j # n => outcomes'[j] = outcomes[j]
  BY <1>1, <1>7 DEF CTypeOK
<1>9. m = [sender |-> c.sender, key |-> c.key, body |-> c.body, number |-> n]
  BY <1>1 DEF Composed
<1>10. messages[n] = m
  <2>1. m # NONE
    BY <1>3, ConversationAssumption DEF Shapes, Shape
  <2>2. idempotency[c.sender][c.key] = messages[idempotency[c.sender][c.key].number]
    BY <1>1, <2>1 DEF Written, Held
  <2> QED
    BY <1>1, <2>2 DEF Held
<1> DEFINE entry == [sender |-> c.sender, key |-> c.key, body |-> c.body, dispatch |-> d]
<1>11. /\ Entries \in Seq(LogEntries) /\ Len(Entries) = n - 1
       /\ \A j \in 1 .. n - 1 :
             j \in Numbers /\ messages[j] \in Messages /\ Entries[j] = Entry(messages, outcomes, j)
  <2>1. n - 1 \in 0 .. MaxMessages /\ n - 1 <= n
    BY <1>2
  <2>2. Entries = [j \in 1 .. n - 1 |-> Entry(messages, outcomes, j)]
    BY <1>5 DEF Entries, Entry
  <2>3. messages \in Seq(Messages) /\ outcomes \in [Numbers -> Outcomes \cup {NONE}]
    BY DEF CTypeOK
  <2> QED
    BY <2>1, <2>2, <2>3, EntriesAreASequence
<1>12. /\ Entries' \in Seq(LogEntries) /\ Len(Entries') = n
       /\ \A j \in 1 .. n : Entries'[j] = Entry(messages, outcomes', j)
  <2>1. n \in 0 .. MaxMessages /\ n <= n /\ n - 0 = n
    BY <1>2
  <2>2. Entries' = [j \in 1 .. n |-> Entry(messages, outcomes', j)]
    BY <1>3, <1>5, <2>1 DEF Entries, Entry
  <2>3. messages \in Seq(Messages) /\ outcomes' \in [Numbers -> Outcomes \cup {NONE}]
    BY <1>6 DEF CTypeOK
  <2> QED
    BY <2>1, <2>2, <2>3, EntriesAreASequence
<1>13. Entries' = Append(Entries, entry)
  <2>1. \A j \in 1 .. n - 1 : Entries'[j] = Entries[j]
    <3>1. ASSUME NEW j \in 1 .. n - 1 PROVE Entries'[j] = Entries[j]
      <4>1. j \in 1 .. n /\ j # n /\ j \in Numbers
        BY <1>2, <1>11
      <4>2. outcomes'[j] = outcomes[j]
        BY <1>8, <4>1
      <4> QED
        BY <1>11, <1>12, <4>1, <4>2 DEF Entry
    <3> QED
      BY <3>1
  <2>2. Entries'[n] = entry
    <3>1. n \in 1 .. n
      BY <1>2
    <3> QED
      BY <1>8, <1>9, <1>10, <1>12, <3>1 DEF Entry
  <2>3. Len(Entries') = Len(Entries) + 1
    BY <1>2, <1>11, <1>12
  <2>4. Entries' = Append(Entries, Entries'[Len(Entries')])
    BY <1>11, <1>12, <2>1, <2>3, LogGrows
  <2> HIDE DEF n, entry
  <2> QED
    BY <1>12, <2>2, <2>4
<1>14. Log!Unused(c.sender, c.key)
  <2>1. ASSUME NEW j \in 1 .. n - 1, Entries[j].sender = c.sender, Entries[j].key = c.key
        PROVE  FALSE
    <3>1. messages[j].sender = c.sender /\ messages[j].key = c.key
      <4>1. Entries[j] = Entry(messages, outcomes, j)
        BY <1>11
      <4> QED
        BY <2>1, <4>1 DEF Entry
    <3>2. j \in 1 .. n - 0 /\ j \in 1 .. n /\ j # n
      BY <1>2
    <3>3. messages[j] = idempotency[c.sender][c.key] /\ messages[j].number = j
      BY <1>1, <3>1, <3>2 DEF Written
    <3> QED
      BY <1>1, <3>2, <3>3 DEF Held
  <2> QED
    BY <1>11, <2>1 DEF Log!Unused
<1>15. Log!OutcomeFor(c.sender) = d
  <2>1. {j \in 1 .. n - 1 : Entries[j].dispatch = "queued"} = {j \in Numbers : outcomes[j] = "queued"}
    <3>1. \A j \in Numbers : outcomes[j] # NONE => j \in 1 .. n - 1
      <4>1. \A j \in Numbers : outcomes[j] # NONE => j <= n - 1
        BY <1>1 DEF Written
      <4> QED
        BY <1>2, <4>1 DEF Numbers
    <3>2. "queued" # NONE
      BY ConversationAssumption DEF Outcomes
    <3>3. \A j \in 1 .. n - 1 : j \in Numbers /\ Entries[j].dispatch = outcomes[j]
      <4>1. \A j \in 1 .. n - 1 : j \in Numbers /\ Entries[j] = Entry(messages, outcomes, j)
        BY <1>11
      <4>2. \A j : Entry(messages, outcomes, j).dispatch = outcomes[j]
        BY DEF Entry
      <4> QED
        BY <4>1, <4>2
    <3> QED
      BY <3>1, <3>2, <3>3
  <2>2. Log!Queued = Cardinality({j \in Numbers : outcomes[j] = "queued"})
    <3>1. Log!Queued = Cardinality({j \in 1 .. Len(Entries) : Entries[j].dispatch = "queued"})
      BY QueuedOfLog
    <3>2. {j \in 1 .. Len(Entries) : Entries[j].dispatch = "queued"}
             = {j \in 1 .. n - 1 : Entries[j].dispatch = "queued"}
      BY <1>11
    <3> QED
      BY <2>1, <3>1, <3>2
  <2>3. Cardinality({j \in Numbers : outcomes[j] = "queued"}) \in Nat
    <3>1. IsFiniteSet(Numbers)
      BY ConversationAssumption, FS_Interval DEF Numbers
    <3> QED
      BY <3>1, FS_Subset, FS_CardinalityType
  <2>4. Log!Queued < Quota <=> quota > 0
    BY <2>2, <2>3, ConversationAssumption DEF QuotaIsSpent, CTypeOK
  <2>5. d = IF c.sender \in Bots THEN "completed" ELSE IF quota > 0 THEN "queued" ELSE "rejected_quota"
    <3>1. m.sender = c.sender /\ (c.sender \in Humans \/ c.sender \in Bots)
      BY <1>1, <1>9 DEF Principals
    <3> QED
      BY <1>7, <3>1, ConversationAssumption DEF Decision
  <2> QED
    BY <2>4, <2>5 DEF Log!OutcomeFor
<1>16. answers' = answers \cup {Log!AnswerOf(n, entry)}
  BY <1>1, <1>7 DEF Acknowledge, Log!AnswerOf
<1>17. c.sender \in Present /\ UNCHANGED Present
  BY <1>1, <1>3 DEF Present, Active, SpeakersStay, Passed
<1>18. Len(Entries) + 1 = n
  BY <1>2, <1>11
<1>19. Log!Enter(c.sender, c.key, c.body)
  <2> HIDE DEF n, c
  <2> QED
    BY <1>3, <1>13, <1>14, <1>15, <1>16, <1>17, <1>18 DEF Log!Enter
<1> QED
  BY <1>1, <1>19 DEF LogStep, Log!LNext, Principals

(* A recall repeats what was told of the message under its key. *)
LEMMA RecallRepeats ==
    ASSUME CTypeOK, Shapes, Counted, InStep, SpeakersStay, KeptAsSent, NEW t \in Threads, Recall(t), ~raced
    PROVE  LogStep
<1> DEFINE c == call[t]
           m == Held(t)
           n == Len(messages)
           r == m.number
<1>1. /\ c.at = "recall" /\ c.at \in Writing /\ Done(t)
      /\ UNCHANGED <<members, messages, outcomes, raced>>
  BY DEF Recall, Writing, log
<1>2. Whole /\ m # NONE /\ c.existing = m /\ c.message = m /\ c.body = m.body
  BY <1>1, WriterIsAlone DEF Reached
<1>3. c.sender \in Principals /\ c.key \in Keys
  BY <1>1 DEF Shapes, Shape
<1>4. call'[t].at = "idle" /\ \A u \in Threads : u # t => call'[u] = call[u]
  BY <1>1, DoneKeepsTypes
<1>5. InHand = 0 /\ InHand' = 0
  BY <1>1, <1>4, HandOfWriter DEF Handling
<1>6. UNCHANGED <<Entries, Present>>
  BY <1>1, <1>5, EntriesStay DEF Present, Active
<1>7. CASE UNCHANGED answers
  BY <1>1, <1>6, <1>7, LogStutters
<1>8. ASSUME NEW i \in 1 .. Len(events), events[i].of = r, outcomes[r] # NONE,
             Acknowledge(c, outcomes[r], events[i])
      PROVE  LogStep
  <2>1. n \in 0 .. MaxMessages /\ n = Len(messages) - InHand /\ n - 0 = n
    BY <1>5, RoomIsLeft
  <2>2. r \in 1 .. n /\ messages[r] = m
    BY <1>2, <1>3, <2>1 DEF Whole, Written, Held
  <2>3. m.sender = c.sender /\ m.key = c.key
    BY <1>2, <1>3 DEF KeptAsSent, Held
  <2>4. events[i] = [number |-> r, of |-> r]
    <3>1. events = [j \in 1 .. n |-> [number |-> j, of |-> j]]
      BY <1>2, <2>1 DEF Whole, Written
    <3>2. i \in 1 .. n
      BY <2>1, <3>1
    <3> QED
      BY <1>8, <3>1, <3>2
  <2>9. Entries = [j \in 1 .. n |-> Entry(messages, outcomes, j)] /\ n <= n
    BY <2>1 DEF Entries, Entry
  <2>5. Len(Entries) = n /\ Entries[r] = [sender |-> c.sender, key |-> c.key, body |-> m.body, dispatch |-> outcomes[r]]
    BY <2>1, <2>2, <2>3, <2>9, EntriesAreASequence DEF Entry, CTypeOK
  <2>6. answers' = answers \cup {Log!AnswerOf(r, Entries[r])}
    BY <1>2, <1>8, <2>4, <2>5 DEF Acknowledge, Log!AnswerOf
  <2>7. Entries[r].sender \in Present
    BY <1>1, <1>3, <2>5 DEF Present, SpeakersStay, Passed
  <2>8. Log!Repeat(r)
    BY <1>1, <1>6, <2>6, <2>7 DEF Log!Repeat
  <2> HIDE DEF r, n
  <2> QED
    BY <2>2, <2>5, <2>8 DEF LogStep, Log!LNext
<1> QED
  BY <1>2, <1>7, <1>8 DEF Recall

(* Every step is one of the message log, or none. *)
LEMMA StepsAreLogged ==
    ASSUME CInv, CInv', LogInv, Next
    PROVE  LogStep
<1>1. CASE raced'
  BY <1>1 DEF LogStep, Log!LNext, Log!Overlap, CInv, CTypeOK
<1>2. CASE ~raced'
  <2>1. /\ ~raced /\ CTypeOK /\ Shapes /\ Counted /\ NoneAhead /\ InStep
        /\ SpeakersStay /\ QuotaIsSpent /\ KeptAsSent
    BY <1>2, RacedIsKnown DEF CInv, LogInv
  <2>2. CASE \E t \in Threads : Membership(t)
    BY <1>2, <2>1, <2>2, MembershipIsPresence
  <2>3. CASE \E t \in Threads, k \in Keys :
              \/ \E p \in Humans, b \in Bodies : Send(t, p, k, b)
              \/ \E actor \in Humans, p \in Bots : BotTurn(t, actor, p, k)
    BY <2>1, <2>3, RequestsAreUnseen
  <2>4. ASSUME NEW t \in Threads, Write(t) PROVE LogStep
    BY <1>2, <2>1, <2>4, UnderWayIsUnseen, AppendIsUnseen, DispatchEnters, RecallRepeats DEF Write
  <2>5. CASE \E p \in Humans : Poll(p)
    BY <2>5, ReadsAreUnseen
  <2> QED
    BY <2>2, <2>3, <2>4, <2>5 DEF Next
<1> QED
  BY <1>1, <1>2

(* Until two writes overlap, a write of many steps is one step to whoever  *)
(* asks: message, number, event, outcome and answer are given together,    *)
(* once for each key and to members only, and whoever repeats a request is *)
(* told the same.  conversation/outbox.py:44.                              *)
THEOREM ConversationImplementsMessageLog == CSpec => ImplementsMessageLog
<1>1. Init => Log!LInit
  <2> SUFFICES ASSUME Init PROVE Log!LInit
    OBVIOUS
  <2>1. /\ Len(messages) = 0 /\ answers = {} /\ raced = FALSE
        /\ \A t \in Threads : call[t].at = "idle"
        /\ \A p \in Principals : members[p] = <<[joined |-> 1, left |-> 0]>>
    BY DEF Init, Idle
  <2>2. InHand = 0
    BY <2>1 DEF InHand
  <2>3. Entries = <<>>
    BY <2>1, <2>2 DEF Entries
  <2>4. \A p \in Principals : Active(p)
    <3>1. ASSUME NEW p \in Principals PROVE Active(p)
      <4>1. members[p] = <<[joined |-> 1, left |-> 0]>>
        BY <2>1
      <4>2. Len(members[p]) = 1 /\ members[p][1] = [joined |-> 1, left |-> 0]
        BY <4>1
      <4>3. 1 \in 1 .. Len(members[p]) /\ members[p][1].left = 0
        BY <4>2
      <4> QED
        BY <4>3 DEF Active
    <3> QED
      BY <3>1
  <2> QED
    BY <2>1, <2>3, <2>4 DEF Log!LInit, Present, Principals
<1>2. CInv /\ CInv' /\ LogInv /\ [Next]_cvars => [Log!LNext]_Log!lvars
  <2>1. UNCHANGED cvars => LogStep
    <3> SUFFICES ASSUME UNCHANGED cvars PROVE LogStep
      OBVIOUS
    <3>1. UNCHANGED <<members, messages, outcomes, call, answers, raced>>
      BY DEF cvars
    <3> QED
      BY <3>1, EntriesStay, LogStutters DEF Present, Active, InHand
  <2> QED
    BY <2>1, StepsAreLogged DEF LogStep
<1> QED
  BY <1>1, <1>2, ConversationInvariant, LogInvariant, PTL DEF CSpec, ImplementsMessageLog, Log!LSpec
==============================================================================
