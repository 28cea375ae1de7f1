------------------------------ MODULE BotTurns ------------------------------
(***************************************************************************)
(* Bot turns over one tool registry: BotRuntime.execute builds the         *)
(* context, asks the model, and runs the tool calls it answers one after   *)
(* the other; the registry remembers the results of tools that have        *)
(* effects under the turn's key and the call's place in it, and answers a  *)
(* repeated turn from them.  The threads of the server share the registry, *)
(* without a lock.                                                         *)
(*                                                                         *)
(* A turn is known by actor and idempotency key, its bot has one template. *)
(***************************************************************************)
EXTENDS Naturals, Sequences, FiniteSetsExt

CONSTANTS TurnThreads,          \* threads of the server
          Turns,                \* actors with idempotency keys
          Tools, Writes,        \* tools of the catalog, and those with effects
          Granted, Handled,     \* tools granted to the template; tools the caller has handlers for
          Payloads,
          Answers,              \* sequences of calls the model may answer
          MaxToolCalls,
          Memories, Histories, Budget,  \* memory records, tokens of histories, tokens allowed
          MaxTurns              \* bound of the model

VARIABLES remembered,   \* remembered[o]: the payloads whose result is kept for operation o, at most one
          performed,    \* performed[o]: how often the effect of o took place
          effects,      \* effects[o]: the payloads it took place with
          excuse,       \* excuse[o]: how often a handler of o broke after its effect, or two overlapped
          turn,         \* turn[t]: the turn thread t runs
          started       \* how many turns were started

turnvars == <<remembered, performed, effects, excuse, turn, started>>

Operations == Writes \X Turns \X (1 .. MaxToolCalls)
\* valid: what _validate finds of the payload against the tool's schema
Calls == [tool : Tools \cup {"unknown"}, payload : Payloads, valid : BOOLEAN]

ASSUME BotTurnsAssumption == /\ IsFiniteSet(TurnThreads)
                             /\ Writes \subseteq Tools /\ Granted \subseteq Tools
                             /\ Answers \subseteq Seq(Calls)
                             /\ MaxToolCalls \in Nat /\ MaxTurns \in Nat

Results == [status : {"ok", "denied", "failed"}, data : SUBSET Payloads]
TurnRecord == [at : {"idle", "calls", "handler", "store", "ok", "denied", "failed", "needs_input"},
               key : Turns \cup {{}}, calls : Seq(Calls), results : Seq(Results)]
CallsNothing(at) == [at |-> at, key |-> {}, calls |-> <<>>, results |-> <<>>]
Rest == CallsNothing("idle")

TurnInit == /\ remembered = [o \in Operations |-> {}]
            /\ performed = [o \in Operations |-> 0]
            /\ effects = [o \in Operations |-> {}]
            /\ excuse = [o \in Operations |-> 0]
            /\ turn = [t \in TurnThreads |-> Rest]
            /\ started = 0

-----------------------------------------------------------------------------
(***************************************************************************)
(* build_context.  Memory is a record of the bot it belongs to, the        *)
(* conversation it is of ("here" is this one), its audience and tokens.    *)
(***************************************************************************)
Visible(memories) == {m \in memories : /\ m.owner = "me"
                                       /\ m.conversation = "here" \/ m.audience = "workspace"
                                       /\ m.audience # "private" \/ m.conversation = "here"}

TokensOf(memories) == MapThenSumSet(LAMBDA m : m.tokens, memories)

\* System prompt, tools and results are parts alike; the sum of parts within their limits is within the total.
Overflows(history, memories) ==
    history > Budget.history \/ TokensOf(Visible(memories)) > Budget.memory

-----------------------------------------------------------------------------
Call(t) == turn[t].calls[Len(turn[t].results) + 1]
Operation(t) == <<Call(t).tool, turn[t].key, Len(turn[t].results) + 1>>

(* The context overflows, the model fails or says too much or calls too    *)
(* many tools, and the turn ends without a call; or its calls begin.       *)
StartTurn(t, key, memories, history, calls) ==
    /\ turn[t] = Rest /\ started < MaxTurns
    /\ started' = started + 1
    /\ \E at \in IF Overflows(history, memories) THEN {"needs_input"}
                 ELSE IF Len(calls) > MaxToolCalls THEN {"failed"}
                 ELSE {"failed", "calls"} :
          turn' = [turn EXCEPT ![t] = IF at = "calls"
                                      THEN [at |-> at, key |-> key, calls |-> calls, results |-> <<>>]
                                      ELSE CallsNothing(at)]
    /\ UNCHANGED <<remembered, performed, effects, excuse>>

Result(t, status, data) ==
    turn' = [turn EXCEPT ![t].at = "calls",
                         ![t].results = Append(@, [status |-> status, data |-> data])]

Calling(t) == turn[t].at = "calls" /\ Len(turn[t].results) < Len(turn[t].calls)

(* A call without a handler or a grant is denied, and one whose payload is *)
(* not of the tool's schema fails; the calls after it go on.               *)
RefuseCall(t) ==
    /\ Calling(t)
    /\ \/ /\ Call(t).tool \notin Handled \/ Call(t).tool \notin Granted
          /\ Result(t, "denied", {})
       \/ /\ Call(t).tool \in Handled \cap Granted /\ ~Call(t).valid
          /\ Result(t, "failed", {})
    /\ UNCHANGED <<remembered, performed, effects, excuse, started>>

Accepted(t) == Calling(t) /\ Call(t).tool \in Handled \cap Granted /\ Call(t).valid

(* A tool that only reads is run each time. *)
ReadCall(t) ==
    /\ Accepted(t) /\ Call(t).tool \notin Writes
    /\ Result(t, "ok", {Call(t).payload}) \/ Result(t, "failed", {})
    /\ UNCHANGED <<remembered, performed, effects, excuse, started>>

(* A call that is remembered is answered from memory, whatever it asks     *)
(* now; for one that is not the handler is called.                         *)
InHandler(o) == {u \in TurnThreads : turn[u].at \in {"handler", "store"} /\ Operation(u) = o}

InvokeWrite_StoresFirst(t) ==
    LET o == Operation(t)
    IN  /\ Accepted(t) /\ Call(t).tool \in Writes
        /\ IF remembered[o] # {}
           THEN Result(t, "ok", remembered[o]) /\ UNCHANGED <<remembered, excuse>>
           ELSE /\ turn' = [turn EXCEPT ![t].at = "handler"]
                /\ remembered' = [remembered EXCEPT ![o] = {Call(t).payload}]
                /\ excuse' = [excuse EXCEPT ![o] = @ + (IF InHandler(o) # {} THEN 1 ELSE 0)]
        /\ UNCHANGED <<performed, effects, started>>

InvokeWrite_Always(t) ==
    /\ Accepted(t) /\ Call(t).tool \in Writes
    /\ turn' = [turn EXCEPT ![t].at = "handler"]
    /\ excuse' = [excuse EXCEPT ![Operation(t)] = @ + (IF InHandler(Operation(t)) # {} THEN 1 ELSE 0)]
    /\ UNCHANGED <<remembered, performed, effects, started>>

InvokeWrite(t) ==
    LET o == Operation(t)
    IN  /\ Accepted(t) /\ Call(t).tool \in Writes
        /\ IF remembered[o] # {}
           THEN Result(t, "ok", remembered[o]) /\ UNCHANGED excuse
           ELSE /\ turn' = [turn EXCEPT ![t].at = "handler"]
                /\ excuse' = [excuse EXCEPT ![o] = @ + (IF InHandler(o) # {} THEN 1 ELSE 0)]
        /\ UNCHANGED <<remembered, performed, effects, started>>

HasEffect(t) ==
    /\ performed' = [performed EXCEPT ![Operation(t)] = @ + 1]
    /\ effects' = [effects EXCEPT ![Operation(t)] = @ \cup {Call(t).payload}]

(* The handler has its effect and returns; or it raises, before its effect *)
(* or after it.                                                            *)
RunHandler(t) ==
    LET o == Operation(t)
    IN  /\ turn[t].at = "handler"
        /\ \/ /\ HasEffect(t)
              /\ turn' = [turn EXCEPT ![t].at = "store"]
              /\ UNCHANGED excuse
           \/ /\ HasEffect(t)
              /\ excuse' = [excuse EXCEPT ![o] = @ + 1]
              /\ Result(t, "failed", {})
           \/ /\ Result(t, "failed", {})
              /\ UNCHANGED <<performed, effects, excuse>>
        /\ UNCHANGED <<remembered, started>>

StoreResult(t) ==
    /\ turn[t].at = "store"
    /\ remembered' = [remembered EXCEPT ![Operation(t)] = {Call(t).payload}]
    /\ Result(t, "ok", {Call(t).payload})
    /\ UNCHANGED <<performed, effects, excuse, started>>

StatusesOf(results) == {results[i].status : i \in 1 .. Len(results)}

\* A denied call counts more than a failed one.
Status(results) == IF "denied" \in StatusesOf(results) THEN "denied"
                   ELSE IF "failed" \in StatusesOf(results) THEN "failed" ELSE "ok"

EndTurn(t) ==
    /\ turn[t].at = "calls" /\ ~Calling(t)
    /\ turn' = [turn EXCEPT ![t].at = Status(turn[t].results)]
    /\ UNCHANGED <<remembered, performed, effects, excuse, started>>

(* The caller has its answer. *)
AnswerTurn(t) ==
    /\ turn[t].at \in {"ok", "denied", "failed", "needs_input"}
    /\ turn' = [turn EXCEPT ![t] = Rest]
    /\ UNCHANGED <<remembered, performed, effects, excuse, started>>

RunTurn(t) == \/ RefuseCall(t) \/ ReadCall(t) \/ InvokeWrite(t) \/ RunHandler(t) \/ StoreResult(t)
              \/ EndTurn(t) \/ AnswerTurn(t)

TurnNext == \E t \in TurnThreads :
               \/ RunTurn(t)
               \/ \E key \in Turns, memories \in SUBSET Memories, history \in Histories, calls \in Answers :
                     StartTurn(t, key, memories, history, calls)

TurnSpec == TurnInit /\ [][TurnNext]_turnvars

-----------------------------------------------------------------------------
TurnTypeOK ==
    /\ remembered \in [Operations -> SUBSET Payloads]
    /\ performed \in [Operations -> Nat]
    /\ effects \in [Operations -> SUBSET Payloads]
    /\ excuse \in [Operations -> Nat]
    /\ turn \in [TurnThreads -> TurnRecord]
    /\ started \in 0 .. MaxTurns

(* However often a turn is repeated, after lost answers or at once, each   *)
(* of its operations takes effect once, save for every time its handler    *)
(* broke after the effect or two calls overlapped.                         *)
(* tools/registry.py:66, ARCHITECTURE.md:463.                              *)
EffectsHappenOnce == \A o \in Operations : performed[o] <= 1 + excuse[o]

(* What a turn that is ok was told of a write is an effect the operation   *)
(* had, and a later turn will be told of one too.  As long as no handler   *)
(* of the operation broke after its effect and no two of its calls         *)
(* overlapped, it is the one effect the operation ever had.  It may be the *)
(* effect of an earlier turn with another payload: a repeated call is      *)
(* answered from memory whatever it asks, and its own write is not done.   *)
(* A turn that is not ok names a call that was denied or failed.           *)
(* tools/registry.py:63, runtime/loop.py:171.                              *)
TurnTellsEffects ==
    \A t \in TurnThreads :
       LET results == turn[t].results
       IN  /\ turn[t].at = "ok" =>
                /\ Len(results) = Len(turn[t].calls)
                /\ \A i \in 1 .. Len(results) : turn[t].calls[i].tool \in Writes =>
                      LET o == <<turn[t].calls[i].tool, turn[t].key, i>>
                      IN  /\ results[i].data # {} /\ results[i].data \subseteq effects[o]
                          /\ remembered[o] # {}
                          /\ excuse[o] = 0 => results[i].data = effects[o]
           /\ turn[t].at \in {"denied", "failed"} /\ turn[t].calls # <<>> =>
                \E i \in 1 .. Len(results) : results[i].status = turn[t].at
=============================================================================
