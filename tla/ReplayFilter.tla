---------------------------- MODULE ReplayFilter ----------------------------
(***************************************************************************)
(* filterPersistedEvents: what of a session's persisted events is shown    *)
(* again, and given to the agent as history, when a session is resumed.    *)
(***************************************************************************)
EXTENDS Naturals, Sequences

CONSTANTS
  Block,     \* ids of blocks of protected content
  NoBlock,   \* of an event without protected content
  Recorded   \* events that sessions record

(***************************************************************************)
(* An event has a type; for a user message the kind of slash command it    *)
(* is; whether it was marked as the output of a slash command; the kind of *)
(* tool it is about; and the block of protected content it belongs to with *)
(* the binding it carries (good ones hold for the current context, a twin  *)
(* is another binding that does) and whether it is of this very session.   *)
(***************************************************************************)
Event == [type : {"user", "start", "delta", "done", "error", "tool", "info", "status"},
          command : {"text", "plain", "restricted"},
          slash : BOOLEAN,
          tool : {"none", "query", "diff"},
          block : Block \cup {NoBlock},
          binding : {"good", "twin", "stale"},
          own : BOOLEAN]

ASSUME ReplayFilterAssumption == NoBlock \notin Block /\ Recorded \subseteq Event

VARIABLES
  log   \* persisted events

ReplayTypeOK == log \in Seq(Event)

Ends(e) == e.type \in {"done", "error"}
Protected(e) == e.block # NoBlock

\* historicalDiffReplayEvent
IsDiff(e) == e.tool = "diff"

\* legacyProtectedEvent: content of a time when events carried no binding.
Legacy(e) ==
  \/ e.type \in {"start", "delta", "done", "error"}
  \/ e.type = "tool" /\ e.tool # "none"

EventsOf(b) == {i \in DOMAIN log : log[i].block = b}
FirstOf(b) == CHOOSE i \in EventsOf(b) : \A j \in EventsOf(b) : i <= j

\* Faulty variant: the binding of the first event stands for the others'.
FirstIsValid(b) ==
  /\ EventsOf(b) # {}
  /\ log[FirstOf(b)].own /\ log[FirstOf(b)].binding # "stale"

\* The first event of a block is of this session and its binding holds, and
\* all others carry the same binding.
ValidBlock(b) ==
  /\ EventsOf(b) # {}
  /\ log[FirstOf(b)].own /\ log[FirstOf(b)].binding # "stale"
  /\ \A i \in EventsOf(b) : log[i].binding = log[FirstOf(b)].binding

\* The live authorizer is asked for valid blocks, in permissioned sessions.
AllowedBlocks(permissioned, permits) ==
  {b \in Block : permissioned /\ ValidBlock(b) /\ b \in permits}

\* slashReplayEvent
FromSlash(e, turn) ==
  \/ e.slash
  \/ turn /\ e.type \in {"delta", "done", "error"}

\* Whether the turn of a slash command is still open after an event: its end
\* closes it, and so does protected content that could be shown.
TurnAfter(e, turn, restricted) ==
  turn /\ IF restricted \/ IsDiff(e) THEN ~Ends(e)
          ELSE e.type = "info" \/ ~(Protected(e) \/ Ends(e))

\* Whether an event is shown, given the turn it is in.
Shown(e, turn, restricted, allowed) ==
  /\ ~restricted /\ ~IsDiff(e) /\ e.type # "info"
  /\ IF Protected(e) THEN e.block \in allowed
     ELSE Legacy(e) => FromSlash(e, turn)

\* The loop of filterPersistedEvents in a permissioned session, over the
\* positions of the log; in another one every unprotected event is shown.
TurnAt(state, e) == IF e.type = "user" THEN e.command # "text" ELSE state.turn
RestrictedAt(state, e) == IF e.type = "user" THEN e.command = "restricted" ELSE state.restricted

FilterStep(state, i, allowed) ==
  LET e == log[i]
      turn == TurnAt(state, e)
      restricted == RestrictedAt(state, e)
  IN [turn |-> TurnAfter(e, turn, restricted),
      restricted |-> restricted /\ ~Ends(e),
      kept |-> IF Shown(e, turn, restricted, allowed)
               THEN state.kept \cup {i} ELSE state.kept]

FilterStart == [turn |-> FALSE, restricted |-> FALSE, kept |-> {}]

\* The state of the loop after each position.
Filtered(allowed) ==
  LET state[i \in 0 .. Len(log)] ==
        IF i = 0 THEN FilterStart ELSE FilterStep(state[i-1], i, allowed)
  IN state

\* Positions of the events that filterPersistedEvents returns.
FilterPersistedEvents(permissioned, permits) ==
  IF ~permissioned THEN {i \in DOMAIN log : ~Protected(log[i])}
  ELSE Filtered(AllowedBlocks(permissioned, permits))[Len(log)].kept

-----------------------------------------------------------------------------
\* Events are recorded one after the other.
Record(e) == log' = Append(log, e)

ReplayInit == log = <<>>
ReplayNext == \E e \in Recorded : Record(e)

ReplaySpec == ReplayInit /\ [][ReplayNext]_log

-----------------------------------------------------------------------------
\* Properties

\* The user message whose turn position i is in.
TurnOf(i) ==
  LET messages == {u \in 1 .. i : log[u].type = "user"}
  IN {u \in messages : \A v \in messages : v <= u}

InRestrictedTurn(i) ==
  \E u \in TurnOf(i) :
    /\ log[u].command = "restricted"
    /\ \A j \in u .. i - 1 : ~Ends(log[j])

InPlainTurn(i) ==
  \E u \in TurnOf(i) :
    /\ log[u].command = "plain"
    /\ \A j \in u .. i - 1 :
         ~Ends(log[j]) /\ (Protected(log[j]) => (IsDiff(log[j]) \/ log[j].type = "info"))

\* An event is replayed exactly when it may be: content bound to evidence only
\* while the one binding of its block holds for this session and is permitted
\* now; unbound content only as the answer to a slash command a replay may show,
\* before anything protected was said in its turn; nothing from the turn of a
\* restricted command, no difference of versions, no session details.
ReplayExact ==
  \A permissioned \in BOOLEAN, permits \in SUBSET Block : \A i \in DOMAIN log :
    LET e == log[i]
        bound == /\ permissioned /\ e.block \in permits
                 /\ \A j \in EventsOf(e.block) :
                      /\ log[j].binding = e.binding
                      /\ (\A k \in EventsOf(e.block) : j <= k) =>
                           log[j].own /\ log[j].binding # "stale"
    IN i \in FilterPersistedEvents(permissioned, permits) <=>
         /\ Protected(e) => bound
         /\ permissioned =>
              /\ ~InRestrictedTurn(i) /\ ~IsDiff(e) /\ e.type # "info"
              /\ (~Protected(e) /\ Legacy(e)) =>
                   \/ e.slash
                   \/ e.type \in {"delta", "done", "error"} /\ InPlainTurn(i)

=============================================================================
