------------------------------ MODULE SdkSlot ------------------------------
(***************************************************************************)
(* A chat slot whose Pi session lives in the dashboard's own process       *)
(* (PiSdkSession, pi-sdk-session.ts): the asynchronous start, prompts that *)
(* wait for it, fatal faults, kill, and the gate that holds a tool call    *)
(* until the user has decided.                                             *)
(*                                                                         *)
(* A start that is under way is not stopped by a kill, and a prompt that   *)
(* fails late meets whatever session the slot has by then.                 *)
(***************************************************************************)
EXTENDS Naturals

CONSTANTS
    Calls,          \* calls of prompt() and triggerAutoTurn()
    Tools,          \* tool calls
    MaxSessions     \* bound: sessions

ASSUME SdkBounds == MaxSessions \in Nat

VARIABLES
    phase,          \* the sessions: "unborn", "creating", "binding", "ready",
                    \* "failed" (its _init threw), "disposed"
    settled,        \* the sessions whose _initPromise is settled
    sdk,            \* the fields of the session object
    turn,           \* the calls: where they are, and the session they wait for
    tool            \* the tool calls: [state, held, ok]

sdkVars == <<phase, settled, sdk, turn, tool>>

Started == 1..MaxSessions

InitSdk(listed) ==
    /\ phase   = [n \in Started |-> "unborn"]
    /\ settled = {}
    /\ sdk     = [session |-> 0, init |-> 0, born |-> 0,
                  disposed |-> FALSE, listed |-> listed,
                  running |-> FALSE, stopping |-> FALSE, gating |-> FALSE]
    /\ turn    = [c \in Calls |-> [at |-> "idle", of |-> 0]]
    /\ tool    = [t \in Tools |-> [state |-> "none", held |-> FALSE, ok |-> FALSE]]

-----------------------------------------------------------------------------
Live == sdk.session # 0 /\ ~sdk.disposed
Is(c, places) == turn[c].at \in places
Goes(c, place, n) == turn' = [turn EXCEPT ![c] = [at |-> place, of |-> n]]

\* A call goes on as soon as the start it waits for has ended.
Due == \E c \in Calls : Is(c, {"init"}) /\ turn[c].of \in settled

Quiet(s) == [s EXCEPT !.running = FALSE, !.stopping = FALSE]

\* start(): nothing if there is a session or a start.
StartSession(s) ==
    IF s.session # 0 \/ s.init # 0 THEN sdk' = s /\ UNCHANGED phase
    ELSE LET n == s.born + 1 IN
         /\ n \in Started
         /\ sdk' = [s EXCEPT !.disposed = FALSE, !.init = n, !.born = n]
         /\ phase' = [phase EXCEPT ![n] = "creating"]

BugDenied == [t \in Tools |-> [tool[t] EXCEPT !.held = FALSE]]  \* Bug: only forgotten.
\* Tool calls that wait for the user are denied.
Denied == [t \in Tools |-> IF tool[t].held
                           THEN [tool[t] EXCEPT !.state = "blocked", !.held = FALSE]
                           ELSE tool[t]]

\* kill(): the session is disposed; a start that is under way goes on.
Gone(s) == [s EXCEPT !.disposed = TRUE, !.init = 0, !.session = 0]
Disposed == [n \in Started |-> IF n = sdk.session THEN "disposed"
                               ELSE phase[n]]
KillSession(s) ==
    /\ sdk' = Gone(s)
    /\ phase' = Disposed
    /\ tool' = Denied

\* _handleFatal: nothing if the slot is disposed already.
Fatal == IF sdk.disposed THEN UNCHANGED <<sdk, phase, tool>> ELSE KillSession(Quiet(sdk))

-----------------------------------------------------------------------------
(* _init *)

Created(n) ==
    /\ ~Due /\ phase[n] = "creating"
    /\ phase' = [phase EXCEPT ![n] = "binding"]
    /\ sdk' = [sdk EXCEPT !.session = n]
    /\ UNCHANGED <<settled, turn, tool>>

\* The extensions are bound; without a runtime (there was a kill) the rest throws.
Bound(n) ==
    /\ ~Due /\ n \notin settled /\ phase[n] \in {"binding", "disposed"}
    /\ phase' = [phase EXCEPT ![n] = IF @ = "disposed" THEN @
                                     ELSE IF sdk.session = 0 THEN "failed" ELSE "ready"]
    /\ settled' = settled \cup {n}
    /\ UNCHANGED <<sdk, turn, tool>>

\* _init throws: startup_error.
InitFails(n) ==
    /\ ~Due /\ n \notin settled /\ phase[n] \in {"creating", "binding", "disposed"}
    /\ phase' = [phase EXCEPT ![n] = IF @ = "disposed" THEN @ ELSE "failed"]
    /\ settled' = settled \cup {n}
    /\ UNCHANGED <<sdk, turn, tool>>

-----------------------------------------------------------------------------
(* Prompts *)

\* session.prompt.
Dispatched(c) == Goes(c, "turn", 0)

\* POST /api/chat: ensureRunning and prompt(), or triggerAutoTurn() of a slot that
\* is not disposed; _ensureInit waits for the start, if there is no session yet.
Call(c, auto) ==
    /\ sdk.listed /\ ~Due /\ Is(c, {"idle"})
    /\ auto => Live
    /\ StartSession([IF Live THEN sdk ELSE Quiet(sdk)
                     EXCEPT !.running = @ \/ sdk.session # 0])
    /\ IF sdk.session # 0
       THEN Dispatched(c)
       ELSE Goes(c, "init", sdk'.init)
    /\ UNCHANGED <<settled, tool>>

\* Bug: without a session the call waits on.
BugGoOn(c) == Is(c, {"init"}) /\ turn[c].of \in settled /\ sdk.session # 0
\* The start is over; what failed is fatal, and never a silent drop.
GoOn(c) == Is(c, {"init"}) /\ turn[c].of \in settled

Continue(c) ==
    /\ GoOn(c)
    /\ IF sdk.session # 0
       THEN /\ Dispatched(c)
            /\ sdk' = [sdk EXCEPT !.running = TRUE]
            /\ UNCHANGED <<phase, tool>>
       ELSE Goes(c, "done", 0) /\ Fatal
    /\ UNCHANGED settled

\* session.prompt returns, or throws; the fault may be one of a session that the
\* slot has not any more.
Returns(c) ==
    /\ ~Due /\ Is(c, {"turn"}) /\ Goes(c, "done", 0)
    /\ \/ UNCHANGED <<sdk, phase, tool>>
       \/ Fatal
    /\ UNCHANGED settled

\* agent_start, agent_end: of the session that is subscribed.
AgentEvent(starts) ==
    /\ ~Due /\ sdk.session # 0
    /\ sdk' = [sdk EXCEPT !.running = starts, !.stopping = FALSE]
    /\ UNCHANGED <<phase, settled, turn, tool>>

-----------------------------------------------------------------------------
(* The tool gate *)

\* _toolCallGate: the switch is read at the call.
ToolCall(t) ==
    /\ ~Due /\ tool[t].state = "none"
    /\ \E n \in Started : phase[n] \in {"binding", "ready", "disposed"}
    /\ tool' = [tool EXCEPT ![t] = IF sdk.gating
                                   THEN [state |-> "asked", held |-> TRUE, ok |-> FALSE]
                                   ELSE [state |-> "ran", held |-> FALSE, ok |-> TRUE]]
    /\ UNCHANGED <<phase, settled, sdk, turn>>

\* respondToolApproval: an answer to a call that is not held any more is refused.
Decision(t, approved) ==
    [tool EXCEPT ![t] = [state |-> IF approved THEN "ran" ELSE "blocked",
                         held |-> FALSE, ok |-> approved]]
Answer(t, approved) ==
    /\ sdk.listed /\ ~Due /\ tool[t].held
    /\ tool' = Decision(t, approved)
    /\ UNCHANGED <<phase, settled, sdk, turn>>

BugTimedOut(t) == [tool EXCEPT ![t].state = "ran", ![t].held = FALSE]  \* Bug: it runs.
TimedOut(t) == Decision(t, FALSE)
ApprovalTimer(t) ==
    /\ ~Due /\ tool[t].held
    /\ tool' = TimedOut(t)
    /\ UNCHANGED <<phase, settled, sdk, turn>>

Toggle ==
    /\ sdk.listed /\ ~Due
    /\ sdk' = [sdk EXCEPT !.gating = ~@]
    /\ UNCHANGED <<phase, settled, turn, tool>>

-----------------------------------------------------------------------------
(* Stopping *)

AbortTurn ==
    /\ sdk.listed /\ ~Due
    /\ sdk' = IF Live THEN [sdk EXCEPT !.stopping = TRUE] ELSE Quiet(sdk)
    /\ UNCHANGED <<phase, settled, turn, tool>>

Reap ==
    /\ sdk.listed /\ ~Due /\ ~Live /\ (sdk.running \/ sdk.stopping)
    /\ sdk' = Quiet(sdk)
    /\ UNCHANGED <<phase, settled, turn, tool>>

\* deleteSlot: gracefulShutdown is a kill.
DeleteSession ==
    /\ sdk.listed /\ ~Due
    /\ KillSession([sdk EXCEPT !.listed = FALSE, !.stopping = TRUE])
    /\ UNCHANGED <<settled, turn>>

\* A fork ends its source, which is kept in the list.
Fork ==
    /\ sdk.listed /\ ~Due /\ Live
    /\ KillSession(sdk)
    /\ UNCHANGED <<settled, turn>>

\* POST .../cwd, as long as the slot has no message: kill() and start().
SetSessionCwd ==
    /\ sdk.listed /\ ~Due /\ Live /\ sdk.born < MaxSessions
    /\ \A c \in Calls : Is(c, {"idle", "init"})
    /\ sdk' = [Gone(sdk) EXCEPT !.disposed = FALSE, !.init = sdk.born + 1, !.born = @ + 1]
    /\ phase' = [Disposed EXCEPT ![sdk.born + 1] = "creating"]
    /\ tool' = Denied
    /\ UNCHANGED <<settled, turn>>

SdkNext ==
    \/ \E n \in Started : Created(n) \/ Bound(n) \/ InitFails(n)
    \/ \E c \in Calls : Call(c, FALSE) \/ Call(c, TRUE) \/ Continue(c) \/ Returns(c)
    \/ \E t \in Tools : ToolCall(t) \/ Answer(t, TRUE) \/ Answer(t, FALSE) \/ ApprovalTimer(t)
    \/ AgentEvent(TRUE) \/ AgentEvent(FALSE)
    \/ Toggle \/ AbortTurn \/ Reap \/ DeleteSession \/ Fork \/ SetSessionCwd

\* A start ends, well or not, and what can go on does.
SdkFairness ==
    /\ \A n \in Started : WF_sdkVars(Created(n) \/ Bound(n) \/ InitFails(n))
    /\ \A c \in Calls : WF_sdkVars(Continue(c))

-----------------------------------------------------------------------------
SdkTypeOK ==
    /\ phase \in [Started -> {"unborn", "creating", "binding", "ready", "failed", "disposed"}]
    /\ settled \subseteq Started
    /\ sdk \in [session : 0..MaxSessions, init : 0..MaxSessions,
                born : 0..MaxSessions, disposed : BOOLEAN, listed : BOOLEAN,
                running : BOOLEAN, stopping : BOOLEAN, gating : BOOLEAN]
    /\ turn \in [Calls -> [at : {"idle", "init", "turn", "done"}, of : 0..MaxSessions]]
    /\ tool \in [Tools -> [state : {"none", "asked", "ran", "blocked"},
                           held : BOOLEAN, ok : BOOLEAN]]

\* The gate fails closed: a tool call that was held runs only if the user has
\* approved it.  The timer, a kill and the end of the session deny it.
GateFailsClosed == \A t \in Tools : tool[t].state = "ran" => tool[t].ok

\* None is stranded: a tool call that was asked about, also one whose session is
\* disposed or replaced, is held where the timer and the user find it, or was decided.
NoneStranded == \A t \in Tools : tool[t].state = "asked" => tool[t].held

\* A prompt that waits for the start is dispatched, or answered with a fatal error.
SdkPromptReturns == \A c \in Calls : Is(c, {"init"}) ~> Is(c, {"turn", "done"})
=============================================================================
