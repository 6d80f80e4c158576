------------------------------ MODULE RpcSlot ------------------------------
(***************************************************************************)
(* A chat slot whose Pi is a child process (PiRpcSession, pi-manager.ts):  *)
(* start, prompt, /reload, abort, kill, gracefulShutdown, checkHealth, the *)
(* child's events and its exit, and their timers, none of which knows the  *)
(* process that it was set for.                                            *)
(*                                                                         *)
(* One event of the event loop is one step, but a prompt is cut where it   *)
(* awaits: at the ready promise, and at the question whether to queue.     *)
(* Between two events all that has become runnable runs (Micro).           *)
(***************************************************************************)
EXTENDS Integers

CONSTANTS
    Prompts,        \* calls of prompt()
    MaxLives,       \* bound: processes
    MaxTimers       \* bound: pending kill timers

ASSUME RpcBounds == {MaxLives, MaxTimers} \subseteq Nat

VARIABLES
    life,           \* the processes
    slot,           \* the fields of the session object
    timer,          \* kill: pending kill timers; stop: _stoppingTimer;
                    \* shut: the process that a gracefulShutdown waits for
    call            \* the prompts: where they are, and the process they wait for

rpcVars == <<life, slot, timer, call>>

Lives == 1..MaxLives

\* up: it runs; signals: what was sent to it (killed says if any was); ended: its
\* stdin was closed; busy: in a turn; left: a line read after the exit; told:
\* the ready promise is settled.
Unborn == [up |-> FALSE, signals |-> {}, ended |-> FALSE, busy |-> FALSE,
           left |-> FALSE, told |-> FALSE]
Born == [Unborn EXCEPT !.up = TRUE]

InitRpc(listed) ==
    /\ life  = [n \in Lives |-> Unborn]
    /\ slot  = [proc |-> 0, born |-> 0, ready |-> 0, listed |-> listed,
                running |-> FALSE, stopping |-> FALSE, outstanding |-> 0]
    /\ timer = [kill |-> 0, stop |-> FALSE, shut |-> 0]
    /\ call  = [p \in Prompts |-> [at |-> "idle", of |-> 0]]

-----------------------------------------------------------------------------
Alive == slot.proc # 0 /\ life[slot.proc].up /\ life[slot.proc].signals = {}
\* send() writes to the child.
Writable == Alive /\ ~life[slot.proc].ended

At(p, places) == call[p].at \in places
Micro == \E p \in Prompts : \/ At(p, {"decide", "send"})
                            \/ At(p, {"ready"}) /\ life[call[p].of].told

Idle(s)  == [s EXCEPT !.running = FALSE, !.stopping = FALSE]
Reset(s) == [Idle(s) EXCEPT !.outstanding = 0]

Signal(l, n, s) == IF n # 0 /\ l[n].up THEN [l EXCEPT ![n].signals = @ \cup {s}] ELSE l

\* start(): a process that still runs is told to end; a new one is spawned and asked
\* for its state.
Start(l, s) ==
    LET n == s.born + 1 IN
    /\ n \in Lives
    /\ life' = [Signal(l, s.proc, "TERM") EXCEPT ![n] = Born]
    /\ slot' = [s EXCEPT !.proc = n, !.born = n, !.ready = n]

EnsureRunning == IF Alive THEN UNCHANGED <<life, slot>> ELSE Start(life, [Idle(slot) EXCEPT !.proc = 0])

\* _rejectPendingRequests: every pending request is resolved with null.
Settled(l) == [n \in Lives |-> [l[n] EXCEPT !.told = l[n].told \/ n <= slot.born]]
SettledCalls ==
    [p \in Prompts |-> IF At(p, {"ask"}) THEN [at |-> "send", of |-> 0] ELSE call[p]]
\* A prompt that asked Pi for its state takes null for "idle".
Unasked(s) == IF \E p \in Prompts : At(p, {"ask"}) THEN [s EXCEPT !.running = FALSE] ELSE s

BugKilled(l) == Settled(l)                          \* Bug: the process is left running.
\* kill(): SIGTERM, and a timer of three seconds for the SIGKILL.
Killed(l) == Settled(Signal(l, slot.proc, "TERM"))
Armed(t) == IF slot.proc = 0 THEN t ELSE [t EXCEPT !.kill = @ + 1]

Kill ==
    /\ timer.kill < MaxTimers
    /\ life' = Killed(life) /\ slot' = Unasked(slot) /\ call' = SettledCalls

-----------------------------------------------------------------------------
(* Prompts *)

\* POST /api/chat: ensureRunning and prompt(), up to its first await.
Prompt(p) ==
    /\ slot.listed /\ ~Micro /\ At(p, {"idle"})
    /\ EnsureRunning
    /\ call' = [call EXCEPT ![p] = IF slot'.ready = 0 THEN [at |-> "decide", of |-> 0]
                                   ELSE [at |-> "ready", of |-> slot'.ready]]
    /\ UNCHANGED timer

\* The prompt goes on; it forgets the ready promise, also a newer one.
GoesOn(p) == At(p, {"decide"}) \/ (At(p, {"ready"}) /\ life[call[p].of].told)
Forgot(p) == IF At(p, {"ready"}) THEN [slot EXCEPT !.ready = 0] ELSE slot
To(p, place, n) == call' = [call EXCEPT ![p] = [at |-> place, of |-> n]]

\* _shouldQueuePromptAsFollowUp: Pi is asked only if it may be in a turn that
\* the dashboard did not start.  (How the prompt is sent is left out.)
Decide(p) ==
    /\ GoesOn(p)
    /\ IF slot.outstanding > 0 \/ ~slot.running
       THEN To(p, "send", 0) /\ slot' = Forgot(p)
       ELSE IF Writable THEN To(p, "ask", slot.proc) /\ slot' = Forgot(p)
       ELSE To(p, "send", 0) /\ slot' = Reset(Forgot(p))
    /\ UNCHANGED <<life, timer>>

\* /reload.
Reload(p) ==
    /\ GoesOn(p)
    /\ IF slot.proc = 0 THEN Start(life, Forgot(p)) /\ UNCHANGED timer
       ELSE /\ timer.kill < MaxTimers
            /\ Start(Killed(life), [Unasked(Forgot(p)) EXCEPT !.running = FALSE, !.proc = 0])
            /\ timer' = Armed(timer)
    /\ call' = [SettledCalls EXCEPT ![p] = [at |-> "done", of |-> 0]]

\* get_state is answered, or not within a second.
Asked(p) ==
    /\ ~Micro /\ At(p, {"ask"}) /\ To(p, "send", 0)
    /\ \/ /\ life[call[p].of].up
          /\ slot' = [slot EXCEPT !.running = @ /\ life[call[p].of].busy]
       \/ UNCHANGED slot
    /\ UNCHANGED <<life, timer>>

\* What cannot be written is lost, and the slot reset; the user's message stays.
Send(p) ==
    /\ At(p, {"send"}) /\ To(p, "done", 0)
    /\ slot' = IF Writable
               THEN [slot EXCEPT !.outstanding = @ + 1, !.running = TRUE]
               ELSE Reset(slot)
    /\ UNCHANGED <<life, timer>>

\* The answer to the first get_state, or its timeout.
Ready(n) ==
    /\ ~Micro /\ n <= slot.born /\ ~life[n].told
    /\ life' = [life EXCEPT ![n].told = TRUE]
    /\ UNCHANGED <<slot, timer, call>>

-----------------------------------------------------------------------------
(* The child: its lines are handled whoever the current process is *)

Speaks(n) == ~Micro /\ (life[n].up \/ life[n].left)
Spoken(n, busy) == life' = [life EXCEPT ![n].busy = busy /\ life[n].up, ![n].left = FALSE]
BugOneLess(s) == [s EXCEPT !.outstanding = @ - 1]   \* Bug: an answer too many.
OneLess(s) == [s EXCEPT !.outstanding = IF @ > 0 THEN @ - 1 ELSE 0]

AgentStart(n) ==
    /\ Speaks(n) /\ ~life[n].busy /\ Spoken(n, TRUE)
    /\ slot' = [slot EXCEPT !.running = TRUE, !.stopping = FALSE]
    /\ UNCHANGED <<timer, call>>

AgentEnd(n) ==
    /\ Speaks(n) /\ life[n].busy /\ Spoken(n, FALSE)
    /\ slot' = OneLess(Idle(slot))
    /\ timer' = [timer EXCEPT !.stop = FALSE]
    /\ UNCHANGED call

PromptFails(n) ==
    /\ Speaks(n) /\ Spoken(n, life[n].busy)
    /\ slot' = OneLess(Idle(slot))
    /\ UNCHANGED <<timer, call>>

\* A subagent has finished, or a background process has news (server.ts).
AutoTurn ==
    /\ slot.listed /\ ~Micro /\ Alive
    /\ slot' = IF Writable THEN [slot EXCEPT !.running = TRUE]
               ELSE Reset(slot)
    /\ UNCHANGED <<life, timer, call>>

\* A process ends, or crashes.  The exit of one that is not the current one any more
\* is ignored; a gracefulShutdown that waits for it ends.
Exit(n) ==
    /\ ~Micro /\ life[n].up
    /\ \E left \in BOOLEAN :
         life' = [life EXCEPT ![n] = [Unborn EXCEPT !.left = left, !.busy = left /\ life[n].busy,
                                                    !.told = life[n].told]]
    /\ slot' = IF slot.proc = n THEN [Idle(slot) EXCEPT !.proc = 0] ELSE slot
    /\ timer' = [timer EXCEPT !.stop = @ /\ slot.proc # n,
                              !.shut = IF @ = n THEN 0 ELSE @]
    /\ UNCHANGED call

-----------------------------------------------------------------------------
(* Stopping *)

Abort ==
    /\ slot.listed /\ ~Micro
    /\ IF Writable THEN slot' = [slot EXCEPT !.stopping = TRUE] ELSE slot' = Reset(slot)
    /\ timer' = [timer EXCEPT !.stop = @ \/ Alive]
    /\ UNCHANGED <<life, call>>

\* The watchdog of abort(), after ten seconds.
StopTimer ==
    /\ ~Micro /\ timer.stop
    /\ IF slot.stopping THEN Kill /\ timer' = [Armed(timer) EXCEPT !.stop = FALSE]
       ELSE timer' = [timer EXCEPT !.stop = FALSE] /\ UNCHANGED <<life, slot, call>>

\* Three seconds after a kill(), for the process that is current then.
KillTimer ==
    /\ ~Micro /\ timer.kill > 0
    /\ timer' = [timer EXCEPT !.kill = @ - 1]
    /\ life' = IF Alive THEN Signal(life, slot.proc, "KILL") ELSE life
    /\ UNCHANGED <<slot, call>>

BugStuck == slot.running                            \* Bug: only a turn is looked for.
Stuck == slot.running \/ slot.stopping
\* checkHealth, every five seconds, of the slots that the manager still lists.
CheckHealth ==
    /\ slot.listed /\ ~Micro /\ slot.proc # 0 /\ ~Alive /\ Stuck
    /\ slot' = Reset(slot) /\ timer' = [timer EXCEPT !.stop = FALSE]
    /\ UNCHANGED <<life, call>>

\* POST .../cwd, as long as the slot has no message: kill() and start().  A prompt
\* leaves its message when it is sent, not when it asks whether to queue.
SetCwd ==
    /\ slot.listed /\ ~Micro /\ Alive
    /\ \A p \in Prompts : At(p, {"idle", "ready", "ask"})
    /\ timer.kill < MaxTimers
    /\ Start(Killed(life), Unasked(slot)) /\ timer' = Armed(timer)
    /\ call' = SettledCalls

\* deleteSlot: the slot is forgotten, and its process asked to end.
Delete ==
    /\ slot.listed /\ ~Micro
    /\ IF Alive
       THEN /\ life' = [life EXCEPT ![slot.proc].ended = TRUE]
            /\ slot' = [slot EXCEPT !.listed = FALSE, !.stopping = TRUE]
            /\ timer' = [timer EXCEPT !.shut = slot.proc]
            /\ UNCHANGED call
       ELSE /\ life' = Settled(life) /\ call' = SettledCalls
            /\ slot' = [Unasked(slot) EXCEPT !.listed = FALSE]
            /\ UNCHANGED timer

\* The watchdog of gracefulShutdown, after a minute.
ShutTimer ==
    /\ ~Micro /\ timer.shut # 0
    /\ Kill /\ timer' = [Armed(timer) EXCEPT !.shut = 0]

RpcNext ==
    \/ \E p \in Prompts : Prompt(p) \/ Decide(p) \/ Reload(p) \/ Asked(p) \/ Send(p)
    \/ \E n \in Lives : Ready(n) \/ AgentStart(n) \/ AgentEnd(n) \/ PromptFails(n) \/ Exit(n)
    \/ AutoTurn \/ Abort \/ StopTimer \/ KillTimer \/ CheckHealth \/ SetCwd
    \/ Delete \/ ShutTimer

\* What the event loop does by itself: timers, and prompts that can go on.
RpcFairness ==
    /\ \A p \in Prompts : WF_rpcVars(Decide(p) \/ Reload(p) \/ Asked(p) \/ Send(p))
    /\ \A n \in Lives : WF_rpcVars(Ready(n))
    /\ WF_rpcVars(StopTimer) /\ WF_rpcVars(KillTimer) /\ WF_rpcVars(CheckHealth)
    /\ WF_rpcVars(ShutTimer)

-----------------------------------------------------------------------------
RpcTypeOK ==
    /\ life \in [Lives -> [up : BOOLEAN, signals : SUBSET {"TERM", "KILL"},
                           ended : BOOLEAN, busy : BOOLEAN, left : BOOLEAN, told : BOOLEAN]]
    /\ slot \in [proc : 0..MaxLives, born : 0..MaxLives, ready : 0..MaxLives,
                 listed : BOOLEAN, running : BOOLEAN, stopping : BOOLEAN,
                 outstanding : Nat]
    /\ timer \in [kill : 0..MaxTimers, stop : BOOLEAN, shut : 0..MaxLives]
    /\ call \in [Prompts -> [at : {"idle", "ready", "decide", "ask", "send", "done"},
                             of : 0..MaxLives]]

\* A process that the slot has given up was told to end, by a signal or by the end of
\* its input: no restart, reload or failed stop forgets one (start(): "kill it first to
\* avoid orphans").  Whether it has ended is not said, nor is anything of a start of
\* the other transport that is still under way.
OneOwner == \A n \in Lives : life[n].up /\ n # slot.proc
                             => life[n].signals # {} \/ life[n].ended

\* A prompt waits for no process forever: not for one that was killed, crashed or
\* replaced while it waited.
RpcPromptReturns ==
    \A p \in Prompts : At(p, {"ready", "decide", "ask", "send"}) ~> At(p, {"done"})

\* A stop ends, though Pi hangs and the process ignores SIGTERM: the health check
\* resets the slot, unless it is deleted first (a deleted slot is not looked after).
StopEnds == (slot.stopping /\ timer.stop) ~> (~slot.stopping \/ ~slot.listed)

\* The kill of a process that does not end becomes a kill by force ("if still stopping
\* after 10s, force-kill", abort(); the timer of three seconds in kill()).
ForceKills ==
    \A n \in Lives : ("TERM" \in life[n].signals) ~> (~life[n].up \/ "KILL" \in life[n].signals)
=============================================================================
