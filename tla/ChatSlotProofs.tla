--------------------------- MODULE ChatSlotProofs ---------------------------
(***************************************************************************)
(* ChatSlot, for any number of prompts, calls, tool calls, processes and   *)
(* sessions: no process is given up that was not told to end, and the gate *)
(* of the tool calls fails closed and strands none of them.                *)
(***************************************************************************)
EXTENDS ChatSlot, TLAPS

LifeType == [up : BOOLEAN, signals : SUBSET {"TERM", "KILL"}, ended : BOOLEAN,
             busy : BOOLEAN, left : BOOLEAN, told : BOOLEAN]
SlotType == [proc : 0..MaxLives, born : 0..MaxLives, ready : 0..MaxLives,
             listed : BOOLEAN, running : BOOLEAN, stopping : BOOLEAN, outstanding : Nat]
TimerType == [kill : 0..MaxTimers, stop : BOOLEAN, shut : 0..MaxLives]
CallType == [at : {"idle", "ready", "decide", "ask", "send", "done"}, of : 0..MaxLives]

\* A process of l that runs was told to end.
Told(l, n) == l[n].up => l[n].signals # {} \/ l[n].ended

\* The inductive invariant of the process side: an adopted slot has no process.
RpcInv == RpcTypeOK /\ OneOwner /\ slot.proc <= slot.born

LEMMA RpcTypes ==
    RpcTypeOK <=> /\ life \in [Lives -> LifeType] /\ slot \in SlotType
                  /\ timer \in TimerType /\ call \in [Prompts -> CallType]
BY DEF RpcTypeOK, LifeType, SlotType, TimerType, CallType

LEMMA RpcTypesNext ==
    RpcTypeOK' <=> /\ life' \in [Lives -> LifeType] /\ slot' \in SlotType
                   /\ timer' \in TimerType /\ call' \in [Prompts -> CallType]
BY DEF RpcTypeOK, LifeType, SlotType, TimerType, CallType

\* A new process takes the slot over from processes that were all told to end.
LEMMA Starts ==
    ASSUME NEW l \in [Lives -> LifeType], NEW s \in SlotType,
           \A n \in Lives : Told(l, n), Start(l, s)
    PROVE  /\ life' \in [Lives -> LifeType] /\ slot' \in SlotType
           /\ OneOwner' /\ slot'.proc <= slot'.born
           /\ slot'.ready \in 0..MaxLives
<1> DEFINE n == s.born + 1
<1> USE DEF Start
<1> DEFINE k == Signal(l, s.proc, "TERM")
<1>1. k \in [Lives -> LifeType] /\ \A m \in Lives : Told(k, m)
  BY DEF Signal, Told, LifeType, SlotType, Lives
<1>2. n \in Lives /\ life' = [k EXCEPT ![n] = Born]
  OBVIOUS
<1>3. slot' \in SlotType /\ slot'.proc = n /\ slot'.born = n /\ slot'.ready = n
  <2>1. n \in 0..MaxLives
    BY <1>2, RpcBounds DEF Lives
  <2>2. slot' = [s EXCEPT !.proc = n, !.born = n, !.ready = n]
    BY DEF Start
  <2> HIDE DEF n, Start
  <2> QED BY <2>1, <2>2 DEF SlotType
<1>4. Born \in LifeType
  BY DEF Born, Unborn, LifeType
<1> HIDE DEF k
<1>5. life' \in [Lives -> LifeType]
  BY <1>1, <1>2, <1>4
<1>6. OneOwner'
  BY <1>1, <1>2, <1>3, RpcBounds DEF OneOwner, Told, Lives
<1> QED BY <1>2, <1>3, <1>5, <1>6, RpcBounds DEF Lives

\* kill() tells the current process to end, and changes nothing of the others.
LEMMA Kills ==
    ASSUME RpcTypeOK
    PROVE  /\ Killed(life) \in [Lives -> LifeType]
           /\ \A n \in Lives : /\ Killed(life)[n].up = life[n].up
                               /\ Killed(life)[n].ended = life[n].ended
                               /\ life[n].signals \subseteq Killed(life)[n].signals
                               /\ n = slot.proc => Told(Killed(life), n)
<1> DEFINE l == Signal(life, slot.proc, "TERM")
<1>1. l \in [Lives -> LifeType]
  BY DEF RpcTypeOK, Signal, LifeType, Lives
<1>2. Killed(life) \in [Lives -> LifeType]
  BY <1>1 DEF Killed, Settled, LifeType
<1>3. ASSUME NEW n \in Lives
      PROVE  /\ Killed(life)[n].up = life[n].up
             /\ Killed(life)[n].ended = life[n].ended
             /\ Killed(life)[n].signals = l[n].signals
  <2>1. Killed(life)[n] = [l[n] EXCEPT !.told = l[n].told \/ n <= slot.born]
    BY DEF Killed, Settled
  <2>2. l[n] \in LifeType /\ l[n].up = life[n].up /\ l[n].ended = life[n].ended
    BY <1>1 DEF RpcTypeOK, Signal
  <2> HIDE DEF l
  <2>3. QED
    BY <2>1, <2>2 DEF LifeType
<1>4. ASSUME NEW n \in Lives
      PROVE  /\ life[n].signals \subseteq l[n].signals
             /\ n = slot.proc /\ life[n].up => "TERM" \in l[n].signals
  BY DEF RpcTypeOK, Signal, Lives
<1> QED BY <1>2, <1>3, <1>4 DEF Told

\* A slot that has let go of its process.
LEMMA LetGo ==
    ASSUME NEW s \in SlotType
    PROVE  /\ [s EXCEPT !.proc = 0] \in SlotType
           /\ [s EXCEPT !.running = FALSE, !.proc = 0] \in SlotType
<1>1. 0 \in 0..MaxLives
  BY RpcBounds
<1> QED BY <1>1 DEF SlotType

\* The helpers on the slot's fields keep its process.
LEMMA SlotHelpers ==
    ASSUME NEW s \in SlotType
    PROVE  \A t \in {Idle(s), Reset(s), OneLess(s), Unasked(s)} :
               t \in SlotType /\ t.proc = s.proc /\ t.born = s.born
<1>1. Idle(s) \in SlotType /\ Idle(s).proc = s.proc /\ Idle(s).born = s.born
  BY DEF Idle, SlotType
<1>2. Reset(s) \in SlotType /\ Reset(s).proc = s.proc /\ Reset(s).born = s.born
  BY <1>1 DEF Reset, SlotType
<1>3. OneLess(s) \in SlotType /\ OneLess(s).proc = s.proc /\ OneLess(s).born = s.born
  BY DEF OneLess, SlotType
<1>4. Unasked(s) \in SlotType /\ Unasked(s).proc = s.proc /\ Unasked(s).born = s.born
  BY DEF Unasked, SlotType
<1> QED BY <1>1, <1>2, <1>3, <1>4

LEMMA CallHelpers ==
    ASSUME RpcTypeOK, NEW p \in Prompts
    PROVE  /\ slot \in SlotType
           /\ Forgot(p) \in SlotType /\ Forgot(p).proc = slot.proc /\ Forgot(p).born = slot.born
           /\ SettledCalls \in [Prompts -> CallType]
           /\ \A place \in {"send", "ask", "done"}, n \in {0, slot.proc} :
                  To(p, place, n) => call' \in [Prompts -> CallType]
<1>1. slot \in SlotType /\ call \in [Prompts -> CallType]
  BY RpcTypes
<1>2. Forgot(p) \in SlotType /\ Forgot(p).proc = slot.proc /\ Forgot(p).born = slot.born
  BY <1>1, RpcBounds DEF Forgot, SlotType
<1>3. \A place \in {"send", "ask", "done"}, n \in {0, slot.proc} :
          [at |-> place, of |-> n] \in CallType
  BY <1>1, RpcBounds DEF SlotType, CallType
<1>4. SettledCalls \in [Prompts -> CallType]
  BY <1>1, <1>3 DEF SettledCalls
<1>5. ASSUME NEW place \in {"send", "ask", "done"}, NEW n \in {0, slot.proc}, To(p, place, n)
      PROVE  call' \in [Prompts -> CallType]
  BY <1>1, <1>3, <1>5 DEF To
<1> QED BY <1>1, <1>2, <1>4, <1>5

\* A step that starts no process keeps the invariant, if the processes that were told
\* to end still are, and the slot lets go only of one that is told.
LEMMA Keeps ==
    ASSUME RpcInv, RpcTypeOK', slot'.born = slot.born,
           slot'.proc = slot.proc \/ slot'.proc = 0,
           \A n \in Lives : Told(life, n) => Told(life', n),
           slot'.proc # slot.proc => \A n \in Lives : n = slot.proc => Told(life', n)
    PROVE  RpcInv'
BY RpcBounds, RpcTypes DEF RpcInv, OneOwner, Told, SlotType

\* A step of a prompt, or of the slot's fields alone.
LEMMA KeepsProcess ==
    ASSUME RpcInv, UNCHANGED life, slot' \in SlotType,
           slot'.proc = slot.proc, slot'.born = slot.born,
           timer' \in TimerType, call' \in [Prompts -> CallType]
    PROVE  RpcInv'
<1>1. RpcTypeOK'
  BY RpcTypes, RpcTypesNext DEF RpcInv
<1> QED BY <1>1 DEF RpcInv, OneOwner

\* Steps of the prompts.
LEMMA PromptSteps ==
    ASSUME RpcInv, NEW p \in Prompts,
           Prompt(p) \/ Decide(p) \/ Reload(p) \/ Asked(p) \/ Send(p)
    PROVE  RpcInv'
<1>1. /\ RpcTypeOK /\ OneOwner /\ slot.proc <= slot.born
      /\ life \in [Lives -> LifeType] /\ slot \in SlotType
      /\ timer \in TimerType /\ call \in [Prompts -> CallType]
  BY RpcTypes DEF RpcInv
<1>2. CASE Prompt(p)
  <2>1. CASE Alive
    <3>1. UNCHANGED <<life, slot, timer>>
      BY <1>2, <2>1 DEF Prompt, EnsureRunning
    <3>2. call' \in [Prompts -> CallType]
      BY <1>1, <1>2, <3>1, RpcBounds DEF Prompt, CallType, SlotType
    <3> QED BY <1>1, <3>1, <3>2, KeepsProcess
  <2>2. CASE ~Alive
    <3> DEFINE s == [Idle(slot) EXCEPT !.proc = 0]
    <3>1. s \in SlotType
      BY <1>1, SlotHelpers, LetGo
    <3>2. \A n \in Lives : Told(life, n)
      BY <1>1, <2>2 DEF OneOwner, Told, Alive, Lives
    <3>3. Start(life, s) /\ UNCHANGED timer
      BY <1>2, <2>2 DEF Prompt, EnsureRunning
    <3> HIDE DEF s
    <3>4. /\ life' \in [Lives -> LifeType] /\ slot' \in SlotType
          /\ OneOwner' /\ slot'.proc <= slot'.born /\ slot'.ready \in 0..MaxLives
      BY <1>1, <3>1, <3>2, <3>3, Starts
    <3>5. call' \in [Prompts -> CallType]
      BY <1>1, <1>2, <3>4, RpcBounds DEF Prompt, CallType
    <3> QED BY <1>1, <3>3, <3>4, <3>5, RpcTypesNext DEF RpcInv
  <2> QED BY <2>1, <2>2
<1>3. CASE Decide(p)
  <2>1. slot' \in {Forgot(p), Reset(Forgot(p))} /\ UNCHANGED <<life, timer>>
    BY <1>3 DEF Decide
  <2>2. slot' \in SlotType /\ slot'.proc = slot.proc /\ slot'.born = slot.born
    BY <1>1, <2>1, CallHelpers, SlotHelpers
  <2>3. call' \in [Prompts -> CallType]
    BY <1>1, <1>3, CallHelpers DEF Decide
  <2> QED BY <1>1, <2>1, <2>2, <2>3, KeepsProcess
<1>4. CASE Reload(p)
  <2>1. call' \in [Prompts -> CallType]
    BY <1>1, <1>4, CallHelpers, RpcBounds DEF Reload, CallType
  <2>2. CASE slot.proc = 0
    <3>1. Start(life, Forgot(p)) /\ UNCHANGED timer
      BY <1>4, <2>2 DEF Reload
    <3>2. \A n \in Lives : Told(life, n)
      BY <1>1, <2>2 DEF OneOwner, Told, Lives
    <3> QED BY <1>1, <2>1, <3>1, <3>2, CallHelpers, Starts, RpcTypesNext DEF RpcInv
  <2>3. CASE slot.proc # 0
    <3> DEFINE s == [Unasked(Forgot(p)) EXCEPT !.running = FALSE, !.proc = 0]
    <3>1. Start(Killed(life), s) /\ timer.kill < MaxTimers /\ timer' = Armed(timer)
      BY <1>4, <2>3 DEF Reload
    <3>2. s \in SlotType
      <4>1. Unasked(Forgot(p)) \in SlotType
        BY <1>1, CallHelpers, SlotHelpers
      <4> QED BY <4>1, LetGo
    <3>3. Killed(life) \in [Lives -> LifeType] /\ \A n \in Lives : Told(Killed(life), n)
      BY <1>1, Kills DEF OneOwner, Told
    <3>4. timer' \in TimerType
      BY <1>1, <3>1, RpcBounds DEF Armed, TimerType
    <3> HIDE DEF s
    <3> QED BY <1>1, <2>1, <3>1, <3>2, <3>3, <3>4, Starts, RpcTypesNext DEF RpcInv
  <2> QED BY <2>2, <2>3
<1>5. CASE Asked(p)
  <2>1. slot' \in SlotType /\ slot'.proc = slot.proc /\ slot'.born = slot.born
    BY <1>1, <1>5 DEF Asked, SlotType
  <2> QED BY <1>1, <1>5, <2>1, CallHelpers, KeepsProcess DEF Asked
<1>6. CASE Send(p)
  <2>1. slot' \in SlotType /\ slot'.proc = slot.proc /\ slot'.born = slot.born
    <3>1. CASE Writable
      <4>1. slot' = [slot EXCEPT !.outstanding = @ + 1, !.running = TRUE]
        BY <1>6, <3>1 DEF Send
      <4>2. slot.outstanding + 1 \in Nat
        BY <1>1 DEF SlotType
      <4> QED BY <1>1, <4>1, <4>2 DEF SlotType
    <3>2. CASE ~Writable
      BY <1>1, <1>6, <3>2, SlotHelpers DEF Send
    <3> QED BY <3>1, <3>2
  <2> QED BY <1>1, <1>6, <2>1, CallHelpers, KeepsProcess DEF Send
<1> QED BY <1>2, <1>3, <1>4, <1>5, <1>6

\* Steps of the child processes.
LEMMA ChildSteps ==
    ASSUME RpcInv, NEW n \in Lives,
           Ready(n) \/ AgentStart(n) \/ AgentEnd(n) \/ PromptFails(n) \/ Exit(n)
    PROVE  RpcInv'
<1>1. /\ RpcTypeOK /\ OneOwner /\ slot.proc <= slot.born
      /\ life \in [Lives -> LifeType] /\ slot \in SlotType
      /\ timer \in TimerType /\ call \in [Prompts -> CallType]
  BY RpcTypes DEF RpcInv
<1>2. CASE Ready(n)
  <2>1. life' \in [Lives -> LifeType] /\ UNCHANGED <<slot, timer, call>>
    BY <1>1, <1>2 DEF Ready, LifeType
  <2>2. \A m \in Lives : Told(life, m) => Told(life', m)
    BY <1>1, <1>2 DEF Ready, Told, LifeType
  <2>3. RpcTypeOK'
    BY <1>1, <2>1, RpcTypesNext
  <2> QED BY <2>1, <2>2, <2>3, Keeps
<1>3. ASSUME NEW busy \in BOOLEAN, Spoken(n, busy)
      PROVE  /\ life' \in [Lives -> LifeType]
             /\ \A m \in Lives : Told(life, m) => Told(life', m)
  <2> DEFINE b == busy /\ life[n].up
  <2>1. life' = [life EXCEPT ![n].busy = b, ![n].left = FALSE]
    BY <1>3 DEF Spoken
  <2>2. b \in BOOLEAN
    OBVIOUS
  <2> HIDE DEF b
  <2>3. life' \in [Lives -> LifeType]
    <3>1. [life[n] EXCEPT !.busy = b, !.left = FALSE] \in LifeType
      BY <1>1, <2>2 DEF LifeType
    <3>2. life' = [life EXCEPT ![n] = [life[n] EXCEPT !.busy = b, !.left = FALSE]]
      BY <1>1, <2>1 DEF LifeType
    <3> QED BY <1>1, <3>1, <3>2
  <2>4. \A m \in Lives : /\ life'[m].up = life[m].up /\ life'[m].ended = life[m].ended
                         /\ life'[m].signals = life[m].signals
    BY <1>1, <2>1 DEF LifeType
  <2> QED BY <2>3, <2>4 DEF Told
<1>4. CASE AgentStart(n)
  <2>1. Spoken(n, TRUE) /\ UNCHANGED <<timer, call>>
    BY <1>4 DEF AgentStart
  <2>2. slot' \in SlotType /\ slot'.proc = slot.proc /\ slot'.born = slot.born
    BY <1>1, <1>4 DEF AgentStart, SlotType
  <2>3. RpcTypeOK'
    BY <1>1, <1>3, <2>1, <2>2, RpcTypesNext
  <2> QED BY <1>3, <2>1, <2>2, <2>3, Keeps
<1>5. CASE AgentEnd(n) \/ PromptFails(n)
  <2>1. Spoken(n, FALSE) \/ Spoken(n, life[n].busy)
    BY <1>5 DEF AgentEnd, PromptFails
  <2>2. life[n].busy \in BOOLEAN
    BY <1>1 DEF LifeType
  <2>3. Idle(slot) \in SlotType /\ slot' = OneLess(Idle(slot)) /\ UNCHANGED call
    BY <1>1, <1>5, SlotHelpers DEF AgentEnd, PromptFails
  <2>4. slot' \in SlotType /\ slot'.proc = slot.proc /\ slot'.born = slot.born
    BY <1>1, <2>3, SlotHelpers
  <2>5. timer' \in TimerType
    BY <1>1, <1>5 DEF AgentEnd, PromptFails, TimerType
  <2>6. RpcTypeOK'
    BY <1>1, <1>3, <2>1, <2>2, <2>3, <2>4, <2>5, RpcTypesNext
  <2> QED BY <1>3, <2>1, <2>2, <2>4, <2>6, Keeps
<1>6. CASE Exit(n)
  <2>1. PICK left \in BOOLEAN :
            life' = [life EXCEPT ![n] = [Unborn EXCEPT !.left = left, !.busy = left /\ life[n].busy,
                                                       !.told = life[n].told]]
    BY <1>6 DEF Exit
  <2>2. life' \in [Lives -> LifeType]
    BY <1>1, <2>1 DEF Unborn, LifeType
  <2>3. Told(life', n) /\ \A m \in Lives \ {n} : life'[m] = life[m]
    BY <1>1, <2>1 DEF Unborn, Told
  <2>4. slot' = IF slot.proc = n THEN [Idle(slot) EXCEPT !.proc = 0] ELSE slot
    BY <1>6 DEF Exit
  <2>5. slot' \in SlotType /\ slot'.born = slot.born
        /\ slot'.proc = IF slot.proc = n THEN 0 ELSE slot.proc
    <3>1. Idle(slot) \in SlotType /\ Idle(slot).born = slot.born
      BY <1>1, SlotHelpers
    <3> QED BY <1>1, <2>4, <3>1, LetGo DEF SlotType
  <2>6. timer' \in TimerType /\ UNCHANGED call
    <3>1. 0 \in 0..MaxLives
      BY RpcBounds
    <3>2. timer' = [timer EXCEPT !.stop = @ /\ slot.proc # n,
                                 !.shut = IF @ = n THEN 0 ELSE @]
      BY <1>6 DEF Exit
    <3>3. UNCHANGED call
      BY <1>6 DEF Exit
    <3> QED BY <1>1, <3>1, <3>2, <3>3 DEF TimerType
  <2>7. RpcTypeOK'
    BY <1>1, <2>2, <2>5, <2>6, RpcTypesNext
  <2>8. \A m \in Lives : Told(life, m) => Told(life', m)
    BY <2>3 DEF Told
  <2> QED BY <2>3, <2>5, <2>7, <2>8, Keeps
<1> QED BY <1>2, <1>4, <1>5, <1>6

\* A kill() of a watchdog.
LEMMA KillKeeps ==
    ASSUME RpcInv, Kill, timer' \in TimerType
    PROVE  RpcInv'
<1>1. RpcTypeOK /\ slot \in SlotType
  BY RpcTypes DEF RpcInv
<1>2. life' = Killed(life) /\ slot' = Unasked(slot) /\ call' = SettledCalls
  BY DEF Kill
<1>3. slot' \in SlotType /\ slot'.proc = slot.proc /\ slot'.born = slot.born
  BY <1>1, <1>2, SlotHelpers
<1>4. call' \in [Prompts -> CallType]
  BY <1>1, <1>2, RpcTypes, RpcBounds DEF SettledCalls, CallType
<1>5. RpcTypeOK'
  BY <1>1, <1>2, <1>3, <1>4, Kills, RpcTypesNext
<1>6. \A n \in Lives : Told(life, n) => Told(life', n)
  BY <1>1, <1>2, Kills DEF Told
<1> QED BY <1>3, <1>5, <1>6, Keeps

\* Steps of the slot: its timers, its checks and its end.
LEMMA SlotSteps ==
    ASSUME RpcInv,
           AutoTurn \/ Abort \/ StopTimer \/ KillTimer \/ CheckHealth \/ SetCwd
             \/ Delete \/ ShutTimer
    PROVE  RpcInv'
<1>1. /\ RpcTypeOK /\ OneOwner /\ slot.proc <= slot.born
      /\ life \in [Lives -> LifeType] /\ slot \in SlotType
      /\ timer \in TimerType /\ call \in [Prompts -> CallType]
  BY RpcTypes DEF RpcInv
<1>2. \A t \in {[slot EXCEPT !.running = TRUE], [slot EXCEPT !.stopping = TRUE], Reset(slot)} :
          t \in SlotType /\ t.proc = slot.proc /\ t.born = slot.born
  <2> DEFINE r == [slot EXCEPT !.running = TRUE]
             s == [slot EXCEPT !.stopping = TRUE]
  <2>1. r \in SlotType /\ r.proc = slot.proc /\ r.born = slot.born
    BY <1>1 DEF SlotType
  <2>2. s \in SlotType /\ s.proc = slot.proc /\ s.born = slot.born
    BY <1>1 DEF SlotType
  <2>3. Reset(slot) \in SlotType /\ Reset(slot).proc = slot.proc /\ Reset(slot).born = slot.born
    BY <1>1, SlotHelpers
  <2> QED BY <2>1, <2>2, <2>3
<1>3. CASE AutoTurn \/ Abort \/ CheckHealth
  <2>1. slot' \in {[slot EXCEPT !.running = TRUE], [slot EXCEPT !.stopping = TRUE], Reset(slot)}
        /\ UNCHANGED <<life, call>>
    BY <1>3 DEF AutoTurn, Abort, CheckHealth
  <2>2. timer' \in {timer, [timer EXCEPT !.stop = @ \/ Alive], [timer EXCEPT !.stop = FALSE]}
    BY <1>3 DEF AutoTurn, Abort, CheckHealth
  <2>3. Alive \in BOOLEAN
    BY DEF Alive
  <2> HIDE DEF Alive
  <2>4. timer' \in TimerType
    BY <1>1, <2>2, <2>3 DEF TimerType
  <2> QED BY <1>1, <1>2, <2>1, <2>4, KeepsProcess
<1>4. timer.kill < MaxTimers => Armed(timer) \in TimerType
  BY <1>1, RpcBounds DEF Armed, TimerType
<1>5. CASE StopTimer
  <2>1. CASE slot.stopping
    <3>1. Kill /\ timer' = [Armed(timer) EXCEPT !.stop = FALSE] /\ timer.kill < MaxTimers
      BY <1>5, <2>1 DEF StopTimer, Kill
    <3>2. timer' \in TimerType
      BY <1>4, <3>1 DEF TimerType
    <3> QED BY <3>1, <3>2, KillKeeps
  <2>2. CASE ~slot.stopping
    <3>1. timer' = [timer EXCEPT !.stop = FALSE] /\ UNCHANGED <<life, slot, call>>
      BY <1>5, <2>2 DEF StopTimer
    <3>2. timer' \in TimerType
      BY <1>1, <3>1 DEF TimerType
    <3> QED BY <1>1, <3>1, <3>2, KeepsProcess
  <2> QED BY <2>1, <2>2
<1>6. CASE KillTimer
  <2>1. timer' = [timer EXCEPT !.kill = @ - 1] /\ timer.kill > 0 /\ UNCHANGED <<slot, call>>
        /\ life' \in {life, Signal(life, slot.proc, "KILL")}
    BY <1>6 DEF KillTimer
  <2>2. timer.kill - 1 \in 0..MaxTimers
    BY <1>1, <2>1, RpcBounds DEF TimerType
  <2>3. timer' \in TimerType
    BY <1>1, <2>1, <2>2 DEF TimerType
  <2>4. Signal(life, slot.proc, "KILL") \in [Lives -> LifeType]
    <3>1. slot.proc \in 0..MaxLives
      BY <1>1 DEF SlotType
    <3> QED BY <1>1, <3>1 DEF Signal, LifeType, Lives
  <2>5. \A n \in Lives : Told(life, n) => Told(Signal(life, slot.proc, "KILL"), n)
    BY <1>1 DEF Signal, Told, LifeType, Lives
  <2>6. RpcTypeOK'
    BY <1>1, <2>1, <2>3, <2>4, RpcTypesNext
  <2> QED BY <2>1, <2>5, <2>6, Keeps
<1>7. CASE SetCwd
  <2>1. /\ Start(Killed(life), Unasked(slot)) /\ timer.kill < MaxTimers
        /\ timer' = Armed(timer) /\ call' = SettledCalls
    BY <1>7 DEF SetCwd
  <2>2. Killed(life) \in [Lives -> LifeType] /\ \A n \in Lives : Told(Killed(life), n)
    BY <1>1, Kills DEF OneOwner, Told
  <2>3. Unasked(slot) \in SlotType
    BY <1>1, SlotHelpers
  <2>4. call' \in [Prompts -> CallType]
    BY <1>1, <2>1, RpcBounds DEF SettledCalls, CallType
  <2> QED BY <1>1, <1>4, <2>1, <2>2, <2>3, <2>4, Starts, RpcTypesNext DEF RpcInv
<1>8. CASE Delete /\ Alive
  <2>1. /\ life' = [life EXCEPT ![slot.proc].ended = TRUE]
        /\ slot' = [slot EXCEPT !.listed = FALSE, !.stopping = TRUE]
        /\ timer' = [timer EXCEPT !.shut = slot.proc]
        /\ UNCHANGED call
    BY <1>8 DEF Delete
  <2>2. slot' \in SlotType /\ slot'.proc = slot.proc /\ slot'.born = slot.born
    BY <1>1, <2>1 DEF SlotType
  <2>3. life' \in [Lives -> LifeType] /\ \A n \in Lives : Told(life, n) => Told(life', n)
    BY <1>1, <2>1 DEF LifeType, Told
  <2>4. timer' \in TimerType
    BY <1>1, <2>1 DEF TimerType, SlotType
  <2>5. RpcTypeOK'
    BY <1>1, <2>1, <2>2, <2>3, <2>4, RpcTypesNext
  <2> QED BY <2>2, <2>3, <2>5, Keeps
<1>9. CASE Delete /\ ~Alive
  <2>1. /\ life' = Settled(life) /\ call' = SettledCalls
        /\ slot' = [Unasked(slot) EXCEPT !.listed = FALSE]
        /\ UNCHANGED timer
    BY <1>9 DEF Delete
  <2>2. slot' \in SlotType /\ slot'.proc = slot.proc /\ slot'.born = slot.born
    <3>1. Unasked(slot) \in SlotType /\ Unasked(slot).proc = slot.proc
          /\ Unasked(slot).born = slot.born
      BY <1>1, SlotHelpers
    <3> QED BY <2>1, <3>1 DEF SlotType
  <2>3. life' \in [Lives -> LifeType] /\ \A n \in Lives : Told(life, n) => Told(life', n)
    BY <1>1, <2>1 DEF Settled, LifeType, Told
  <2>4. call' \in [Prompts -> CallType]
    BY <1>1, <2>1, RpcBounds DEF SettledCalls, CallType
  <2>5. RpcTypeOK'
    BY <1>1, <2>1, <2>2, <2>3, <2>4, RpcTypesNext
  <2> QED BY <2>2, <2>3, <2>5, Keeps
<1>10. CASE ShutTimer
  <2>1. Kill /\ timer' = [Armed(timer) EXCEPT !.shut = 0] /\ timer.kill < MaxTimers
    BY <1>10 DEF ShutTimer, Kill
  <2>2. 0 \in 0..MaxLives
    BY RpcBounds
  <2>3. timer' \in TimerType
    BY <1>4, <2>1, <2>2 DEF TimerType
  <2> QED BY <2>1, <2>3, KillKeeps
<1> QED BY <1>3, <1>5, <1>6, <1>7, <1>8, <1>9, <1>10

-----------------------------------------------------------------------------
(* The in-process session *)

SdkType == [session : 0..MaxSessions, init : 0..MaxSessions, born : 0..MaxSessions,
            disposed : BOOLEAN, listed : BOOLEAN,
            running : BOOLEAN, stopping : BOOLEAN, gating : BOOLEAN]
TurnType == [at : {"idle", "init", "turn", "done"}, of : 0..MaxSessions]
ToolType == [state : {"none", "asked", "ran", "blocked"}, held : BOOLEAN, ok : BOOLEAN]
PhaseType == {"unborn", "creating", "binding", "ready", "failed", "disposed"}

\* A tool call that is as the gate may leave it.
Gated(u) == u \in ToolType /\ (u.state = "ran" => u.ok) /\ (u.state = "asked" => u.held)

SdkInv == SdkTypeOK /\ GateFailsClosed /\ NoneStranded

LEMMA SdkTypes ==
    SdkInv <=> /\ phase \in [Started -> PhaseType] /\ settled \subseteq Started
               /\ sdk \in SdkType /\ turn \in [Calls -> TurnType]
               /\ tool \in [Tools -> ToolType] /\ \A t \in Tools : Gated(tool[t])
BY DEF SdkInv, SdkTypeOK, GateFailsClosed, NoneStranded, Gated,
       SdkType, TurnType, ToolType, PhaseType

LEMMA SdkTypesNext ==
    /\ phase' \in [Started -> PhaseType] /\ settled' \subseteq Started
    /\ sdk' \in SdkType /\ turn' \in [Calls -> TurnType]
    /\ tool' \in [Tools -> ToolType] /\ \A t \in Tools : Gated(tool'[t])
    => SdkInv'
BY DEF SdkInv, SdkTypeOK, GateFailsClosed, NoneStranded, Gated,
       SdkType, TurnType, ToolType, PhaseType

\* A kill leaves no call held, and what it writes is of its type.
LEMMA SessionKills ==
    ASSUME SdkInv
    PROVE  /\ Denied \in [Tools -> ToolType] /\ \A t \in Tools : Gated(Denied[t])
           /\ Disposed \in [Started -> PhaseType]
           /\ \A s \in SdkType : Gone(s) \in SdkType /\ Quiet(s) \in SdkType
<1>1. \A t \in Tools : Denied[t] \in ToolType /\ Gated(Denied[t])
  BY SdkTypes DEF Denied, Gated, ToolType
<1>2. Denied \in [Tools -> ToolType]
  BY <1>1 DEF Denied
<1>3. Disposed \in [Started -> PhaseType]
  BY SdkTypes DEF Disposed, PhaseType
<1>4. 0 \in 0..MaxSessions
  BY SdkBounds
<1>5. ASSUME NEW s \in SdkType PROVE Gone(s) \in SdkType /\ Quiet(s) \in SdkType
  BY <1>4 DEF Gone, Quiet, SdkType
<1> QED BY <1>1, <1>2, <1>3, <1>5

\* The start of a session, of whatever the fields were before.
LEMMA SessionStarts ==
    ASSUME SdkInv, NEW s \in SdkType, StartSession(s)
    PROVE  sdk' \in SdkType /\ phase' \in [Started -> PhaseType]
<1>1. CASE s.session # 0 \/ s.init # 0
  BY <1>1, SdkTypes DEF StartSession
<1>2. CASE ~(s.session # 0 \/ s.init # 0)
  <2> DEFINE n == s.born + 1
  <2>1. /\ n \in Started
        /\ sdk' = [s EXCEPT !.disposed = FALSE, !.init = n, !.born = n]
        /\ phase' = [phase EXCEPT ![n] = "creating"]
    BY <1>2 DEF StartSession
  <2>2. n \in 0..MaxSessions
    BY <2>1, SdkBounds DEF Started
  <2> HIDE DEF n
  <2>3. sdk' \in SdkType
    BY <2>1, <2>2 DEF SdkType
  <2> QED BY <2>1, <2>3, SdkTypes DEF PhaseType
<1> QED BY <1>1, <1>2

LEMMA SdkSteps == SdkInv /\ [SdkNext]_sdkVars => SdkInv'
<1> SUFFICES ASSUME SdkInv, [SdkNext]_sdkVars PROVE SdkInv'
  OBVIOUS
<1>1. /\ phase \in [Started -> PhaseType] /\ settled \subseteq Started
      /\ sdk \in SdkType /\ turn \in [Calls -> TurnType]
      /\ tool \in [Tools -> ToolType] /\ \A t \in Tools : Gated(tool[t])
  BY SdkTypes
<1>2. ASSUME NEW n \in Started, Created(n) \/ Bound(n) \/ InitFails(n) PROVE SdkInv'
  <2>1. n \in 0..MaxSessions
    BY SdkBounds DEF Started
  <2>2. sdk' \in SdkType
    BY <1>1, <1>2, <2>1 DEF Created, Bound, InitFails, SdkType
  <2>3. PICK f \in PhaseType : phase' = [phase EXCEPT ![n] = f]
    <3>1. CASE Created(n)
      BY <3>1 DEF Created, PhaseType
    <3>2. CASE Bound(n)
      BY <1>1, <3>2 DEF Bound, PhaseType
    <3>3. CASE InitFails(n)
      BY <1>1, <3>3 DEF InitFails, PhaseType
    <3> QED BY <1>2, <3>1, <3>2, <3>3
  <2>4. phase' \in [Started -> PhaseType]
    BY <1>1, <2>3
  <2>5. settled' \subseteq Started /\ UNCHANGED <<turn, tool>>
    BY <1>1, <1>2 DEF Created, Bound, InitFails
  <2> QED BY <1>1, <2>2, <2>4, <2>5, SdkTypesNext
<1>3. ASSUME NEW c \in Calls, NEW place \in {"turn", "done"}, Goes(c, place, 0)
      PROVE  turn' \in [Calls -> TurnType]
  <2>1. [at |-> place, of |-> 0] \in TurnType
    BY SdkBounds DEF TurnType
  <2> QED BY <1>1, <1>3, <2>1 DEF Goes
<1>4. ASSUME NEW c \in Calls, NEW auto \in BOOLEAN, Call(c, auto) PROVE SdkInv'
  <2> DEFINE s == [IF Live THEN sdk ELSE Quiet(sdk) EXCEPT !.running = @ \/ sdk.session # 0]
  <2>1. StartSession(s) /\ UNCHANGED <<settled, tool>>
    BY <1>4 DEF Call
  <2>2. s \in SdkType
    BY <1>1, SessionKills DEF SdkType
  <2> HIDE DEF s
  <2>3. sdk' \in SdkType /\ phase' \in [Started -> PhaseType]
    BY <2>1, <2>2, SessionStarts
  <2>4. turn' \in [Calls -> TurnType]
    <3>1. CASE sdk.session # 0
      BY <1>3, <1>4, <3>1 DEF Call, Dispatched
    <3>2. CASE sdk.session = 0
      <4>1. turn' = [turn EXCEPT ![c] = [at |-> "init", of |-> sdk'.init]]
        BY <1>4, <3>2 DEF Call, Goes
      <4>2. sdk'.init \in 0..MaxSessions
        BY <2>3 DEF SdkType
      <4> QED BY <1>1, <4>1, <4>2 DEF TurnType
    <3> QED BY <3>1, <3>2
  <2> QED BY <1>1, <2>1, <2>3, <2>4, SdkTypesNext
<1>5. ASSUME Fatal
      PROVE  /\ sdk' \in SdkType /\ phase' \in [Started -> PhaseType]
             /\ tool' \in [Tools -> ToolType] /\ \A t \in Tools : Gated(tool'[t])
  BY <1>1, <1>5, SessionKills DEF Fatal, KillSession
<1>6. ASSUME NEW c \in Calls, Continue(c) \/ Returns(c) PROVE SdkInv'
  <2>1. turn' \in [Calls -> TurnType] /\ UNCHANGED settled
    BY <1>3, <1>6 DEF Continue, Returns, Dispatched
  <2>2. CASE Fatal
    BY <1>1, <1>5, <2>1, <2>2, SdkTypesNext
  <2>3. CASE ~Fatal
    <3>1. UNCHANGED <<phase, tool>> /\ sdk' \in {sdk, [sdk EXCEPT !.running = TRUE]}
      BY <1>6, <2>3 DEF Continue, Returns
    <3>2. sdk' \in SdkType
      BY <1>1, <3>1 DEF SdkType
    <3> QED BY <1>1, <2>1, <3>1, <3>2, SdkTypesNext
  <2> QED BY <2>2, <2>3
<1>7. ASSUME NEW t \in Tools,
             ToolCall(t) \/ Answer(t, TRUE) \/ Answer(t, FALSE) \/ ApprovalTimer(t)
      PROVE  SdkInv'
  <2>1. PICK u \in ToolType : Gated(u) /\ tool' = [tool EXCEPT ![t] = u]
    BY <1>7 DEF ToolCall, Answer, ApprovalTimer, TimedOut, Decision, Gated, ToolType
  <2>2. UNCHANGED <<phase, settled, sdk, turn>>
    BY <1>7 DEF ToolCall, Answer, ApprovalTimer
  <2>3. tool' \in [Tools -> ToolType] /\ \A v \in Tools : Gated(tool'[v])
    BY <1>1, <2>1
  <2> QED BY <1>1, <2>2, <2>3, SdkTypesNext
<1>8. CASE AgentEvent(TRUE) \/ AgentEvent(FALSE) \/ Toggle \/ AbortTurn \/ Reap
  <2>1. sdk' \in SdkType
    BY <1>1, <1>8, SessionKills DEF AgentEvent, Toggle, AbortTurn, Reap, SdkType
  <2>2. UNCHANGED <<phase, settled, turn, tool>>
    BY <1>8 DEF AgentEvent, Toggle, AbortTurn, Reap
  <2> QED BY <1>1, <2>1, <2>2, SdkTypesNext
<1>9. CASE DeleteSession \/ Fork
  <2> DEFINE d == [sdk EXCEPT !.listed = FALSE, !.stopping = TRUE]
  <2>1. (KillSession(d) \/ KillSession(sdk)) /\ UNCHANGED <<settled, turn>>
    BY <1>9 DEF DeleteSession, Fork
  <2>2. d \in SdkType
    BY <1>1 DEF SdkType
  <2> HIDE DEF d
  <2> QED BY <1>1, <2>1, <2>2, SessionKills, SdkTypesNext DEF KillSession
<1>10. CASE SetSessionCwd
  <2> DEFINE n == sdk.born + 1
  <2>1. n \in 0..MaxSessions /\ n \in Started
    BY <1>1, <1>10, SdkBounds DEF SetSessionCwd, SdkType, Started
  <2>2. Gone(sdk) \in SdkType /\ Gone(sdk).born = sdk.born
    BY <1>1, SessionKills DEF Gone, SdkType
  <2>3. /\ sdk' = [Gone(sdk) EXCEPT !.disposed = FALSE, !.init = n, !.born = n]
        /\ phase' = [Disposed EXCEPT ![n] = "creating"]
        /\ tool' = Denied /\ UNCHANGED <<settled, turn>>
    BY <1>10, <2>2 DEF SetSessionCwd, SdkType
  <2> HIDE DEF n
  <2>4. sdk' \in SdkType
    BY <2>1, <2>2, <2>3 DEF SdkType
  <2>5. phase' \in [Started -> PhaseType]
    BY <2>3, SessionKills DEF PhaseType
  <2> QED BY <1>1, <2>3, <2>4, <2>5, SessionKills, SdkTypesNext
<1>11. CASE UNCHANGED sdkVars
  BY <1>1, <1>11, SdkTypesNext DEF sdkVars
<1> QED BY <1>2, <1>4, <1>6, <1>7, <1>8, <1>9, <1>10, <1>11 DEF SdkNext

-----------------------------------------------------------------------------
(* The slot over both *)

Inv == RpcInv /\ SdkInv

LEMMA InvInit == Init => Inv
<1> SUFFICES ASSUME NEW r \in BOOLEAN, NEW s \in BOOLEAN, InitRpc(r), InitSdk(s) PROVE Inv
  BY DEF Init
<1>1. 0 \in 0..MaxLives /\ 0 \in 0..MaxTimers /\ 0 \in 0..MaxSessions
  BY RpcBounds, SdkBounds
<1>2. RpcTypeOK
  BY <1>1 DEF InitRpc, RpcTypeOK, Unborn
<1>3. OneOwner /\ slot.proc <= slot.born
  BY DEF InitRpc, OneOwner, Unborn
<1>4. SdkInv
  BY <1>1 DEF InitSdk, SdkInv, SdkTypeOK, GateFailsClosed, NoneStranded
<1> QED BY <1>2, <1>3, <1>4 DEF Inv, RpcInv

LEMMA InvStep == Inv /\ [Next]_chatVars => Inv'
<1> SUFFICES ASSUME Inv, [Next]_chatVars PROVE Inv'
  OBVIOUS
<1>1. /\ RpcInv /\ SdkInv /\ RpcTypeOK /\ OneOwner /\ slot.proc <= slot.born
      /\ life \in [Lives -> LifeType] /\ slot \in SlotType
      /\ timer \in TimerType /\ call \in [Prompts -> CallType]
  BY RpcTypes DEF Inv, RpcInv
<1>2. UNCHANGED rpcVars => RpcInv'
  BY <1>1, KeepsProcess DEF rpcVars
<1>3. UNCHANGED sdkVars => SdkInv'
  BY <1>1, SdkSteps
<1>4. RpcNext => RpcInv'
  BY <1>1, PromptSteps, ChildSteps, SlotSteps DEF RpcNext
<1>5. SdkNext => SdkInv'
  BY <1>1, SdkSteps
<1>6. CASE ToRpc
  <2> DEFINE adopted == [slot EXCEPT !.listed = TRUE]
  <2>1. DeleteSession /\ slot.born = 0 /\ UNCHANGED <<timer, call>>
        /\ ((slot' = adopted /\ UNCHANGED life) \/ Start(life, adopted))
    BY <1>6 DEF ToRpc
  <2>2. adopted \in SlotType /\ adopted.proc = slot.proc /\ adopted.born = slot.born
    BY <1>1 DEF SlotType
  <2>3. \A n \in Lives : Told(life, n)
    <3>1. slot.proc = 0
      BY <1>1, <2>1, RpcBounds DEF SlotType
    <3> QED BY <1>1, <3>1 DEF OneOwner, Told, Lives
  <2> HIDE DEF adopted
  <2>4. CASE slot' = adopted /\ UNCHANGED life
    BY <1>1, <1>5, <2>1, <2>2, <2>4, KeepsProcess DEF SdkNext, Inv
  <2>5. CASE Start(life, adopted)
    <3>1. RpcInv'
      BY <1>1, <2>1, <2>2, <2>3, <2>5, Starts, RpcTypesNext DEF RpcInv
    <3> QED BY <1>5, <2>1, <3>1 DEF SdkNext, Inv
  <2> QED BY <2>1, <2>4, <2>5
<1>7. CASE ToSdk
  <2>1. Delete /\ sdk' = [sdk EXCEPT !.listed = TRUE] /\ UNCHANGED <<phase, settled, turn, tool>>
    BY <1>7 DEF ToSdk
  <2>2. RpcInv'
    BY <1>1, <2>1, SlotSteps
  <2>3. sdk' \in SdkType
    BY <1>1, <2>1, SdkTypes DEF SdkType
  <2> QED BY <1>1, <2>1, <2>2, <2>3, SdkTypes, SdkTypesNext DEF Inv
<1>8. CASE UNCHANGED chatVars
  BY <1>2, <1>3, <1>8 DEF chatVars, rpcVars, sdkVars, Inv
<1> QED BY <1>2, <1>3, <1>4, <1>5, <1>6, <1>7, <1>8 DEF Next, Inv

LEMMA Invariance == Spec => []Inv
BY InvInit, InvStep, PTL DEF Spec

\* The state of a chat slot keeps its type, on either transport and across a change of it.
THEOREM TypeCorrect == Spec => []TypeOK
<1>1. Inv => TypeOK
  BY DEF Inv, RpcInv, SdkInv, TypeOK
<1> QED BY <1>1, Invariance, PTL

\* A process that the slot has given up was told to end, over any /reload, change of
\* directory, crash, watchdog or change of transport (start(), kill()).
THEOREM OneProcess == Spec => []OneOwner
<1>1. Inv => OneOwner
  BY DEF Inv, RpcInv
<1> QED BY <1>1, Invariance, PTL

\* A tool call that was held runs only when the user has approved it (_toolCallGate,
\* armToolApproval, kill()).
THEOREM FailsClosed == Spec => []GateFailsClosed
<1>1. Inv => GateFailsClosed
  BY DEF Inv, SdkInv
<1> QED BY <1>1, Invariance, PTL

\* No tool call is left waiting where neither the user nor the timer finds it.
THEOREM Decidable == Spec => []NoneStranded
<1>1. Inv => NoneStranded
  BY DEF Inv, SdkInv
<1> QED BY <1>1, Invariance, PTL
=============================================================================
