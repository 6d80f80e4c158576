------------------------ MODULE RemoteControlProofs ------------------------
(***************************************************************************)
(* Proofs about RemoteControl, for any number of devices, requests and     *)
(* connections and any limits.                                             *)
(***************************************************************************)
EXTENDS RemoteControl, FiniteSetTheorems, TLAPS

-----------------------------------------------------------------------------
(* Tasks and queues *)

LEMMA TaskFields ==
    ASSUME NEW t \in Tasks
    PROVE  /\ t.kind \in Controls \cup {"forget", "leave"}
           /\ t.kind # "leave" => t.by \in Clients
           /\ t.kind = "leave" => t.by = Nil
           /\ t.kind = "input" => t.input \in Inputs
           /\ t.kind # "input" => t.input = Nil
  BY DEF Tasks, Controls

LEMMA TaskTypes ==
    /\ \A c \in Clients, k \in {"claim", "release", "forget"} : Task(k, c, Nil) \in Tasks
    /\ \A i \in Inputs : Task("input", i[1], i) \in Tasks
    /\ Task("leave", Nil, Nil) \in Tasks
  BY DEF Task, Tasks, Inputs

LEMMA TaskParts ==
    ASSUME NEW k, NEW c, NEW i
    PROVE  Task(k, c, i).kind = k /\ Task(k, c, i).by = c /\ Task(k, c, i).input = i
  BY DEF Task

\* What Append and Tail do to the places of a queue.
LEMMA AppendFacts ==
    ASSUME NEW S, NEW q \in Seq(S), NEW t \in S
    PROVE  /\ Append(q, t) \in Seq(S)
           /\ Len(Append(q, t)) = Len(q) + 1
           /\ \A n \in 1..Len(q) : Append(q, t)[n] = q[n]
           /\ Append(q, t)[Len(q) + 1] = t
           /\ DOMAIN q = 1..Len(q) /\ Len(q) \in Nat
           /\ DOMAIN Append(q, t) = 1..(Len(q) + 1)
  OBVIOUS

LEMMA TailFacts ==
    ASSUME NEW S, NEW q \in Seq(S), q # <<>>
    PROVE  /\ Tail(q) \in Seq(S)
           /\ Len(q) \in Nat \ {0} /\ Len(Tail(q)) = Len(q) - 1
           /\ \A n \in 1..(Len(q) - 1) : Tail(q)[n] = q[n + 1]
           /\ Head(q) = q[1] /\ Head(q) \in S
           /\ DOMAIN q = 1..Len(q) /\ DOMAIN Tail(q) = 1..(Len(q) - 1)
  OBVIOUS

\* The places of the control requests in a queue.
Places(q) == {n \in DOMAIN q : q[n].kind \in Controls}

LEMMA PlacesFinite ==
    ASSUME NEW S, NEW q \in Seq(S)
    PROVE  IsFiniteSet(Places(q)) /\ Cardinality(Places(q)) \in Nat
  <1>1. Places(q) \subseteq 1..Len(q) /\ Len(q) \in Int
    BY DEF Places
  <1>2. IsFiniteSet(1..Len(q))
    BY <1>1, FS_Interval
  <1> QED BY <1>1, <1>2, FS_Subset, FS_CardinalityType

LEMMA CountAppend ==
    ASSUME NEW S, NEW q \in Seq(S), NEW t \in S
    PROVE  Cardinality(Places(Append(q, t)))
             = Cardinality(Places(q)) + (IF t.kind \in Controls THEN 1 ELSE 0)
  <1>1. /\ t.kind \in Controls => Places(Append(q, t)) = Places(q) \cup {Len(q) + 1}
        /\ t.kind \notin Controls => Places(Append(q, t)) = Places(q)
    BY AppendFacts DEF Places
  <1>2. Len(q) + 1 \notin Places(q)
    BY DEF Places
  <1>3. IsFiniteSet(Places(q)) /\ Cardinality(Places(q)) \in Nat
    BY PlacesFinite
  <1> QED BY <1>1, <1>2, <1>3, FS_AddElement

LEMMA CountTail ==
    ASSUME NEW S, NEW q \in Seq(S), q # <<>>
    PROVE  Cardinality(Places(q))
             = Cardinality(Places(Tail(q))) + (IF Head(q).kind \in Controls THEN 1 ELSE 0)
  <1> DEFINE f == [n \in Places(Tail(q)) |-> n + 1]
  <1>1. /\ DOMAIN q = 1..Len(q) /\ DOMAIN Tail(q) = 1..(Len(q) - 1)
        /\ Len(q) \in Nat \ {0} /\ Head(q) = q[1]
        /\ \A n \in 1..(Len(q) - 1) : Tail(q)[n] = q[n + 1]
        /\ Tail(q) \in Seq(S)
    BY TailFacts
  <1>2. f \in Bijection(Places(Tail(q)), Places(q) \ {1})
    <2>1. \A n \in Places(Tail(q)) : f[n] \in Places(q) \ {1}
      BY <1>1 DEF Places
    <2>2. \A m, n \in Places(Tail(q)) : f[m] = f[n] => m = n
      BY <1>1 DEF Places
    <2>3. \A k \in Places(q) \ {1} : \E n \in Places(Tail(q)) : f[n] = k
      <3> SUFFICES ASSUME NEW k \in Places(q) \ {1}
                   PROVE  k - 1 \in Places(Tail(q)) /\ f[k - 1] = k
        OBVIOUS
      <3> QED BY <1>1 DEF Places
    <2> QED BY <2>1, <2>2, <2>3 DEF Bijection, Injection, Surjection, IsInjective
  <1>3. Cardinality(Places(q) \ {1}) = Cardinality(Places(Tail(q)))
    <2>1. ExistsBijection(Places(Tail(q)), Places(q) \ {1})
      BY <1>2 DEF ExistsBijection
    <2>2. IsFiniteSet(Places(Tail(q)))
      BY <1>1, PlacesFinite
    <2> QED BY <2>1, <2>2, FS_Bijection
  <1>4. 1 \in Places(q) <=> Head(q).kind \in Controls
    BY <1>1 DEF Places
  <1>5. /\ IsFiniteSet(Places(q)) /\ Cardinality(Places(q)) \in Nat
        /\ Cardinality(Places(Tail(q))) \in Nat
    BY <1>1, PlacesFinite
  <1>6. Cardinality(Places(q) \ {1})
          = IF 1 \in Places(q) THEN Cardinality(Places(q)) - 1 ELSE Cardinality(Places(q))
    BY <1>5, FS_RemoveElement
  <1> QED BY <1>3, <1>4, <1>5, <1>6

-----------------------------------------------------------------------------
(* Types, the queue and the count of requests *)

\* An ended connection leaves nothing queued, and the cleanup of a closed one is
\* the last task of its queue.
QueueInv ==
    /\ phase = "ended" => queue = <<>>
    /\ queue = <<>> => reg = "idle"
    /\ late => reg # "idle"
    /\ reg = "sent" => Head(queue).kind = "input"
    /\ \A n \in 1..Len(queue) :
         queue[n].kind = "leave" => n = Len(queue) /\ phase = "closing"

\* inFlight counts the control requests in the queue.
CountInv ==
    phase # "ended" => inFlight = Cardinality(Places(queue)) /\ inFlight <= MaxInFlight

BaseInv == TypeOK /\ QueueInv /\ CountInv

LEMMA BaseInit == Init => BaseInv
  <1> SUFFICES ASSUME Init PROVE BaseInv
    OBVIOUS
  <1>1. late \in BOOLEAN /\ poisoned \in BOOLEAN
    BY Zenon DEF Init
  <1>2. TypeOK
    BY <1>1, LimitAssumption DEF Init, TypeOK
  <1>3. QueueInv /\ CountInv
    BY DEF Init, QueueInv, CountInv
  <1> QED BY <1>2, <1>3 DEF BaseInv

LEMMA PushStep ==
    ASSUME BaseInv, phase = "ready", NEW t \in Tasks, queue' = Append(queue, t),
           UNCHANGED <<reg, late>>,
           phase' = (IF t.kind = "leave" THEN "closing" ELSE "ready"),
           IF t.kind \in Controls THEN inFlight < MaxInFlight /\ inFlight' = inFlight + 1
                                  ELSE inFlight' = inFlight
    PROVE  queue' \in Seq(Tasks) /\ QueueInv' /\ CountInv' /\ inFlight' \in Nat
  <1> USE LimitAssumption DEF BaseInv
  <1>1. /\ queue' \in Seq(Tasks) /\ Len(queue') = Len(queue) + 1
        /\ \A n \in 1..Len(queue) : queue'[n] = queue[n]
        /\ queue'[Len(queue) + 1] = t /\ Len(queue) \in Nat
    BY AppendFacts DEF TypeOK
  <1>2. CountInv' /\ inFlight' \in Nat
    <2>1. Cardinality(Places(queue'))
            = Cardinality(Places(queue)) + (IF t.kind \in Controls THEN 1 ELSE 0)
      BY CountAppend DEF TypeOK
    <2> QED BY <2>1 DEF CountInv, TypeOK
  <1>3. queue # <<>> => Head(queue') = Head(queue)
    BY <1>1 DEF TypeOK
  <1>4. QueueInv'
    BY <1>1, <1>3 DEF QueueInv, TypeOK
  <1> QED BY <1>1, <1>2, <1>4

LEMMA PopStep ==
    ASSUME BaseInv, queue # <<>>, NEW t, t = Head(queue), Done(t),
           phase' = (IF t.kind = "leave" THEN "ended" ELSE phase)
    PROVE  /\ t \in Tasks /\ queue' \in Seq(Tasks) /\ QueueInv' /\ CountInv'
           /\ inFlight' \in Nat /\ reg' = "idle" /\ late' = FALSE
           /\ tombs' \in [Inputs -> {"none", "pending", "settled"}]
  <1> USE LimitAssumption DEF BaseInv
  <1>1. /\ queue' \in Seq(Tasks) /\ Len(queue') = Len(queue) - 1
        /\ Len(queue) \in Nat \ {0} /\ t = queue[1] /\ t \in Tasks
        /\ \A n \in 1..(Len(queue) - 1) : queue'[n] = queue[n + 1]
    BY TailFacts DEF TypeOK, Done
  <1>2. CountInv' /\ inFlight' \in Nat
    <2>1. Cardinality(Places(queue))
            = Cardinality(Places(queue')) + (IF t.kind \in Controls THEN 1 ELSE 0)
      BY CountTail DEF TypeOK, Done
    <2>2. Cardinality(Places(queue')) \in Nat
      BY <1>1, PlacesFinite
    <2>3. phase # "ended"
      BY DEF QueueInv
    <2> QED BY <2>1, <2>2, <2>3 DEF CountInv, TypeOK, Done
  <1>3. tombs' \in [Inputs -> {"none", "pending", "settled"}]
    BY <1>1, TaskFields DEF Done, TypeOK
  <1>4. reg' = "idle" /\ late' = FALSE
    BY DEF Done
  <1>5. QueueInv'
    <2>1. t.kind = "leave" => queue' = <<>>
      BY <1>1 DEF QueueInv, TypeOK
    <2>2. phase # "ended"
      BY DEF QueueInv
    <2>3. ASSUME NEW n \in 1..Len(queue'), queue'[n].kind = "leave"
          PROVE  n = Len(queue') /\ phase' = "closing"
      <3>1. n + 1 \in 1..Len(queue) /\ queue[n + 1].kind = "leave"
        BY <1>1, <2>3
      <3>2. n + 1 = Len(queue) /\ phase = "closing"
        BY <3>1 DEF QueueInv
      <3> QED BY <1>1, <2>1, <2>3, <3>2
    <2> QED BY <1>4, <2>1, <2>2, <2>3 DEF QueueInv
  <1> QED BY <1>1, <1>2, <1>3, <1>4, <1>5

\* What controlError makes of the errors, over the code alone: only check() and a
\* refusal of the bridge are told as refusals, and a command that was given up or
\* a connection that is lost never is.
LEMMA ControlAnswers ==
    /\ \A code : ControlError(code) \in Answers \ {"ok"}
    /\ \A code \in LostCodes \cup SendCodes : ControlError(code) = "indeterminate"
  BY DEF ControlError, Answers, Refusals, LostCodes, SendCodes

\* An answer keeps the type of `told'.
LEMMA AnswerType ==
    ASSUME TypeOK, NEW t \in Tasks, NEW a \in Answers, Answer(t, a)
    PROVE  told' \in [Inputs -> SUBSET Answers]
  BY TaskFields DEF TypeOK, Answer

LEMMA BaseStep == BaseInv /\ [Next]_vars => BaseInv'
  <1> SUFFICES ASSUME BaseInv, [Next]_vars PROVE BaseInv'
    OBVIOUS
  <1> USE LimitAssumption
  <1>0. TypeOK /\ QueueInv /\ CountInv
    BY DEF BaseInv
  <1>1. CASE Connect
    <2>1. QueueInv' /\ CountInv'
      <3>1. queue' = <<>> /\ Places(queue') = {}
        BY <1>0, <1>1 DEF Connect, QueueInv, Places
      <3> QED BY <1>0, <1>1, <3>1, FS_EmptySet DEF Connect, QueueInv, CountInv
    <2>2. TypeOK'
      BY <1>0, <1>1 DEF Connect, TypeOK, memoryVars
    <2> QED BY <2>1, <2>2 DEF BaseInv
  <1>2. CASE Close
    <2>1. queue' \in Seq(Tasks) /\ QueueInv' /\ CountInv' /\ inFlight' \in Nat
      <3>1. Task("leave", Nil, Nil) \in Tasks /\ Task("leave", Nil, Nil).kind = "leave"
        BY TaskTypes, TaskParts
      <3> QED BY <1>2, <3>1, PushStep DEF Close, Controls
    <2>2. TypeOK'
      BY <1>0, <1>2, <2>1 DEF Close, TypeOK, memoryVars
    <2> QED BY <2>1, <2>2 DEF BaseInv
  <1>3. CASE Crash
    <2>1. QueueInv' /\ CountInv'
      BY <1>3 DEF Crash, QueueInv, CountInv
    <2>2. late' \in BOOLEAN /\ poisoned' \in BOOLEAN
      BY <1>3, Zenon DEF Crash
    <2>3. TypeOK'
      BY <1>0, <1>3, <2>2 DEF Crash, TypeOK
    <2> QED BY <2>1, <2>3 DEF BaseInv
  <1>4. ASSUME NEW c \in Clients, RequestClaim(c) PROVE BaseInv'
    <2>1. queue' \in Seq(Tasks) /\ QueueInv' /\ CountInv' /\ inFlight' \in Nat
      <3>1. /\ Task("claim", c, Nil) \in Tasks
            /\ Task("claim", c, Nil).kind = "claim"
        BY TaskTypes, TaskParts
      <3> QED BY <1>4, <3>1, PushStep DEF RequestClaim, Enqueue, Controls, connVars
    <2>2. TypeOK'
      BY <1>0, <1>4, <2>1 DEF RequestClaim, TypeOK, connVars, memoryVars
    <2> QED BY <2>1, <2>2 DEF BaseInv
  <1>5. ASSUME NEW c \in Clients, RequestRelease(c) PROVE BaseInv'
    <2>1. queue' \in Seq(Tasks) /\ QueueInv' /\ CountInv' /\ inFlight' \in Nat
      <3>1. /\ Task("release", c, Nil) \in Tasks
            /\ Task("release", c, Nil).kind = "release"
        BY TaskTypes, TaskParts
      <3> QED BY <1>5, <3>1, PushStep DEF RequestRelease, Enqueue, Controls, connVars
    <2>2. TypeOK'
      BY <1>0, <1>5, <2>1 DEF RequestRelease, TypeOK, connVars, memoryVars
    <2> QED BY <2>1, <2>2 DEF BaseInv
  <1>6. ASSUME NEW c \in Clients, Revoke(c) PROVE BaseInv'
    <2>1. queue' \in Seq(Tasks) /\ QueueInv' /\ CountInv' /\ inFlight' \in Nat
      <3>1. /\ Task("forget", c, Nil) \in Tasks
            /\ Task("forget", c, Nil).kind = "forget"
        BY TaskTypes, TaskParts
      <3> QED BY <1>6, <3>1, PushStep DEF Revoke, Enqueue, Controls, connVars
    <2>2. TypeOK'
      BY <1>0, <1>6, <2>1 DEF Revoke, TypeOK, connVars, memoryVars
    <2> QED BY <2>1, <2>2 DEF BaseInv
  <1>7. ASSUME NEW i \in Inputs, RequestInput(i) PROVE BaseInv'
    <2>1. UNCHANGED <<connVars, reg, late, lease, taken, verdict, told>> /\ phase = "ready"
      BY <1>7 DEF RequestInput
    <2>0. inFlight < MaxInFlight
      BY <1>0, <1>7 DEF RequestInput, DoorShut, TypeOK
    <2>2. PICK kept \in [Inputs -> {"none", "pending", "settled"}] :
            \/ /\ reserved' = reserved \cup {i} /\ UNCHANGED poisoned
               /\ tombs' = [kept EXCEPT ![i] = "pending"] /\ inFlight < MaxInFlight
               /\ inFlight' = inFlight + 1 /\ queue' = Append(queue, Task("input", i[1], i))
            \/ /\ reserved' \in {reserved, reserved \cup {i}} /\ poisoned' = TRUE
               /\ tombs' = kept
               /\ UNCHANGED <<queue, inFlight>>
      BY <1>7, <2>0, Zenon DEF RequestInput, Enqueue
    <2>3. queue' \in Seq(Tasks) /\ QueueInv' /\ CountInv' /\ inFlight' \in Nat
      <3>1. CASE queue' = Append(queue, Task("input", i[1], i))
                 /\ inFlight < MaxInFlight /\ inFlight' = inFlight + 1
        <4>1. Task("input", i[1], i) \in Tasks /\ Task("input", i[1], i).kind = "input"
          BY TaskTypes, TaskParts
        <4> QED BY <2>1, <3>1, <4>1, PushStep DEF Controls, connVars
      <3>2. CASE UNCHANGED <<queue, inFlight>>
        BY <1>0, <2>1, <3>2 DEF TypeOK, QueueInv, CountInv, connVars
      <3> QED BY <2>2, <3>1, <3>2
    <2>4. tombs' \in [Inputs -> {"none", "pending", "settled"}]
          /\ reserved' \subseteq Inputs
      BY <1>0, <2>2 DEF TypeOK
    <2>5. poisoned' \in BOOLEAN
      BY <1>0, <2>2 DEF TypeOK
    <2>6. TypeOK'
      BY <1>0, <2>1, <2>3, <2>4, <2>5 DEF TypeOK, connVars
    <2> QED BY <2>3, <2>6 DEF BaseInv
  <1>8. ASSUME NEW i \in Inputs, RepeatInput(i) PROVE BaseInv'
    <2>1. QueueInv' /\ CountInv'
      BY <1>0, <1>8 DEF RepeatInput, QueueInv, CountInv, connVars, queueVars
    <2>2. tombs' \in [Inputs -> {"none", "pending", "settled"}]
      BY <1>0, <1>8 DEF RepeatInput, Prune, TypeOK
    <2>4. TypeOK'
      BY <1>0, <1>8, <2>2 DEF RepeatInput, TypeOK, connVars, queueVars
    <2> QED BY <2>1, <2>4 DEF BaseInv
  <1>9. ASSUME NEW t \in Tasks, SkipHead(t) PROVE BaseInv'
    <2>1. /\ queue' \in Seq(Tasks) /\ QueueInv' /\ CountInv' /\ inFlight' \in Nat
          /\ reg' = "idle" /\ late' = FALSE
          /\ tombs' \in [Inputs -> {"none", "pending", "settled"}]
      BY <1>9, PopStep DEF SkipHead, Waiting, Controls, connVars
    <2>2. told' \in [Inputs -> SUBSET Answers]
      BY <1>0, <1>9, AnswerType DEF SkipHead, Answers
    <2>3. TypeOK'
      BY <1>0, <1>9, <2>1, <2>2 DEF SkipHead, TypeOK, connVars
    <2> QED BY <2>1, <2>3 DEF BaseInv
  <1>10. ASSUME NEW t \in Tasks, StartClaim(t) PROVE BaseInv'
    <2>1. queue # <<>> /\ t = Head(queue) /\ phase = "ready" /\ phase' = phase
          /\ t.kind \in Controls /\ reg = "idle"
      BY <1>10 DEF StartClaim, MayStart, Waiting, Controls, connVars
    <2>2. /\ queue' \in Seq(Tasks) /\ QueueInv' /\ CountInv' /\ inFlight' \in Nat
          /\ reg' \in {"idle", "chained"} /\ late' \in BOOLEAN
          /\ tombs' \in [Inputs -> {"none", "pending", "settled"}]
      <3>1. CASE Done(t)
        BY <2>1, <3>1, PopStep DEF Controls
      <3>2. CASE reg' = "chained" /\ UNCHANGED <<queue, late, inFlight, tombs>>
        BY <1>0, <2>1, <3>2 DEF TypeOK, QueueInv, CountInv
      <3> QED BY <1>10, <3>1, <3>2 DEF StartClaim, CallRegistry
    <2>3. clients' \subseteq Clients /\ owners' \in [Clients -> 0..MaxConnects]
      BY <1>0, <1>10, TaskFields DEF StartClaim, TypeOK
    <2>4. TypeOK'
      BY <1>0, <1>10, <2>2, <2>3 DEF StartClaim, TypeOK
    <2> QED BY <2>2, <2>4 DEF BaseInv
  <1>11. ASSUME NEW t \in Tasks, StartRelease(t) PROVE BaseInv'
    <2>1. queue # <<>> /\ t = Head(queue) /\ phase = "ready" /\ phase' = phase
          /\ t.kind \in Controls /\ reg = "idle"
      BY <1>11 DEF StartRelease, MayStart, Waiting, Controls, connVars
    <2>2. /\ queue' \in Seq(Tasks) /\ QueueInv' /\ CountInv' /\ inFlight' \in Nat
          /\ reg' \in {"idle", "chained"} /\ late' \in BOOLEAN
          /\ tombs' \in [Inputs -> {"none", "pending", "settled"}]
      <3>1. CASE Done(t)
        BY <2>1, <3>1, PopStep DEF Controls
      <3>2. CASE reg' = "chained" /\ UNCHANGED <<queue, late, inFlight, tombs>>
        BY <1>0, <2>1, <3>2 DEF TypeOK, QueueInv, CountInv
      <3> QED BY <1>11, <3>1, <3>2 DEF StartRelease, CallRegistry
    <2>3. TypeOK'
      BY <1>0, <1>11, <2>2 DEF StartRelease, TypeOK, connVars
    <2> QED BY <2>2, <2>3 DEF BaseInv
  <1>12. ASSUME NEW t \in Tasks, StartInput(t) PROVE BaseInv'
    <2>1. queue # <<>> /\ t = Head(queue) /\ phase = "ready" /\ phase' = phase
          /\ t.kind \in Controls /\ reg = "idle"
      BY <1>12 DEF StartInput, MayStart, Waiting, Controls, connVars
    <2>2. /\ queue' \in Seq(Tasks) /\ QueueInv' /\ CountInv' /\ inFlight' \in Nat
          /\ reg' \in {"idle", "chained"} /\ late' \in BOOLEAN
          /\ tombs' \in [Inputs -> {"none", "pending", "settled"}]
      <3>1. CASE Done(t)
        BY <2>1, <3>1, PopStep DEF Controls
      <3>2. CASE reg' = "chained" /\ UNCHANGED <<queue, late, inFlight, tombs>>
        BY <1>0, <2>1, <3>2 DEF TypeOK, QueueInv, CountInv
      <3> QED BY <1>12, <3>1, <3>2 DEF StartInput, CallRegistry
    <2>3. told' \in [Inputs -> SUBSET Answers]
      BY <1>0, <1>12, AnswerType, ControlAnswers DEF StartInput, TypeOK
    <2>4. TypeOK'
      BY <1>0, <1>12, <2>2, <2>3 DEF StartInput, TypeOK, connVars
    <2> QED BY <2>2, <2>4 DEF BaseInv
  <1>13. ASSUME NEW t \in Tasks, StartCleanup(t) PROVE BaseInv'
    <2>1. queue # <<>> /\ t = Head(queue) /\ t.kind \notin Controls
      BY <1>13 DEF StartCleanup, Waiting
    <2>2. CASE reg' = "chained" /\ UNCHANGED <<queue, late, inFlight, tombs, owners, clients, phase>>
      <3>1. TypeOK'
        BY <1>0, <1>13, <2>2 DEF StartCleanup, TypeOK
      <3>2. QueueInv' /\ CountInv'
        BY <1>0, <2>1, <2>2 DEF QueueInv, CountInv
      <3> QED BY <3>1, <3>2 DEF BaseInv
    <2>3. CASE CleanedUp(t)
      <3>1. t.kind = "leave" \/ t.kind = "forget"
        BY <1>13, TaskFields DEF StartCleanup
      <3>2. /\ queue' \in Seq(Tasks) /\ QueueInv' /\ CountInv' /\ inFlight' \in Nat
            /\ reg' = "idle" /\ late' = FALSE
            /\ tombs' \in [Inputs -> {"none", "pending", "settled"}]
        BY <2>1, <2>3, PopStep DEF CleanedUp
      <3>3. clients' \subseteq Clients /\ owners' \in [Clients -> 0..MaxConnects]
            /\ phase' \in {"ready", "closing", "ended"}
        BY <1>0, <2>3 DEF CleanedUp, TypeOK
      <3>4. TypeOK'
        BY <1>0, <1>13, <3>2, <3>3 DEF StartCleanup, TypeOK
      <3> QED BY <3>2, <3>4 DEF BaseInv
    <2> QED BY <1>13, <2>2, <2>3 DEF StartCleanup
  <1>14. ASSUME NEW t \in Tasks, SendInput(t) PROVE BaseInv'
    <2>1. taken' \in [Inputs -> Nat]
      BY <1>0, <1>14, TaskFields DEF SendInput, TypeOK
    <2>2. TypeOK'
      BY <1>0, <1>14, <2>1 DEF SendInput, TypeOK, connVars, memoryVars
    <2>3. QueueInv' /\ CountInv'
      BY <1>0, <1>14 DEF SendInput, Running, QueueInv, CountInv, connVars
    <2> QED BY <2>2, <2>3 DEF BaseInv
  <1>15. ASSUME NEW t \in Tasks, ControlTimeout(t) PROVE BaseInv'
    <2>1. told' \in [Inputs -> SUBSET Answers]
      BY <1>0, <1>15, AnswerType DEF ControlTimeout, Answers
    <2>2. TypeOK'
      BY <1>0, <1>15, <2>1 DEF ControlTimeout, TypeOK, connVars, memoryVars
    <2>3. QueueInv' /\ CountInv'
      BY <1>0, <1>15 DEF ControlTimeout, Running, QueueInv, CountInv, connVars
    <2> QED BY <2>2, <2>3 DEF BaseInv
  <1>16. ASSUME NEW t \in Tasks, SettleClaim(t) PROVE BaseInv'
    <2>1. /\ queue' \in Seq(Tasks) /\ QueueInv' /\ CountInv' /\ inFlight' \in Nat
          /\ reg' = "idle" /\ late' = FALSE
          /\ tombs' \in [Inputs -> {"none", "pending", "settled"}]
      BY <1>16, PopStep DEF SettleClaim, Running, Controls, connVars
    <2>2. lease' \in Clients \cup {Local, Nil}
      BY <1>0, <1>16, TaskFields DEF SettleClaim, TypeOK
    <2>3. TypeOK'
      BY <1>0, <1>16, <2>1, <2>2 DEF SettleClaim, TypeOK, connVars
    <2> QED BY <2>1, <2>3 DEF BaseInv
  <1>17. ASSUME NEW t \in Tasks, SettleRelease(t) PROVE BaseInv'
    <2>1. /\ queue' \in Seq(Tasks) /\ QueueInv' /\ CountInv' /\ inFlight' \in Nat
          /\ reg' = "idle" /\ late' = FALSE
          /\ tombs' \in [Inputs -> {"none", "pending", "settled"}]
      BY <1>17, PopStep DEF SettleRelease, Running, Controls, connVars
    <2>2. TypeOK'
      BY <1>0, <1>17, <2>1 DEF SettleRelease, TypeOK, connVars
    <2> QED BY <2>1, <2>2 DEF BaseInv
  <1>18. ASSUME NEW t \in Tasks, SettleInput(t) PROVE BaseInv'
    <2>1. /\ queue' \in Seq(Tasks) /\ QueueInv' /\ CountInv' /\ inFlight' \in Nat
          /\ reg' = "idle" /\ late' = FALSE
          /\ tombs' \in [Inputs -> {"none", "pending", "settled"}]
      BY <1>18, PopStep DEF SettleInput, Running, Controls, connVars
    <2>2. told' \in [Inputs -> SUBSET Answers]
      BY <1>0, <1>18, AnswerType, ControlAnswers DEF SettleInput, Answers
    <2>3. TypeOK'
      BY <1>0, <1>18, <2>1, <2>2 DEF SettleInput, TypeOK, connVars
    <2> QED BY <2>1, <2>3 DEF BaseInv
  <1>19. ASSUME NEW t \in Tasks, SettleCleanup(t) PROVE BaseInv'
    <2>1. queue # <<>> /\ t = Head(queue) /\ t.kind \notin Controls
      BY <1>19 DEF SettleCleanup, Running
    <2>3. CASE CleanedUp(t)
      <3>1. t.kind = "leave" \/ t.kind = "forget"
        BY <1>19, TaskFields DEF SettleCleanup
      <3>2. /\ queue' \in Seq(Tasks) /\ QueueInv' /\ CountInv' /\ inFlight' \in Nat
            /\ reg' = "idle" /\ late' = FALSE
            /\ tombs' \in [Inputs -> {"none", "pending", "settled"}]
        BY <2>1, <2>3, PopStep DEF CleanedUp
      <3>3. clients' \subseteq Clients /\ owners' \in [Clients -> 0..MaxConnects]
            /\ phase' \in {"ready", "closing", "ended"}
        BY <1>0, <2>3 DEF CleanedUp, TypeOK
      <3>4. TypeOK'
        BY <1>0, <1>19, <3>2, <3>3 DEF SettleCleanup, TypeOK
      <3> QED BY <3>2, <3>4 DEF BaseInv
    <2> QED BY <1>19, <2>3 DEF SettleCleanup
  <1>20. CASE LocalClaims \/ LeaseEnds
    BY <1>0, <1>20 DEF LocalClaims, LeaseEnds, BaseInv, TypeOK, QueueInv, CountInv, connVars,
       queueVars, memoryVars
  <1>21. ASSUME NEW i \in Inputs, PiDecides(i) PROVE BaseInv'
    <2>1. verdict' \in [Inputs -> {"none", "accepted", "refused"}]
      BY <1>0, <1>21 DEF PiDecides, TypeOK
    <2>2. TypeOK'
      BY <1>0, <1>21, <2>1 DEF PiDecides, TypeOK, connVars, queueVars, memoryVars
    <2>3. QueueInv' /\ CountInv'
      BY <1>0, <1>21 DEF PiDecides, QueueInv, CountInv, connVars, queueVars
    <2> QED BY <2>2, <2>3 DEF BaseInv
  <1>22. CASE UNCHANGED vars
    BY <1>0, <1>22 DEF vars, BaseInv, TypeOK, QueueInv, CountInv, connVars, queueVars,
       memoryVars
  <1> QED
    BY <1>1, <1>2, <1>3, <1>4, <1>5, <1>6, <1>7, <1>8, <1>9, <1>10, <1>11, <1>12, <1>13,
       <1>14, <1>15, <1>16, <1>17, <1>18, <1>19, <1>20, <1>21, <1>22 DEF Next,
       HeadStep

\* Every variable of the connector keeps its type; inFlight never falls below 0.
THEOREM ControlTypes == Spec => []TypeOK
  <1>1. BaseInv => TypeOK
    BY DEF BaseInv
  <1> QED BY BaseInit, BaseStep, <1>1, PTL DEF Spec

-----------------------------------------------------------------------------
(* Inputs: the queue, the journal and the answers *)

At(q, n, i) == n \in 1..Len(q) /\ q[n].kind = "input" /\ q[n].input = i

LEMMA AtAppend ==
    ASSUME NEW q \in Seq(Tasks), NEW t \in Tasks
    PROVE  \A n, i : At(Append(q, t), n, i) <=>
             \/ At(q, n, i)
             \/ n = Len(q) + 1 /\ t.kind = "input" /\ t.input = i
  BY AppendFacts DEF At

LEMMA AtTail ==
    ASSUME NEW q \in Seq(Tasks), q # <<>>
    PROVE  /\ \A n, i : At(Tail(q), n, i) => n \in Nat \ {0} /\ At(q, n + 1, i)
           /\ \A n \in Nat \ {0}, i \in Inputs : At(q, n + 1, i) => At(Tail(q), n, i)
           /\ \A i : At(q, 1, i) <=> Head(q).kind = "input" /\ Head(q).input = i
           /\ \A n, i : At(q, n, i) => n = 1 \/ (n - 1 \in Nat \ {0} /\ n = (n - 1) + 1)
  BY TailFacts DEF At

\* Each input is queued once at most.
QueuedOnce ==
    \A i \in Inputs : \A m, n \in Nat : At(queue, m, i) /\ At(queue, n, i) => m = n

\* What was never reserved was never queued, sent or answered.
UnreservedInv ==
    \A i \in Inputs :
        i \notin reserved => /\ taken[i] = 0 /\ told[i] = {} /\ verdict[i] = "none"
                             /\ \A n \in Nat : ~At(queue, n, i)

\* An input in the queue is unsent, unless it is the head and in Pi's hands, and
\* unanswered, unless it is the head and its time is over.
UnsentInv ==
    \A i \in Inputs : \A n \in Nat :
        At(queue, n, i) =>
            /\ ~(n = 1 /\ reg = "sent") => taken[i] = 0 /\ verdict[i] = "none"
            /\ n = 1 /\ late => told[i] \subseteq {"indeterminate"}
            /\ ~(n = 1 /\ late) => told[i] = {}

\* Pi has refused the input, or has not been sent it.
Harmless(i) == verdict[i] = "refused" \/ (taken[i] = 0 /\ verdict[i] = "none")

\* The answers are true, and there is only one.
AnswerInv ==
    \A i \in Inputs :
        /\ "ok" \in told[i] => verdict[i] = "accepted"
        /\ told[i] \cap Refusals # {} => Harmless(i)
        /\ \A a, b \in told[i] : a = b

TombInv == \A i \in Inputs : tombs[i] = "pending" <=> \E n \in Nat : At(queue, n, i)

InputInv == QueuedOnce /\ UnreservedInv /\ UnsentInv /\ AnswerInv /\ TombInv

LEMMA InputInit == Init => InputInv
  BY DEF Init, InputInv, QueuedOnce, UnreservedInv,
     UnsentInv, AnswerInv, Harmless, TombInv, At

\* A task that is no input joins the queue.
LEMMA PushOther ==
    ASSUME BaseInv, InputInv, NEW t \in Tasks, t.kind # "input",
           queue' = Append(queue, t),
           UNCHANGED <<reg, late, tombs, reserved, taken, verdict, told>>
    PROVE  InputInv'
  <1>1. \A n, i : At(queue', n, i) <=> At(queue, n, i)
    BY AtAppend DEF BaseInv, TypeOK
  <1> QED BY <1>1 DEF InputInv, QueuedOnce, UnreservedInv,
     UnsentInv, AnswerInv, Harmless, TombInv

\* The head leaves the queue, answered or not.
LEMMA PopInput ==
    ASSUME BaseInv, InputInv, queue # <<>>, NEW t, t = Head(queue), Done(t),
           UNCHANGED <<reserved, taken, verdict>>,
           \/ told' = told
           \/ /\ t.kind = "input" /\ ~late
              /\ \E a \in Answers :
                   /\ told' = [told EXCEPT ![t.input] = @ \cup {a}]
                   /\ a = "ok" => verdict[t.input] = "accepted"
                   /\ a \in Refusals => Harmless(t.input)
    PROVE  InputInv'
  <1> USE DEF InputInv
  <1>0. TypeOK /\ t \in Tasks /\ (t.kind = "input" => t.input \in Inputs)
    BY TailFacts, TaskFields DEF BaseInv, TypeOK
  <1>1. \A n, i : At(queue', n, i) => n \in Nat \ {0} /\ At(queue, n + 1, i)
    BY <1>0, AtTail DEF Done, TypeOK
  <1>2. \A i \in Inputs : At(queue, 1, i) <=> t.kind = "input" /\ t.input = i
    BY <1>0, AtTail DEF TypeOK
  <1>3. \A i \in Inputs, n \in Nat : At(queue, n, i) => n = 1 \/ At(queue', n - 1, i)
    <2> SUFFICES ASSUME NEW i \in Inputs, NEW n \in Nat, At(queue, n, i), n # 1
                 PROVE  At(queue', n - 1, i)
      OBVIOUS
    <2>1. queue \in Seq(Tasks) /\ queue' = Tail(queue)
      BY <1>0 DEF Done, TypeOK
    <2>2. n - 1 \in Nat \ {0} /\ (n - 1) + 1 = n
      BY DEF At
    <2> QED BY <2>1, <2>2, AtTail
  <1>4. ASSUME NEW i \in Inputs, NEW n \in Nat, At(queue', n, i)
        PROVE  /\ ~(t.kind = "input" /\ t.input = i)
               /\ taken[i] = 0 /\ verdict[i] = "none" /\ told[i] = {} /\ told'[i] = {}
    <2>1. At(queue, n + 1, i) /\ n + 1 # 1 /\ n + 1 \in Nat /\ 1 \in Nat
      BY <1>1, <1>4
    <2>2. ~At(queue, 1, i)
      BY <2>1 DEF QueuedOnce
    <2>3. taken[i] = 0 /\ verdict[i] = "none" /\ told[i] = {}
      BY <2>1 DEF UnsentInv
    <2> QED BY <1>0, <1>2, <2>2, <2>3 DEF TypeOK
  <1>5. QueuedOnce'
    <2> SUFFICES ASSUME NEW i \in Inputs, NEW m \in Nat, NEW n \in Nat,
                        At(queue', m, i), At(queue', n, i)
                 PROVE  m = n
      BY DEF QueuedOnce
    <2>1. At(queue, m + 1, i) /\ At(queue, n + 1, i)
      BY <1>1
    <2> QED BY <2>1 DEF QueuedOnce
  <1>6. UnreservedInv'
    <2> SUFFICES ASSUME NEW i \in Inputs, i \notin reserved
                 PROVE  /\ taken[i] = 0 /\ told'[i] = {} /\ verdict[i] = "none"
                        /\ \A n \in Nat : ~At(queue', n, i)
      BY DEF UnreservedInv
    <2>1. /\ taken[i] = 0 /\ told[i] = {} /\ verdict[i] = "none"
          /\ \A n \in Nat : ~At(queue, n, i)
      BY DEF UnreservedInv
    <2>2. ~(t.kind = "input" /\ t.input = i)
      BY <1>2, <2>1
    <2>3. told'[i] = {}
      BY <1>0, <2>1, <2>2 DEF TypeOK
    <2> QED BY <1>1, <2>1, <2>3
  <1>7. UnsentInv'
    BY <1>4 DEF UnsentInv, Done
  <1>8. AnswerInv'
    <2> SUFFICES ASSUME NEW i \in Inputs
                 PROVE  /\ "ok" \in told'[i] => verdict[i] = "accepted"
                        /\ told'[i] \cap Refusals # {} => Harmless(i)
                        /\ \A a, b \in told'[i] : a = b
      BY DEF AnswerInv, Harmless
    <2>1. CASE told'[i] = told[i]
      BY <2>1 DEF AnswerInv
    <2>2. CASE told'[i] # told[i]
      <3>1. t.kind = "input" /\ ~late /\ t.input = i
        BY <1>0, <2>2 DEF TypeOK
      <3>2. told[i] = {}
        BY <1>2, <3>1 DEF UnsentInv
      <3>3. PICK a \in Answers : /\ told' = [told EXCEPT ![t.input] = @ \cup {a}]
                                 /\ a = "ok" => verdict[t.input] = "accepted"
                                 /\ a \in Refusals => Harmless(t.input)
        BY <2>2
      <3>4. told'[i] = {a}
        BY <1>0, <3>1, <3>2, <3>3 DEF TypeOK
      <3> QED BY <3>1, <3>3, <3>4
    <2> QED BY <2>1, <2>2
  <1>9. TombInv'
    <2> SUFFICES ASSUME NEW i \in Inputs
                 PROVE  tombs'[i] = "pending" <=> \E n \in Nat : At(queue', n, i)
      BY DEF TombInv
    <2>1. tombs[i] = "pending" <=> \E n \in Nat : At(queue, n, i)
      BY DEF TombInv
    <2>2. CASE t.kind = "input" /\ t.input = i
      <3>1. tombs'[i] # "pending"
        BY <1>0, <2>2 DEF Done, TypeOK
      <3> QED BY <1>4, <2>2, <3>1
    <2>3. CASE ~(t.kind = "input" /\ t.input = i)
      <3>1. tombs'[i] = tombs[i]
        BY <1>0, <2>3 DEF Done, TypeOK
      <3>2. \A n \in Nat : At(queue', n, i) => n + 1 \in Nat /\ At(queue, n + 1, i)
        BY <1>1
      <3>3. \A n \in Nat : At(queue, n, i) => n - 1 \in Nat /\ At(queue', n - 1, i)
        BY <1>2, <1>3, <2>3 DEF At
      <3> QED BY <2>1, <3>1, <3>2, <3>3
    <2> QED BY <2>2, <2>3
  <1> QED BY <1>5, <1>6, <1>7, <1>8, <1>9

\* The state of an input that is about to run or to be answered.
LEMMA HeadInput ==
    ASSUME BaseInv, InputInv, queue # <<>>, NEW t \in Tasks, t = Head(queue),
           t.kind = "input"
    PROVE  /\ t.input \in Inputs /\ t.input \in reserved
           /\ \A n \in Nat : At(queue, n, t.input) <=> n = 1
           /\ reg # "sent" => taken[t.input] = 0 /\ verdict[t.input] = "none"
           /\ told[t.input] \subseteq {"indeterminate"}
           /\ ~late => told[t.input] = {}
  <1>1. t.input \in Inputs /\ At(queue, 1, t.input)
    BY TaskFields, AtTail DEF BaseInv, TypeOK
  <1> QED BY <1>1 DEF InputInv, QueuedOnce, UnreservedInv, UnsentInv

LEMMA InputStep == BaseInv /\ InputInv /\ [Next]_vars => InputInv'
  <1> SUFFICES ASSUME BaseInv, InputInv, [Next]_vars PROVE InputInv'
    OBVIOUS
  <1>0. TypeOK /\ QueueInv
    BY DEF BaseInv
  <1> DEFINE Same == UNCHANGED <<queue, reg, late, tombs, reserved, taken, verdict, told>>
  <1>a. Same => InputInv'
    BY DEF InputInv, QueuedOnce, UnreservedInv, UnsentInv, AnswerInv, Harmless, TombInv
  <1>1. CASE Connect \/ LocalClaims \/ LeaseEnds \/ UNCHANGED vars
    BY <1>1, <1>a DEF Connect, LocalClaims, LeaseEnds, vars, queueVars, memoryVars
  <1>2. CASE Close
    <2>1. Task("leave", Nil, Nil) \in Tasks /\ Task("leave", Nil, Nil).kind = "leave"
      BY TaskTypes, TaskParts
    <2> QED BY <1>2, <2>1, PushOther DEF Close, memoryVars
  <1>3. CASE Crash
    <2>1. \A i \in Inputs : \A n \in Nat : ~At(queue', n, i)
      BY <1>3 DEF Crash, At
    <2>2. \A i \in Inputs : tombs'[i] = "none"
      BY <1>3 DEF Crash
    <2> QED BY <1>3, <2>1, <2>2 DEF Crash, InputInv, QueuedOnce, UnreservedInv,
               UnsentInv, AnswerInv, Harmless, TombInv
  <1>4. ASSUME NEW c \in Clients, RequestClaim(c) \/ RequestRelease(c) \/ Revoke(c)
        PROVE  InputInv'
    <2>1. /\ \A k \in {"claim", "release", "forget"} : Task(k, c, Nil) \in Tasks
          /\ \A k : Task(k, c, Nil).kind = k
      BY TaskTypes, TaskParts
    <2>2. \E k \in {"claim", "release", "forget"} : queue' = Append(queue, Task(k, c, Nil))
      BY <1>4 DEF RequestClaim, RequestRelease, Revoke, Enqueue
    <2>3. UNCHANGED <<reg, late, tombs, reserved, taken, verdict, told>>
      BY <1>4 DEF RequestClaim, RequestRelease, Revoke, memoryVars
    <2> QED BY <2>1, <2>2, <2>3, PushOther
  <1>5. ASSUME NEW i \in Inputs, RequestInput(i) PROVE InputInv'
    <2>1. i \notin reserved /\ UNCHANGED <<reg, late, taken, verdict, told>>
      BY <1>5 DEF RequestInput
    <2>2. PICK kept \in [Inputs -> {"none", "pending", "settled"}] :
            /\ Prune(kept)
            /\ \/ /\ reserved' = reserved \cup {i}
                  /\ tombs' = [kept EXCEPT ![i] = "pending"]
                  /\ queue' = Append(queue, Task("input", i[1], i))
               \/ /\ reserved' \in {reserved, reserved \cup {i}} /\ tombs' = kept
                  /\ UNCHANGED queue
      BY <1>5, Zenon DEF RequestInput, Enqueue
    <2>3. \A j \in Inputs : kept[j] = "pending" <=> tombs[j] = "pending"
      BY <2>2 DEF Prune
    <2>4. CASE UNCHANGED queue
      <3>1. tombs' = kept /\ reserved' \in {reserved, reserved \cup {i}}
        <4>1. Append(queue, Task("input", i[1], i)) # queue
          BY <1>0, TaskTypes, AppendFacts DEF TypeOK
        <4> QED BY <2>2, <2>4, <4>1
      <3> QED BY <2>1, <2>3, <2>4, <3>1 DEF InputInv, QueuedOnce, UnreservedInv,
                 UnsentInv, AnswerInv, Harmless, TombInv
    <2>5. CASE /\ reserved' = reserved \cup {i}
               /\ tombs' = [kept EXCEPT ![i] = "pending"]
               /\ queue' = Append(queue, Task("input", i[1], i))
      <3>1. \A n \in Nat, j \in Inputs :
              At(queue', n, j) <=> At(queue, n, j) \/ (n = Len(queue) + 1 /\ j = i)
        <4>1. /\ Task("input", i[1], i) \in Tasks /\ Task("input", i[1], i).kind = "input"
              /\ Task("input", i[1], i).input = i
          BY TaskTypes, TaskParts
        <4>2. queue \in Seq(Tasks)
          BY <1>0 DEF TypeOK
        <4> QED BY <2>5, <4>1, <4>2, AtAppend
      <3>2. \A n \in Nat : ~At(queue, n, i)
        BY <2>1 DEF InputInv, UnreservedInv
      <3>3. /\ taken[i] = 0 /\ verdict[i] = "none" /\ told[i] = {}
        BY <2>1 DEF InputInv, UnreservedInv
      <3>4. QueuedOnce'
        BY <3>1, <3>2 DEF InputInv, QueuedOnce
      <3>5. UnreservedInv'
        BY <2>1, <2>5, <3>1 DEF InputInv, UnreservedInv
      <3>6. UnsentInv'
        BY <2>1, <3>1, <3>2, <3>3 DEF InputInv, UnsentInv
      <3>7. AnswerInv'
        BY <2>1 DEF InputInv, AnswerInv, Harmless
      <3>8. TombInv'
        <4>1. Len(queue) + 1 \in Nat
          BY <1>0 DEF TypeOK
        <4>2. \A j \in Inputs : tombs'[j] = IF j = i THEN "pending" ELSE kept[j]
          BY <2>5
        <4> QED BY <2>3, <3>1, <4>1, <4>2 DEF InputInv, TombInv
      <3> QED BY <3>4, <3>5, <3>6, <3>7, <3>8 DEF InputInv
    <2> QED BY <2>2, <2>4, <2>5
  <1>6. ASSUME NEW i \in Inputs, RepeatInput(i) PROVE InputInv'
    <2>1. UNCHANGED <<queue, reg, late, reserved, taken, verdict, told>>
      BY <1>6 DEF RepeatInput, queueVars
    <2>2. \A j \in Inputs : tombs'[j] = "pending" <=> tombs[j] = "pending"
      BY <1>6 DEF RepeatInput, Prune
    <2> QED BY <2>1, <2>2 DEF InputInv, QueuedOnce, UnreservedInv,
       UnsentInv, AnswerInv, Harmless, TombInv
  <1>7. ASSUME NEW t \in Tasks, SkipHead(t) PROVE InputInv'
    <2>1. queue # <<>> /\ t = Head(queue) /\ Done(t) /\ UNCHANGED <<reserved, taken, verdict>>
      BY <1>7 DEF SkipHead, Waiting
    <2>2. Answer(t, "indeterminate")
      BY <1>7 DEF SkipHead
    <2>3. "indeterminate" \in Answers /\ "indeterminate" \notin Refusals
      BY DEF Answers, Refusals
    <2> QED BY <2>1, <2>2, <2>3, PopInput DEF Answer
  <1>8. ASSUME NEW t \in Tasks, StartClaim(t) \/ StartRelease(t) PROVE InputInv'
    <2>1. /\ queue # <<>> /\ t = Head(queue) /\ t.kind # "input" /\ reg = "idle"
          /\ UNCHANGED <<reserved, taken, verdict, told>>
      BY <1>8 DEF StartClaim, StartRelease, MayStart, Waiting
    <2>2. CASE Done(t)
      BY <2>1, <2>2, PopInput
    <2>3. CASE reg' = "chained" /\ UNCHANGED <<queue, late, inFlight, tombs>>
      BY <2>1, <2>3 DEF InputInv, QueuedOnce, UnreservedInv,
         UnsentInv, AnswerInv, Harmless, TombInv
    <2> QED BY <1>8, <2>2, <2>3 DEF StartClaim, StartRelease, CallRegistry
  <1>9. ASSUME NEW t \in Tasks, StartInput(t) PROVE InputInv'
    <2>1. /\ queue # <<>> /\ t = Head(queue) /\ t.kind = "input" /\ reg = "idle"
          /\ UNCHANGED <<reserved, taken, verdict>>
      BY <1>9 DEF StartInput, MayStart, Waiting
    <2>2. CASE reg' = "chained" /\ UNCHANGED <<queue, late, inFlight, tombs, told>>
      BY <2>1, <2>2 DEF InputInv, QueuedOnce, UnreservedInv, UnsentInv, AnswerInv, Harmless,
         TombInv
    <2>3. CASE Done(t) /\ \E code \in CheckCodes : Answer(t, ControlError(code))
      <3>1. PICK code \in CheckCodes : Answer(t, ControlError(code))
        BY <2>3
      <3>2. Harmless(t.input)
        BY <2>1, HeadInput DEF Harmless
      <3>3. ControlError(code) \in Answers \ {"ok"}
        BY ControlAnswers
      <3> QED BY <2>1, <2>3, <3>1, <3>2, <3>3, PopInput DEF Answer
    <2> QED BY <1>9, <2>2, <2>3 DEF StartInput, CallRegistry
  <1>10. ASSUME NEW t \in Tasks, StartCleanup(t) \/ SettleCleanup(t) PROVE InputInv'
    <2>1. /\ queue # <<>> /\ t = Head(queue) /\ t.kind # "input"
          /\ UNCHANGED <<reserved, taken, verdict, told>>
      BY <1>10 DEF StartCleanup, SettleCleanup, Waiting, Running, Controls
    <2>2. CASE Done(t)
      BY <2>1, <2>2, PopInput
    <2>3. CASE reg = "idle" /\ reg' = "chained" /\ UNCHANGED <<queue, late, tombs>>
      BY <2>1, <2>3 DEF InputInv, QueuedOnce, UnreservedInv,
         UnsentInv, AnswerInv, Harmless, TombInv
    <2> QED BY <1>10, <2>2, <2>3 DEF StartCleanup, SettleCleanup, CleanedUp, Waiting
  <1>11. ASSUME NEW t \in Tasks, SendInput(t) PROVE InputInv'
    <2>1. /\ queue # <<>> /\ t = Head(queue) /\ t.kind = "input" /\ reg = "chained"
          /\ reg' = "sent" /\ UNCHANGED <<queue, late, tombs, reserved, told>>
          /\ taken' = [taken EXCEPT ![t.input] = @ + 1]
          /\ UNCHANGED verdict
      BY <1>11 DEF SendInput, Running, memoryVars
    <2>2. /\ t.input \in Inputs /\ t.input \in reserved
          /\ \A n \in Nat : At(queue, n, t.input) <=> n = 1
          /\ told[t.input] \subseteq {"indeterminate"}
      BY <2>1, HeadInput
    <2>3. \A j \in Inputs : j # t.input =>
            taken'[j] = taken[j] /\ verdict'[j] = verdict[j]
      BY <1>0, <2>1 DEF TypeOK
    <2>4. QueuedOnce' /\ TombInv'
      BY <2>1 DEF InputInv, QueuedOnce, TombInv
    <2>5. UnreservedInv'
      BY <2>1, <2>2, <2>3 DEF InputInv, UnreservedInv
    <2>6. UnsentInv'
      BY <2>1, <2>2, <2>3 DEF InputInv, UnsentInv
    <2>7. AnswerInv'
      <3>1. told[t.input] \cap Refusals = {}
        BY <2>2 DEF Refusals
      <3> QED BY <2>1, <2>3, <3>1 DEF InputInv, AnswerInv, Harmless
    <2> QED BY <2>4, <2>5, <2>6, <2>7 DEF InputInv
  <1>12. ASSUME NEW t \in Tasks, ControlTimeout(t) PROVE InputInv'
    <2>1. /\ queue # <<>> /\ t = Head(queue) /\ ~late /\ late'
          /\ Answer(t, "indeterminate")
          /\ UNCHANGED <<queue, reg, tombs, reserved, taken, verdict>>
      BY <1>12 DEF ControlTimeout, Running, memoryVars
    <2>2. QueuedOnce' /\ TombInv'
      BY <2>1 DEF InputInv, QueuedOnce, TombInv
    <2>3. CASE told' = told
      BY <2>1, <2>2, <2>3 DEF InputInv, UnreservedInv, UnsentInv, AnswerInv,
         Harmless
    <2>4. CASE /\ t.kind = "input"
               /\ told' = [told EXCEPT ![t.input] = @ \cup {"indeterminate"}]
      <3>1. /\ t.input \in Inputs /\ t.input \in reserved
            /\ \A n \in Nat : At(queue, n, t.input) <=> n = 1
            /\ told[t.input] = {}
        BY <2>1, <2>4, HeadInput
      <3>2. /\ told'[t.input] = {"indeterminate"}
            /\ \A j \in Inputs : j # t.input => told'[j] = told[j]
        BY <1>0, <2>4, <3>1 DEF TypeOK
      <3>3. UnreservedInv'
        BY <2>1, <3>1, <3>2 DEF InputInv, UnreservedInv
      <3>4. UnsentInv'
        BY <2>1, <3>1, <3>2 DEF InputInv, UnsentInv
      <3>5. AnswerInv'
        <4>1. told'[t.input] \cap Refusals = {}
          BY <3>2 DEF Refusals
        <4> QED BY <2>1, <3>2, <4>1 DEF InputInv, AnswerInv, Harmless
      <3> QED BY <2>2, <3>3, <3>4, <3>5 DEF InputInv
    <2> QED BY <2>1, <2>3, <2>4 DEF Answer
  <1>13. ASSUME NEW t \in Tasks, SettleClaim(t) \/ SettleRelease(t) PROVE InputInv'
    BY <1>13, PopInput DEF SettleClaim, SettleRelease, Running
  <1>14. ASSUME NEW t \in Tasks, SettleInput(t) PROVE InputInv'
    <2>1. /\ queue # <<>> /\ t = Head(queue) /\ t.kind = "input" /\ Done(t)
          /\ UNCHANGED <<reserved, taken, verdict>>
      BY <1>14 DEF SettleInput, Running
    <2>2. CASE reg = "sent" /\ verdict[t.input] = "accepted" /\ Answer(t, "ok")
      <3>1. "ok" \in Answers /\ "ok" \notin Refusals
        BY DEF Answers, Refusals
      <3> QED BY <2>1, <2>2, <3>1, PopInput DEF Answer
    <2>3. CASE \E code \in Rejections(t) : Answer(t, ControlError(code))
      <3>1. PICK code \in Rejections(t) : Answer(t, ControlError(code))
        BY <2>3
      <3>2. ControlError(code) \in Answers \ {"ok"}
        BY ControlAnswers
      <3>3. ControlError(code) \in Refusals => Harmless(t.input)
        <4>1. CASE reg = "chained"
          BY <2>1, <4>1, HeadInput DEF Harmless
        <4>2. CASE reg # "chained" /\ code \in LostCodes
          BY <4>2, ControlAnswers DEF Refusals
        <4>3. CASE verdict[t.input] = "refused"
          BY <4>3 DEF Harmless
        <4> QED BY <3>1, <4>1, <4>2, <4>3 DEF Rejections
      <3> QED BY <2>1, <3>1, <3>2, <3>3, PopInput DEF Answer
    <2> QED BY <1>14, <2>2, <2>3 DEF SettleInput
  <1>15. ASSUME NEW i \in Inputs, PiDecides(i) PROVE InputInv'
    <2>1. /\ taken[i] # 0 /\ verdict[i] = "none"
          /\ UNCHANGED <<queue, reg, late, tombs, reserved, taken, told>>
      BY <1>15, <1>0 DEF PiDecides, queueVars, memoryVars, TypeOK
    <2>2. \A j \in Inputs : j # i => verdict'[j] = verdict[j]
      BY <1>0, <1>15 DEF PiDecides, TypeOK
    <2>3. i \in reserved /\ told[i] \cap Refusals = {} /\ "ok" \notin told[i]
      BY <2>1 DEF InputInv, UnreservedInv, AnswerInv, Harmless
    <2>4. QueuedOnce' /\ TombInv'
      BY <2>1 DEF InputInv, QueuedOnce, TombInv
    <2>5. UnreservedInv'
      BY <2>1, <2>2, <2>3 DEF InputInv, UnreservedInv
    <2>6. UnsentInv'
      BY <2>1, <2>2 DEF InputInv, UnsentInv
    <2>7. AnswerInv'
      BY <2>1, <2>2, <2>3 DEF InputInv, AnswerInv, Harmless
    <2> QED BY <2>4, <2>5, <2>6, <2>7 DEF InputInv
  <1> QED
    BY <1>1, <1>2, <1>3, <1>4, <1>5, <1>6, <1>7, <1>8, <1>9, <1>10, <1>11, <1>12, <1>13,
       <1>14, <1>15 DEF Next, HeadStep

LEMMA InputsAlways == Spec => [](BaseInv /\ InputInv)
  BY BaseInit, BaseStep, InputInit, InputStep, PTL DEF Spec

\* What the answers say of an input is true and said once, over every timeout,
\* revocation, lost connection and crash, and whenever Pi decides.
THEOREM AnswersAreTruthful == Spec => []TruthfulAnswers
  <1>1. BaseInv /\ InputInv => TruthfulAnswers
    <2> SUFFICES ASSUME BaseInv, InputInv, NEW i \in Inputs
                 PROVE  /\ "ok" \in told[i] => verdict[i] = "accepted"
                        /\ told[i] \cap Refusals # {} => verdict[i] # "accepted"
                        /\ Cardinality(told[i]) <= 1
      BY DEF TruthfulAnswers
    <2>1. told[i] = {} \/ \E a : told[i] = {a}
      BY DEF InputInv, AnswerInv
    <2>2. Cardinality(told[i]) \in {0, 1}
      BY <2>1, FS_EmptySet, FS_Singleton
    <2> QED BY <2>2 DEF InputInv, AnswerInv, Harmless
  <1> QED BY InputsAlways, <1>1, PTL

\* inFlight and the tombstones follow the queue exactly.
THEOREM RequestsAccounted == Spec => []Accounting
  <1>1. BaseInv /\ InputInv => Accounting
    <2> SUFFICES ASSUME BaseInv, InputInv PROVE Accounting
      OBVIOUS
    <2>1. Occupied = Places(queue)
      BY DEF Occupied, Places
    <2>2. phase = "ready" => inFlight = Cardinality(Occupied) /\ inFlight <= MaxInFlight
      BY <2>1 DEF BaseInv, CountInv
    <2>3. ASSUME NEW i \in Inputs
          PROVE  tombs[i] = "pending" <=>
                   \E n \in DOMAIN queue : queue[n].kind = "input" /\ queue[n].input = i
      <3>1. DOMAIN queue = 1..Len(queue) /\ Len(queue) \in Nat
        BY DEF BaseInv, TypeOK
      <3>2. tombs[i] = "pending" <=> \E n \in Nat : At(queue, n, i)
        BY DEF InputInv, TombInv
      <3> QED BY <3>1, <3>2 DEF At
    <2> QED BY <2>2, <2>3 DEF Accounting
  <1> QED BY InputsAlways, <1>1, PTL

\* The connector implements the ledger: an input is sent at most once, however
\* often the hub repeats it, over every reconnect and crash.
THEOREM ControlIsLedger == Spec => AtMostOnce
  <1>1. Init => Ledger!LedgerInit
    BY DEF Init, Ledger!LedgerInit
  <1>2. BaseInv /\ InputInv /\ [Next]_vars => [Ledger!LedgerNext]_taken
    <2> SUFFICES ASSUME BaseInv, InputInv, [Next]_vars, taken' # taken
                 PROVE  Ledger!LedgerNext
      OBVIOUS
    <2>1. PICK t \in Tasks : SendInput(t)
      BY DEF Next, HeadStep, Connect, Close, Crash, LocalClaims, LeaseEnds, RequestClaim,
         RequestRelease, Revoke, RequestInput, RepeatInput, SkipHead, StartClaim,
         StartRelease, StartInput, StartCleanup, SettleClaim, SettleRelease, SettleInput,
         SettleCleanup, ControlTimeout, PiDecides, vars
    <2>2. t.input \in Inputs /\ taken[t.input] = 0
      BY <2>1, HeadInput DEF SendInput, Running
    <2>3. taken' = [taken EXCEPT ![t.input] = 1]
      BY <2>1, <2>2 DEF SendInput, BaseInv, TypeOK
    <2> QED BY <2>2, <2>3 DEF Ledger!LedgerNext, Ledger!Take
  <1> QED BY InputsAlways, <1>1, <1>2, PTL DEF Spec, AtMostOnce, Ledger!LedgerSpec

-----------------------------------------------------------------------------
(* Leases *)

\* The devices to clean up are those bound to this connection, and only they,
\* or a claim that is still pending for one, may have the lease.
OwnersInv ==
    /\ phase # "ended" =>
         /\ conn # 0
         /\ \A c \in Clients : owners[c] = IF c \in clients THEN conn ELSE 0
    /\ phase = "ended" => \A c \in Clients : owners[c] = 0
    /\ lease \in Clients => phase # "ended" /\ lease \in clients
    /\ queue # <<>> /\ reg # "idle" /\ Head(queue).kind = "claim"
         => Head(queue).by \in clients

\* A revoked device that still has to be cleaned up has its cleanup queued.
RevokedInv ==
    phase = "ready" => \A c \in revoked \cap clients : Forgetting(c)

LeaseInv == OwnersInv /\ RevokedInv

LEMMA LeaseInit == Init => LeaseInv
  BY HolderAssumption DEF Init, LeaseInv, OwnersInv, RevokedInv

LEMMA ForgetAppend ==
    ASSUME queue \in Seq(Tasks), NEW t \in Tasks, queue' = Append(queue, t), NEW c
    PROVE  /\ Forgetting(c) => Forgetting(c)'
           /\ t.kind = "forget" /\ t.by = c => Forgetting(c)'
  BY AppendFacts DEF Forgetting

LEMMA ForgetTail ==
    ASSUME queue \in Seq(Tasks), queue # <<>>, queue' = Tail(queue), NEW c, Forgetting(c)
    PROVE  Forgetting(c)' \/ (Head(queue).kind = "forget" /\ Head(queue).by = c)
  <1>1. PICK n \in 1..Len(queue) : queue[n].kind = "forget" /\ queue[n].by = c
    BY TailFacts DEF Forgetting
  <1>2. CASE n = 1
    BY <1>1, <1>2, TailFacts
  <1>3. CASE n # 1
    <2>1. n - 1 \in 1..(Len(queue) - 1) /\ (n - 1) + 1 = n
      BY <1>3, TailFacts
    <2>2. n - 1 \in DOMAIN queue' /\ queue'[n - 1] = queue[n]
      BY <2>1, TailFacts
    <2> QED BY <1>1, <2>2 DEF Forgetting
  <1> QED BY <1>2, <1>3

\* A task joins the queue.
LEMMA LeasePush ==
    ASSUME BaseInv, LeaseInv, NEW t \in Tasks, queue' = Append(queue, t), phase = "ready",
           UNCHANGED <<reg, conn, clients, owners, lease>>,
           \/ phase' = phase /\ revoked' = revoked
           \/ phase' = phase /\ t.kind = "forget" /\ revoked' = revoked \cup {t.by}
           \/ phase' = "closing"
    PROVE  LeaseInv'
  <1>1. queue \in Seq(Tasks) /\ (queue # <<>> => Head(queue') = Head(queue))
    BY AppendFacts DEF BaseInv, TypeOK
  <1>2. OwnersInv'
    BY <1>1 DEF BaseInv, QueueInv, LeaseInv, OwnersInv
  <1>3. RevokedInv'
    BY <1>1, ForgetAppend DEF LeaseInv, RevokedInv
  <1> QED BY <1>2, <1>3 DEF LeaseInv

\* A control request leaves the queue.
LEMMA LeasePop ==
    ASSUME BaseInv, LeaseInv, queue # <<>>, NEW t, t = Head(queue), t.kind \in Controls,
           Done(t), UNCHANGED <<phase, conn, revoked>>,
           \/ UNCHANGED <<clients, owners>>
           \/ /\ t.by \in Clients /\ t.by \notin revoked
              /\ clients' = clients \cup {t.by} /\ owners' = [owners EXCEPT ![t.by] = conn],
           lease' = lease \/ lease' \notin Clients \/ lease' \in clients
    PROVE  LeaseInv'
  <1>1. queue \in Seq(Tasks) /\ queue' = Tail(queue) /\ reg' = "idle" /\ phase # "ended"
    BY DEF BaseInv, TypeOK, QueueInv, Done
  <1>2. \A c : Forgetting(c) => Forgetting(c)'
    BY <1>1, ForgetTail DEF Controls
  <1>3. OwnersInv'
    BY <1>1 DEF BaseInv, TypeOK, LeaseInv, OwnersInv
  <1>4. RevokedInv'
    BY <1>2 DEF LeaseInv, RevokedInv
  <1> QED BY <1>3, <1>4 DEF LeaseInv

\* A cleanup leaves the queue.
LEMMA LeaseCleaned ==
    ASSUME BaseInv, LeaseInv, queue # <<>>, NEW t \in Tasks, t = Head(queue),
           t.kind \notin Controls, CleanedUp(t), UNCHANGED <<conn, revoked>>,
           lease' \notin Clients \/ (lease' = lease /\ lease \notin Leaving(t))
    PROVE  LeaseInv'
  <1>0. /\ TypeOK /\ queue' = Tail(queue) /\ reg' = "idle" /\ phase # "ended"
        /\ owners' = [c \in Clients |-> IF c \in Leaving(t) THEN 0 ELSE owners[c]]
        /\ clients' = IF t.kind = "forget" THEN clients \ Leaving(t) ELSE clients
        /\ phase' = IF t.kind = "leave" THEN "ended" ELSE phase
    BY DEF BaseInv, QueueInv, CleanedUp, Done
  <1>1. \A c \in Clients : owners[c] = IF c \in clients THEN conn ELSE 0
    BY <1>0 DEF LeaseInv, OwnersInv
  <1>2. CASE t.kind = "forget"
    <2>1. /\ t.by \in Clients /\ clients' = clients \ {t.by}
          /\ \A c \in Clients : c \in Leaving(t) <=> c \in clients /\ c = t.by
      BY <1>0, <1>1, <1>2, TaskFields DEF Leaving, TypeOK
    <2>2. OwnersInv'
      BY <1>0, <1>1, <1>2, <2>1 DEF LeaseInv, OwnersInv
    <2>3. \A c \in Clients : Forgetting(c) /\ c # t.by => Forgetting(c)'
      BY <1>0, ForgetTail DEF TypeOK
    <2>4. RevokedInv'
      BY <1>0, <1>2, <2>1, <2>3 DEF LeaseInv, RevokedInv, TypeOK
    <2> QED BY <2>2, <2>4 DEF LeaseInv
  <1>3. CASE t.kind = "leave"
    <2>1. \A c \in Clients : c \in Leaving(t) <=> c \in clients
      BY <1>1, <1>3 DEF Leaving
    <2>2. lease' \notin Clients
      BY <2>1 DEF LeaseInv, OwnersInv
    <2>3. OwnersInv'
      BY <1>0, <1>1, <1>3, <2>1, <2>2 DEF OwnersInv
    <2> QED BY <1>0, <1>3, <2>3 DEF LeaseInv, RevokedInv
  <1> QED BY <1>2, <1>3, TaskFields DEF Controls

LEMMA LeaseStep == BaseInv /\ LeaseInv /\ [Next]_vars => LeaseInv'
  <1> SUFFICES ASSUME BaseInv, LeaseInv, [Next]_vars PROVE LeaseInv'
    OBVIOUS
  <1> USE HolderAssumption
  <1>0. TypeOK /\ QueueInv
    BY DEF BaseInv
  <1>a. UNCHANGED <<phase, conn, queue, reg, clients, revoked, owners, lease>> => LeaseInv'
    BY DEF LeaseInv, OwnersInv, RevokedInv, Forgetting
  <1>1. CASE Connect
    BY <1>0, <1>1 DEF Connect, QueueInv, TypeOK, LeaseInv, OwnersInv, RevokedInv
  <1>2. CASE Close
    <2>1. Task("leave", Nil, Nil) \in Tasks
      BY TaskTypes
    <2> QED BY <1>2, <2>1, LeasePush DEF Close
  <1>3. CASE Crash
    BY <1>3 DEF Crash, LeaseInv, OwnersInv, RevokedInv
  <1>4. ASSUME NEW c \in Clients, RequestClaim(c) \/ RequestRelease(c) PROVE LeaseInv'
    <2>1. \A k \in {"claim", "release"} : Task(k, c, Nil) \in Tasks
      BY TaskTypes
    <2> QED BY <1>4, <2>1, LeasePush DEF RequestClaim, RequestRelease, Enqueue, connVars
  <1>5. ASSUME NEW c \in Clients, Revoke(c) PROVE LeaseInv'
    <2>1. /\ Task("forget", c, Nil) \in Tasks
          /\ Task("forget", c, Nil).kind = "forget" /\ Task("forget", c, Nil).by = c
      BY TaskTypes, TaskParts
    <2> QED BY <1>5, <2>1, LeasePush DEF Revoke, Enqueue
  <1>6. ASSUME NEW i \in Inputs, RequestInput(i) PROVE LeaseInv'
    <2>1. phase = "ready" /\ UNCHANGED <<connVars, reg, lease>>
      BY <1>6 DEF RequestInput
    <2>2. queue' = Append(queue, Task("input", i[1], i)) \/ UNCHANGED queue
      BY <1>6, Zenon DEF RequestInput, Enqueue
    <2> QED BY <1>a, <2>1, <2>2, TaskTypes, LeasePush DEF connVars
  <1>7. ASSUME NEW i \in Inputs, RepeatInput(i) PROVE LeaseInv'
    BY <1>7, <1>a DEF RepeatInput, connVars, queueVars
  <1>8. ASSUME NEW t \in Tasks, SkipHead(t) \/ SettleInput(t) PROVE LeaseInv'
    BY <1>8, LeasePop DEF SkipHead, SettleInput, Waiting, Running, connVars, Controls
  <1>9. ASSUME NEW t \in Tasks, StartRelease(t) \/ StartInput(t) PROVE LeaseInv'
    <2>1. /\ queue # <<>> /\ t = Head(queue) /\ t.kind \in Controls \ {"claim"}
          /\ UNCHANGED <<connVars, lease>>
      BY <1>9 DEF StartRelease, StartInput, MayStart, Waiting, Controls
    <2>2. CASE Done(t)
      BY <2>1, <2>2, LeasePop DEF connVars
    <2>3. CASE reg' = "chained" /\ UNCHANGED <<queue, late, inFlight, tombs>>
      BY <2>1, <2>3 DEF LeaseInv, OwnersInv, RevokedInv, Forgetting, connVars
    <2> QED BY <1>9, <2>2, <2>3 DEF StartRelease, StartInput, CallRegistry
  <1>10. ASSUME NEW t \in Tasks, StartClaim(t) PROVE LeaseInv'
    <2>1. /\ queue # <<>> /\ t = Head(queue) /\ t.kind = "claim" /\ phase = "ready"
          /\ t.by \in Clients /\ t.by \notin revoked
          /\ clients' = clients \cup {t.by} /\ owners' = [owners EXCEPT ![t.by] = conn]
          /\ UNCHANGED <<phase, conn, revoked, lease>>
      BY <1>10, TaskFields DEF StartClaim, MayStart, Waiting
    <2>2. CASE Done(t)
      BY <2>1, <2>2, LeasePop DEF Controls
    <2>3. CASE reg' = "chained" /\ UNCHANGED <<queue, late, inFlight, tombs>>
      <3>1. OwnersInv'
        BY <1>0, <2>1, <2>3 DEF LeaseInv, OwnersInv, TypeOK
      <3>2. RevokedInv'
        BY <2>1, <2>3 DEF LeaseInv, RevokedInv, Forgetting
      <3> QED BY <3>1, <3>2 DEF LeaseInv
    <2> QED BY <1>10, <2>2, <2>3 DEF StartClaim, CallRegistry
  <1>11. ASSUME NEW t \in Tasks, StartCleanup(t) PROVE LeaseInv'
    <2>1. /\ queue # <<>> /\ t = Head(queue) /\ t.kind \notin Controls
          /\ UNCHANGED <<conn, revoked, lease>>
      BY <1>11 DEF StartCleanup, Waiting
    <2>2. CASE lease \notin Leaving(t) /\ CleanedUp(t)
      BY <2>1, <2>2, LeaseCleaned
    <2>3. CASE reg' = "chained" /\ UNCHANGED <<queue, late, inFlight, tombs, owners, clients, phase>>
      BY <2>1, <2>3 DEF LeaseInv, OwnersInv, RevokedInv, Forgetting, Controls
    <2> QED BY <1>11, <2>2, <2>3 DEF StartCleanup
  <1>12. ASSUME NEW t \in Tasks, SendInput(t) PROVE LeaseInv'
    BY <1>12 DEF SendInput, Running, LeaseInv, OwnersInv, RevokedInv, Forgetting, connVars
  <1>13. ASSUME NEW t \in Tasks, ControlTimeout(t) PROVE LeaseInv'
    BY <1>13, <1>a DEF ControlTimeout, connVars
  <1>14. ASSUME NEW t \in Tasks, SettleClaim(t) PROVE LeaseInv'
    <2>1. queue # <<>> /\ t = Head(queue) /\ t.kind = "claim" /\ reg # "idle" /\ t.by \in clients
      BY <1>14 DEF SettleClaim, Running, LeaseInv, OwnersInv
    <2> QED BY <1>14, <2>1, LeasePop DEF SettleClaim, connVars, Controls
  <1>15. ASSUME NEW t \in Tasks, SettleRelease(t) PROVE LeaseInv'
    BY <1>15, LeasePop DEF SettleRelease, Running, connVars, Controls
  <1>16. ASSUME NEW t \in Tasks, SettleCleanup(t) PROVE LeaseInv'
    BY <1>16, LeaseCleaned DEF SettleCleanup, Running
  <1>17. CASE LocalClaims \/ LeaseEnds
    BY <1>17 DEF LocalClaims, LeaseEnds, LeaseInv, OwnersInv, RevokedInv, Forgetting,
       connVars, queueVars
  <1>18. ASSUME NEW i \in Inputs, PiDecides(i) PROVE LeaseInv'
    BY <1>18, <1>a DEF PiDecides, connVars, queueVars
  <1>19. CASE UNCHANGED vars
    BY <1>19, <1>a DEF vars, connVars, queueVars
  <1> QED
    BY <1>1, <1>2, <1>3, <1>4, <1>5, <1>6, <1>7, <1>8, <1>9, <1>10, <1>11, <1>12, <1>13,
       <1>14, <1>15, <1>16, <1>17, <1>18, <1>19 DEF Next, HeadStep

LEMMA LeasesAlways == Spec => [](BaseInv /\ LeaseInv)
  BY BaseInit, BaseStep, LeaseInit, LeaseStep, PTL DEF Spec

\* No lease of a device, and no binding, outlives the connection that made it,
\* whatever was queued or pending when it closed.
THEOREM NothingOutlivesConnection == Spec => []EndedHoldsNothing
  <1>1. LeaseInv => EndedHoldsNothing
    BY DEF LeaseInv, OwnersInv, EndedHoldsNothing
  <1> QED BY LeasesAlways, <1>1, PTL

\* A revoked device holds nothing once its cleanup has run, whatever claims were
\* queued or pending when it was revoked.
THEOREM NothingOutlivesRevocation == Spec => []RevokedHoldsNothing
  <1>1. BaseInv /\ LeaseInv => RevokedHoldsNothing
    BY DEF BaseInv, TypeOK, LeaseInv, OwnersInv, RevokedInv, RevokedHoldsNothing
  <1> QED BY LeasesAlways, <1>1, PTL
=============================================================================
