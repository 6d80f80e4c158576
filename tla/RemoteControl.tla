--------------------------- MODULE RemoteControl ---------------------------
(***************************************************************************)
(* Remote control over the outbound machine connection                     *)
(* (src/backend/machine-connector.ts, machine-session-outbound.ts): the    *)
(* hub asks on behalf of its devices to claim and release the session and  *)
(* to send inputs to it; the connector fences, reserves, queues and        *)
(* answers.                                                                *)
(*                                                                         *)
(* One live session is controlled.  Of the registry the connector sees the *)
(* lease and promises that settle in their own time (LiveDispatch is the   *)
(* registry itself); of the journal, reserve(), which accepts an id once   *)
(* and for ever (ReplayJournal).  The hub is external: it sends and repeats*)
(* requests as it likes, and connections and the process may end at any    *)
(* moment.  Pi is external too: it accepts or refuses an input in its own  *)
(* time, whatever the registry has made of the input by then.  Handlers    *)
(* are synchronous and are one step each; the steps of the head of the     *)
(* queue are separated by awaits.                                          *)
(***************************************************************************)
EXTENDS Naturals, Sequences, FiniteSets

CONSTANTS
    Clients,      \* devices
    Requests,     \* request ids; an input is a device and a request id
    Local,        \* a browser of this dashboard, which may also hold the lease
    Nil,          \* nobody
    MaxInFlight,  \* control requests in flight (16 in the code)
    MaxConnects,  \* bound: connections
    MaxQueue      \* bound: length of the dispatch queue

Inputs == Clients \X Requests

ASSUME HolderAssumption == {Local, Nil} \cap Clients = {} /\ Local # Nil
ASSUME LimitAssumption ==
    MaxInFlight \in Nat \ {0} /\ MaxConnects \in Nat /\ MaxQueue \in Nat

VARIABLES
    phase,      \* "ready", "closing", "ended": `closed' has resolved
    conn,       \* which connection this is, `owner'
    queue,      \* dispatchTail: what is chained, the head being run
    reg,        \* the head in the registry: "idle", "chained", "sent" to Pi
    late,       \* the head was answered `indeterminate' by the control timeout
    inFlight,
    clients,    \* devices whose lease this connection has to release
    revoked,
    owners,     \* activeClientOwners: connection by device, 0 for none
    tombs,      \* inputTombstones
    reserved,   \* ids in the journal
    poisoned,   \* the journal gave up
    lease,      \* who holds the registry's lease
    taken,      \* how often each input was sent to Pi
    verdict,    \* what Pi made of each input
    told        \* answers given to the requests that were queued

connVars   == <<phase, conn, clients, revoked, owners>>
queueVars  == <<queue, reg, late, inFlight>>
memoryVars == <<tombs, reserved, poisoned>>
vars == <<connVars, queueVars, memoryVars, lease, taken, verdict, told>>

Controls == {"claim", "release", "input"}
\* "forget" is the cleanup after a revocation, "leave" that after the close.
Tasks == [kind : {"claim", "release"}, by : Clients, input : {Nil}]
         \cup [kind : {"input"}, by : Clients, input : Inputs]
         \cup [kind : {"forget"}, by : Clients, input : {Nil}]
         \cup [kind : {"leave"}, by : {Nil}, input : {Nil}]
\* Answers that say that the input did not reach its target.
Refusals == {"lease_invalid", "conflict", "stale_target"}
Answers == {"ok", "indeterminate"} \cup Refusals

TypeOK ==
    /\ phase \in {"ready", "closing", "ended"} /\ conn \in 0..MaxConnects
    /\ queue \in Seq(Tasks) /\ reg \in {"idle", "chained", "sent"}
    /\ late \in BOOLEAN /\ inFlight \in Nat
    /\ clients \subseteq Clients /\ revoked \subseteq Clients
    /\ owners \in [Clients -> 0..MaxConnects]
    /\ tombs \in [Inputs -> {"none", "pending", "settled"}]
    /\ reserved \subseteq Inputs /\ poisoned \in BOOLEAN
    /\ lease \in Clients \cup {Local, Nil}
    /\ taken \in [Inputs -> Nat]
    /\ verdict \in [Inputs -> {"none", "accepted", "refused"}]
    /\ told \in [Inputs -> SUBSET Answers]

Init ==
    /\ phase = "ended" /\ conn = 0
    /\ queue = <<>> /\ reg = "idle" /\ late = FALSE /\ inFlight = 0
    /\ clients = {} /\ revoked = {} /\ owners = [c \in Clients |-> 0]
    /\ tombs = [i \in Inputs |-> "none"] /\ reserved = {} /\ poisoned = FALSE
    /\ lease = Nil /\ taken = [i \in Inputs |-> 0]
    /\ verdict = [i \in Inputs |-> "none"] /\ told = [i \in Inputs |-> {}]

Task(kind, c, i) == [kind |-> kind, by |-> c, input |-> i]

Enqueue(t) == /\ Len(queue) < MaxQueue
              /\ queue' = Append(queue, t)

-----------------------------------------------------------------------------
(* The connection *)

\* startMachineOutbound connects again only when the last `closed' resolved.
Connect ==
    /\ phase = "ended" /\ conn < MaxConnects
    /\ phase' = "ready" /\ conn' = conn + 1
    /\ clients' = {} /\ revoked' = {} /\ inFlight' = 0
    /\ UNCHANGED <<queue, reg, late, owners, memoryVars, lease, taken, verdict, told>>

\* fail() and close(): releaseClients follows what is queued.
Close ==
    /\ phase = "ready"
    /\ phase' = "closing"
    /\ queue' = Append(queue, Task("leave", Nil, Nil))
    /\ UNCHANGED <<conn, clients, revoked, owners, reg, late, inFlight, memoryVars,
                   lease, taken, verdict, told>>

\* The dashboard dies.  Only the journal is left, and what Pi has received.
Crash ==
    /\ phase' = "ended" /\ queue' = <<>> /\ reg' = "idle" /\ late' = FALSE
    /\ inFlight' = 0 /\ clients' = {} /\ revoked' = {}
    /\ owners' = [c \in Clients |-> 0]
    /\ tombs' = [i \in Inputs |-> "none"] /\ poisoned' = FALSE
    /\ lease' = Nil
    /\ UNCHANGED <<conn, reserved, taken, verdict, told>>

-----------------------------------------------------------------------------
(* Requests of the hub *)

HasLease(c) == lease = c                              \* hasRemoteLease

\* The early returns of the message handler that refuse an input.
DoorShut(c) == inFlight >= MaxInFlight \/ owners[c] # conn \/ ~HasLease(c)

\* Bug: a tombstone is dropped whatever its state.
BugPrune(kept) == kept \in [Inputs -> {"none", "pending", "settled"}]
                  /\ \A i \in Inputs : kept[i] \in {tombs[i], "none"}
\* pruneTombstones, and the eviction when there are too many.
Prune(kept) ==
    /\ kept \in [Inputs -> {"none", "pending", "settled"}]
    /\ \A i \in Inputs : \/ kept[i] = tombs[i]
                         \/ tombs[i] = "settled" /\ kept[i] = "none"

\* claim_session
RequestClaim(c) ==
    /\ phase = "ready" /\ c \notin revoked
    /\ inFlight < MaxInFlight /\ owners[c] \in {0, conn}
    /\ Enqueue(Task("claim", c, Nil)) /\ inFlight' = inFlight + 1
    /\ UNCHANGED <<connVars, reg, late, memoryVars, lease, taken, verdict, told>>

\* release_session
RequestRelease(c) ==
    /\ phase = "ready" /\ c \notin revoked
    /\ inFlight < MaxInFlight /\ owners[c] = conn
    /\ Enqueue(Task("release", c, Nil)) /\ inFlight' = inFlight + 1
    /\ UNCHANGED <<connVars, reg, late, memoryVars, lease, taken, verdict, told>>

\* Bug: the journal is asked when the input is run.
BugRequestInput(i) ==
    /\ phase = "ready" /\ i[1] \notin revoked /\ ~DoorShut(i[1]) /\ ~poisoned
    /\ tombs[i] = "none"
    /\ tombs' = [tombs EXCEPT ![i] = "pending"]
    /\ reserved' = reserved \cup {i}
    /\ inFlight' = inFlight + 1 /\ Enqueue(Task("input", i[1], i))
    /\ UNCHANGED <<connVars, reg, late, poisoned, lease, taken, verdict, told>>

\* send_input with an id that is new; when the journal fails, the id may or may
\* not be in it.
RequestInput(i) ==
    /\ phase = "ready" /\ i[1] \notin revoked /\ ~DoorShut(i[1])
    /\ i \notin reserved /\ ~poisoned
    /\ \E kept \in [Inputs -> {"none", "pending", "settled"}] :
         /\ Prune(kept) /\ kept[i] = "none"
         /\ \/ /\ reserved' = reserved \cup {i} /\ UNCHANGED poisoned
               /\ tombs' = [kept EXCEPT ![i] = "pending"]
               /\ inFlight' = inFlight + 1 /\ Enqueue(Task("input", i[1], i))
            \/ /\ reserved' \in {reserved, reserved \cup {i}} /\ poisoned' = TRUE
               /\ tombs' = kept
               /\ UNCHANGED <<queue, inFlight>>
    /\ UNCHANGED <<connVars, reg, late, lease, taken, verdict, told>>

\* send_input with an id that was used before: nothing is queued, whatever the
\* answer.  Looking for the id prunes the tombstones.
RepeatInput(i) ==
    /\ phase = "ready" /\ i \in reserved /\ i[1] \notin revoked /\ ~DoorShut(i[1])
    /\ Prune(tombs')
    /\ UNCHANGED <<connVars, queueVars, reserved, poisoned, lease, taken, verdict, told>>

\* revoke_client: acknowledged at once, cleaned up in its turn.
Revoke(c) ==
    /\ phase = "ready"
    /\ revoked' = revoked \cup {c}
    /\ Enqueue(Task("forget", c, Nil))
    /\ UNCHANGED <<phase, conn, clients, owners, reg, late, inFlight, memoryVars,
                   lease, taken, verdict, told>>

-----------------------------------------------------------------------------
(* Running the queue *)

\* Bug: a lost connection is answered like a session that is gone.
BugControlError(code) ==
    CASE code = "invalid_lease" -> "lease_invalid"
      [] code = "session_already_claimed" -> "conflict"
      [] code \in {"live_session_not_found", "live_session_unavailable",
                  "live_session_disconnected"} -> "stale_target"
      [] OTHER -> "indeterminate"
\* controlError; `command_timeout', and an error that is not the registry's,
\* are among the others.
ControlError(code) ==
    CASE code = "invalid_lease" -> "lease_invalid"
      [] code = "session_already_claimed" -> "conflict"
      [] code \in {"live_session_not_found", "live_session_unavailable"} -> "stale_target"
      [] OTHER -> "indeterminate"

\* The codes of check() in sendRemoteInput: of a target that changed, of another
\* holder or an earlier lease of the device.
CheckCodes == {"live_session_unavailable", "invalid_lease"}

\* The codes of transport.send, which throws before anything is written.
SendCodes == {"connection_closed", "command_too_large"}

\* The codes with which the registry gives up a command that it has sent.
LostCodes == {"command_timeout", "live_session_reconnected", "live_session_disconnected",
              "live_session_detached", "broker_stopped"}

\* The codes of a bridge that answers `ok: false': its own, or like the registry's.
BridgeCodes == {"command_failed", "invalid_lease", "session_already_claimed",
                "live_session_not_found", "live_session_unavailable"}

\* A result for the head, sent once and only while the connection is ready.
Answer(t, a) ==
    told' = IF t.kind = "input" /\ phase = "ready" /\ ~late
            THEN [told EXCEPT ![t.input] = @ \cup {a}] ELSE told

\* Bug: a cleanup is counted off as well.
BugDone(t) ==
    /\ queue' = Tail(queue) /\ reg' = "idle" /\ late' = FALSE
    /\ inFlight' = inFlight - 1
    /\ tombs' = IF t.kind = "input" /\ tombs[t.input] # "none"
                THEN [tombs EXCEPT ![t.input] = "settled"] ELSE tombs

\* The promise of the head settles and the next run() is called.
Done(t) ==
    /\ queue' = Tail(queue) /\ reg' = "idle" /\ late' = FALSE
    /\ inFlight' = IF t.kind \in Controls THEN inFlight - 1 ELSE inFlight
    /\ tombs' = IF t.kind = "input" /\ tombs[t.input] # "none"
                THEN [tombs EXCEPT ![t.input] = "settled"] ELSE tombs

\* The head is t, run() has not called the registry yet.
Waiting(t) == queue # <<>> /\ t = Head(queue) /\ reg = "idle"

\* The head is t, its promise is pending in the registry.
Running(t) == queue # <<>> /\ t = Head(queue) /\ reg # "idle"

\* The early returns of run(): nothing reaches the registry.  The target of a
\* claim or a release may have gone.
SkipHead(t) ==
    /\ Waiting(t) /\ t.kind \in Controls
    /\ phase # "ready" \/ t.by \in revoked \/ t.kind # "input"
    /\ Answer(t, "indeterminate") /\ Done(t)
    /\ UNCHANGED <<connVars, reserved, poisoned, lease, taken, verdict>>

MayStart(t) == Waiting(t) /\ phase = "ready" /\ t.by \notin revoked

\* The call of the registry: chained in its dispatch queue, or settled at once.
CallRegistry(t, chained) ==
    IF chained THEN reg' = "chained" /\ UNCHANGED <<queue, late, inFlight, tombs>>
               ELSE Done(t)

\* Bug: the device is not remembered for the cleanup.
BugStartClaim(t) ==
    /\ MayStart(t) /\ t.kind = "claim"
    /\ clients' = clients /\ owners' = [owners EXCEPT ![t.by] = conn]
    /\ CallRegistry(t, lease = Nil)
    /\ UNCHANGED <<phase, conn, revoked, reserved, poisoned, lease, taken, verdict, told>>

\* Remembered before the call, so also when the answer stays uncertain.
StartClaim(t) ==
    /\ MayStart(t) /\ t.kind = "claim"
    /\ clients' = clients \cup {t.by} /\ owners' = [owners EXCEPT ![t.by] = conn]
    /\ CallRegistry(t, lease = Nil)
    /\ UNCHANGED <<phase, conn, revoked, reserved, poisoned, lease, taken, verdict, told>>

StartRelease(t) ==
    /\ MayStart(t) /\ t.kind = "release"
    /\ CallRegistry(t, lease = t.by)
    /\ UNCHANGED <<connVars, reserved, poisoned, lease, taken, verdict, told>>

\* check() of sendRemoteInput passes, and the input is chained, or it throws.
StartInput(t) ==
    /\ MayStart(t) /\ t.kind = "input"
    /\ \/ HasLease(t.by) /\ CallRegistry(t, TRUE) /\ UNCHANGED told
       \/ /\ \E code \in CheckCodes : Answer(t, ControlError(code))
          /\ CallRegistry(t, FALSE)
    /\ UNCHANGED <<connVars, reserved, poisoned, lease, taken, verdict>>

\* Bug: a revocation only fences, and leaves the lease to the close.
BugLeaving(t) == IF t.kind = "forget" THEN {} ELSE {c \in clients : owners[c] = conn}

\* The devices of which a cleanup releases the lease.
Leaving(t) == {c \in clients : owners[c] = conn /\ (t.kind = "forget" => c = t.by)}

\* Bug: `closed' is not resolved.
BugCleanedUp(t) ==
    /\ Done(t)
    /\ owners' = [c \in Clients |-> IF c \in Leaving(t) THEN 0 ELSE owners[c]]
    /\ clients' = IF t.kind = "forget" THEN clients \ Leaving(t) ELSE clients
    /\ phase' = phase

\* What follows `await releaseByBrowser' in a cleanup.
CleanedUp(t) ==
    /\ Done(t)
    /\ owners' = [c \in Clients |-> IF c \in Leaving(t) THEN 0 ELSE owners[c]]
    /\ clients' = IF t.kind = "forget" THEN clients \ Leaving(t) ELSE clients
    /\ phase' = IF t.kind = "leave" THEN "ended" ELSE phase

\* releaseClients, or the cleanup of revoke_client: releaseByBrowser only calls
\* the registry for a lease that is held.
StartCleanup(t) ==
    /\ Waiting(t) /\ t.kind \notin Controls
    /\ IF lease \in Leaving(t)
       THEN reg' = "chained" /\ UNCHANGED <<queue, late, inFlight, tombs, owners, clients, phase>>
       ELSE CleanedUp(t)
    /\ UNCHANGED <<conn, revoked, reserved, poisoned, lease, taken, verdict, told>>

\* The registry looks at the lease again and sends.
SendInput(t) ==
    /\ Running(t) /\ reg = "chained" /\ t.kind = "input" /\ HasLease(t.by)
    /\ reg' = "sent"
    /\ taken' = [taken EXCEPT ![t.input] = @ + 1]
    /\ UNCHANGED <<connVars, queue, late, inFlight, memoryVars, lease, verdict, told>>

\* Pi accepts or refuses what it was sent, at any time and also when nobody
\* waits for it any more; it may never do so.
PiDecides(i) ==
    /\ taken[i] > 0 /\ verdict[i] = "none"
    /\ \E v \in {"accepted", "refused"} : verdict' = [verdict EXCEPT ![i] = v]
    /\ UNCHANGED <<connVars, queueVars, memoryVars, lease, taken, told>>

\* 12 seconds have passed: answered, but the queue waits for the promise.
ControlTimeout(t) ==
    /\ Running(t) /\ t.kind \in Controls /\ ~late
    /\ Answer(t, "indeterminate") /\ late' = TRUE
    /\ UNCHANGED <<connVars, queue, reg, inFlight, memoryVars, lease, taken, verdict>>

SettleClaim(t) ==
    /\ Running(t) /\ t.kind = "claim"
    /\ \/ lease = Nil /\ lease' = t.by
       \/ UNCHANGED lease
    /\ Done(t)
    /\ UNCHANGED <<connVars, reserved, poisoned, taken, verdict, told>>

\* release() clears the lease in a `finally', whoever holds it by now.
SettleRelease(t) ==
    /\ Running(t) /\ t.kind = "release"
    /\ lease' = Nil /\ Done(t)
    /\ UNCHANGED <<connVars, reserved, poisoned, taken, verdict, told>>

SettleCleanup(t) ==
    /\ Running(t) /\ t.kind \notin Controls
    /\ lease' = Nil /\ CleanedUp(t)
    /\ UNCHANGED <<conn, revoked, reserved, poisoned, taken, verdict, told>>

\* The errors with which the registry's promise for an input may be rejected.
Rejections(t) ==
    IF reg = "chained" THEN CheckCodes \cup SendCodes
    ELSE LostCodes \cup {code \in BridgeCodes : verdict[t.input] = "refused"}

\* Resolved by `ok: true' of the bridge, or rejected.
SettleInput(t) ==
    /\ Running(t) /\ t.kind = "input"
    /\ \/ reg = "sent" /\ verdict[t.input] = "accepted" /\ Answer(t, "ok")
       \/ \E code \in Rejections(t) : Answer(t, ControlError(code))
    /\ Done(t)
    /\ UNCHANGED <<connVars, reserved, poisoned, lease, taken, verdict>>

-----------------------------------------------------------------------------
(* The rest of the dashboard *)

LocalClaims ==
    /\ lease = Nil /\ lease' = Local
    /\ UNCHANGED <<connVars, queueVars, memoryVars, taken, verdict, told>>

\* Expiry, the release of a browser, or the end of the session.
LeaseEnds ==
    /\ lease # Nil /\ lease' = Nil
    /\ UNCHANGED <<connVars, queueVars, memoryVars, taken, verdict, told>>

-----------------------------------------------------------------------------
HeadStep ==
    \E t \in Tasks : \/ SkipHead(t) \/ StartClaim(t) \/ StartRelease(t)
                     \/ StartInput(t) \/ StartCleanup(t)
                     \/ SettleClaim(t) \/ SettleRelease(t) \/ SettleInput(t)
                     \/ SettleCleanup(t)

Next ==
    \/ Connect \/ Close \/ Crash \/ LocalClaims \/ LeaseEnds
    \/ \E c \in Clients : RequestClaim(c) \/ RequestRelease(c) \/ Revoke(c)
    \/ \E i \in Inputs : RequestInput(i) \/ RepeatInput(i) \/ PiDecides(i)
    \/ HeadStep
    \/ \E t \in Tasks : SendInput(t) \/ ControlTimeout(t)

Spec == Init /\ [][Next]_vars

\* Promise continuations run, and every promise of the registry settles: its
\* commands time out (LiveDispatch!CommandsSettle).
FairSpec == Spec /\ WF_vars(HeadStep)

-----------------------------------------------------------------------------
Ledger == INSTANCE InputLedger WITH Inputs <- Inputs, taken <- taken

\* Whatever the hub repeats, over reconnects and crashes, an input is sent to Pi
\* at most once (inputTombstones and reserve()).
AtMostOnce == Ledger!LedgerSpec

\* The answer to an input never misleads: `ok' only when Pi accepted it; after a
\* definite refusal (controlError) Pi has not accepted it and never will, though
\* it may still hold inputs of which the registry knows no more; and there is no
\* second answer after the control timeout (run()).
TruthfulAnswers ==
    \A i \in Inputs : /\ "ok" \in told[i] => verdict[i] = "accepted"
                      /\ told[i] \cap Refusals # {} => verdict[i] # "accepted"
                      /\ Cardinality(told[i]) <= 1

Occupied == {n \in DOMAIN queue : queue[n].kind \in Controls}

\* inFlight is the number of control requests that are queued, so the limit is
\* neither exceeded nor eaten up by lost decrements; a tombstone is pending
\* exactly as long as its input is queued, so that no eviction drops it.
Accounting ==
    /\ phase = "ready" => inFlight = Cardinality(Occupied) /\ inFlight <= MaxInFlight
    /\ \A i \in Inputs :
         tombs[i] = "pending" <=>
           \E n \in DOMAIN queue : queue[n].kind = "input" /\ queue[n].input = i

\* When `closed' has resolved, and a new connection may be made, no lease of a
\* remote device is left and no device is bound to the old connection (cleanup
\* waits for the queue, and for a claim that was answered as uncertain).
EndedHoldsNothing ==
    phase = "ended" => lease \notin Clients /\ \A c \in Clients : owners[c] = 0

Forgetting(c) == \E n \in DOMAIN queue : queue[n].kind = "forget" /\ queue[n].by = c

\* Once the cleanup of a revocation has run, the device holds nothing on this
\* connection, whatever claims were queued or pending when it arrived.
RevokedHoldsNothing ==
    \A c \in revoked : phase = "ready" /\ ~Forgetting(c) => lease # c /\ c \notin clients

\* A revoked device loses its lease (the queue gets to its cleanup).
RevocationCompletes == \A c \in Clients : c \in revoked /\ lease = c ~> lease # c

\* `closed' resolves, so startMachineOutbound can connect again or stop.
CloseEnds == phase = "closing" ~> phase = "ended"
=============================================================================
