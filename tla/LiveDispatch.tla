---------------------------- MODULE LiveDispatch ----------------------------
(***************************************************************************)
(* One entry of the live-session registry                                  *)
(* (src/backend/live-sessions/registry.ts), from the connect that creates  *)
(* it to the detach that removes it: its connections, the chain of         *)
(* commands it dispatches to the pi bridge, the remote-control lease, and  *)
(* the exclusive operations that must have the session to themselves.      *)
(*                                                                         *)
(* The backend is one JavaScript thread.  A socket message, a timer or an  *)
(* HTTP request is a macrotask; the continuations of settled promises are  *)
(* microtasks that all run before the next macrotask, which is what        *)
(* Drained says.  Time is abstracted: an armed timer may fire at any       *)
(* moment.  The bridge is external: it grants and ends leases and answers  *)
(* as it likes.  Its messages arrive in order, so that each is modelled    *)
(* as sent at the moment it is handled; what happens to a message lost     *)
(* with its connection is a step of the bridge that nobody hears of.       *)
(*                                                                         *)
(* Numbering a command by the order of issue, `after' is the command whose *)
(* promise was entry.dispatchTail when it was chained.  A lease is named   *)
(* by the claim command that obtained it.                                  *)
(*                                                                         *)
(* A definition whose name begins with Bug is a plausible mistake in the   *)
(* definition below it; it shows which property notices the mistake.       *)
(***************************************************************************)
EXTENDS Naturals

CONSTANTS
    Sessions,     \* pi session ids one process goes through (/clear, /ls-fork)
    Clients,      \* browsers and remote devices that claim and send
    Operations,   \* callers of withExclusiveSession
    MaxCommands,  \* bound: commands issued during the life of the entry
    MaxConnects,  \* bound: connections of the bridge
    MaxSwitches,  \* bound: session switches
    Nil           \* no session, no owner, no operation

ASSUME BoundsAssumption ==
    MaxCommands \in Nat /\ MaxConnects \in Nat \ {0} /\ MaxSwitches \in Nat
ASSUME NilAssumption == Nil \notin Sessions /\ Nil \notin Clients

VARIABLES
    present,         \* the entry is in LiveSessionRegistry.entries
    attached,        \* a snapshot has been applied: attached and summary set
    session,         \* summary.sessionId
    link,            \* the current transport: "open", "broken", "closed"
    connects,        \* which transport is the current one
    generation,      \* bumped by a reconnect and by a session switch
    switches,        \* session switches so far (for the bound)
    awaitingResync,
    grace,           \* reconnectTimer is armed
    issued,          \* number of commands chained so far
    info,            \* what each command was issued with
    st,              \* where each command stands
    tail,            \* dispatchTail: 0 is the resolved promise
    sentAt,          \* the connection and session each command was sent to
    owner,           \* leaseOwner
    claim,           \* summary.claim.leaseId, 0 when unclaimed
    lapsed,          \* summary.claim.expiresAt is in the past
    leaseTimer,      \* leaseTimer is armed
    op,              \* the exclusive operations
    held,            \* the bridge: the lease it holds, 0 for none
    executed         \* the bridge: the claim commands it has answered

connVars  == <<present, attached, session, link, connects, generation,
               switches, awaitingResync, grace>>
chainVars == <<issued, info, st, tail, sentAt>>
leaseVars == <<owner, claim, lapsed, leaseTimer>>
bridgeVars == <<held, executed>>
vars      == <<connVars, chainVars, leaseVars, op, bridgeVars>>

Commands == 1..MaxCommands
Kinds    == {"plain", "input", "claim", "renew", "release"}
Settled  == {"resolved", "rejected", "done"}

Info == [kind : Kinds, by : Clients \cup {Nil}, lease : 0..MaxCommands,
         session : Sessions \cup {Nil}, gen : 0..(MaxConnects + MaxSwitches),
         conn : 0..MaxConnects, after : 0..MaxCommands]

Blank == [kind |-> "plain", by |-> Nil, lease |-> 0, session |-> Nil,
          gen |-> 0, conn |-> 0, after |-> 0]

OpState == [phase : {"idle", "waiting", "running", "over"},
            session : Sessions \cup {Nil}, tail : 0..MaxCommands,
            conn : 0..MaxConnects]

TypeOK ==
    /\ present \in BOOLEAN /\ attached \in BOOLEAN
    /\ session \in Sessions \cup {Nil}
    /\ link \in {"open", "broken", "closed"}
    /\ connects \in 0..MaxConnects
    /\ switches \in 0..MaxSwitches
    /\ generation \in 0..(MaxConnects + MaxSwitches)
    /\ awaitingResync \in BOOLEAN /\ grace \in BOOLEAN
    /\ issued \in 0..MaxCommands
    /\ info \in [Commands -> Info]
    /\ st \in [Commands -> {"unused", "queued", "inflight"} \cup Settled]
    /\ tail \in 0..MaxCommands
    /\ sentAt \in [Commands -> [conn : 0..MaxConnects,
                                session : Sessions \cup {Nil}]]
    /\ owner \in Clients \cup {Nil}
    /\ claim \in 0..MaxCommands
    /\ lapsed \in BOOLEAN /\ leaseTimer \in BOOLEAN
    /\ op \in [Operations -> OpState]
    /\ held \in 0..MaxCommands /\ executed \in SUBSET Commands

-----------------------------------------------------------------------------
(* State formulas *)

InFlight == {c \in Commands : st[c] = "inflight"}   \* Entry.pending

Sent(c) == sentAt[c].conn # 0

\* exclusiveSessionIds: added before the wait, deleted in the finally.
Exclusive == {op[o].session : o \in {p \in Operations :
                                       op[p].phase \in {"waiting", "running"}}}

\* The preconditions of dispatch().
Available ==
    /\ present /\ attached /\ ~awaitingResync
    /\ session \notin Exclusive

\* requireLease(): the caller owns the claim the summary shows.
HoldsLease(cl) == owner = cl /\ claim # 0

\* entry.generation++
Bump == generation + 1

\* check() of sendRemoteInput, for a command issued with this information.
RemoteCheck(i) ==
    /\ present /\ attached /\ ~awaitingResync
    /\ i.session \notin Exclusive
    /\ generation = i.gen
    /\ session = i.session
    /\ owner = i.by /\ claim = i.lease /\ claim # 0
    /\ ~lapsed

\* A promise whose turn has come: the chained run() of a queued command, ...
PromiseSettled(c) == c # 0 => st[c] \in Settled
BugCanStart(c) == st[c] = "queued"        \* Bug: run() is not chained.
CanStart(c)  == st[c] = "queued" /\ PromiseSettled(info[c].after)
\* ... the code after the caller's await (its reaction is registered after
\* that of the next chained run, and therefore runs after it), ...
CanResume(c) ==
    /\ st[c] \in {"resolved", "rejected"}
    /\ \A d \in Commands : st[d] = "queued" => info[d].after # c
\* ... and the await of withExclusiveSession.
BugCanWake(o) == op[o].phase = "waiting"  \* Bug: the tail is not awaited.
BugCanWakeIfPresent(o) ==                 \* Bug: a detached entry is forgotten.
    op[o].phase = "waiting" /\ present /\ PromiseSettled(op[o].tail)
CanWake(o)   == op[o].phase = "waiting" /\ PromiseSettled(op[o].tail)

Drained ==
    /\ \A c \in Commands : ~CanStart(c) /\ ~CanResume(c)
    /\ \A o \in Operations : ~CanWake(o)

-----------------------------------------------------------------------------
(* Effects shared by several handlers *)

\* Bug: the summary keeps showing the claim.
BugClearLease == /\ owner' = Nil /\ leaseTimer' = FALSE
                 /\ UNCHANGED <<claim, lapsed>>

\* clearLease
ClearLease ==
    /\ owner' = Nil /\ claim' = 0
    /\ lapsed' = FALSE /\ leaseTimer' = FALSE

\* rejectPending
RejectPending ==
    st' = [c \in Commands |-> IF st[c] = "inflight" THEN "rejected" ELSE st[c]]

\* Chain n commands that all carry the information i: dispatchTail.then(run).
Chain(n, i) ==
    /\ issued + n <= MaxCommands
    /\ issued' = issued + n
    /\ st' = [c \in Commands |-> IF c \in (issued + 1)..(issued + n)
                                 THEN "queued" ELSE st[c]]
    /\ info' = [c \in Commands |->
                  IF c \in (issued + 1)..(issued + n)
                  THEN [i EXCEPT !.after = IF c = issued + 1 THEN tail ELSE c - 1]
                  ELSE info[c]]
    /\ tail' = IF n = 0 THEN tail ELSE issued + n
    /\ UNCHANGED sentAt

Ticket(kind, cl, lease) ==
    [kind |-> kind, by |-> cl, lease |-> lease, session |-> session,
     gen |-> generation, conn |-> connects, after |-> 0]

\* Bug: the lease and its timer outlive the entry.
BugDetachEffects ==
    /\ present' = FALSE /\ grace' = FALSE /\ link' = "closed"
    /\ RejectPending
    /\ UNCHANGED <<attached, session, connects, generation, switches, leaseVars,
                   awaitingResync, issued, info, tail, sentAt, op, bridgeVars>>

\* detach: forget the entry, its timers, its lease and its pending commands.
DetachEffects ==
    /\ present' = FALSE /\ grace' = FALSE /\ link' = "closed"
    /\ ClearLease
    /\ RejectPending
    /\ UNCHANGED <<attached, session, connects, generation, switches,
                   awaitingResync, issued, info, tail, sentAt, op, bridgeVars>>

-----------------------------------------------------------------------------
(* Connections *)

\* connect, the new-entry branch: the state in which the entry is created.
Init ==
    /\ present = TRUE /\ attached = FALSE /\ session = Nil
    /\ link = "open" /\ connects = 1 /\ generation = 0 /\ switches = 0
    /\ awaitingResync = TRUE /\ grace = FALSE
    /\ issued = 0 /\ tail = 0
    /\ info = [c \in Commands |-> Blank]
    /\ st = [c \in Commands |-> "unused"]
    /\ sentAt = [c \in Commands |-> [conn |-> 0, session |-> Nil]]
    /\ owner = Nil /\ claim = 0 /\ lapsed = FALSE /\ leaseTimer = FALSE
    /\ op = [o \in Operations |->
               [phase |-> "idle", session |-> Nil, tail |-> 0, conn |-> 0]]
    /\ held = 0 /\ executed = {}

\* connect, the existing-entry branch.  The chain is not cut: commands that
\* were queued stay queued, and only the tail starts anew.
Reconnect ==
    /\ Drained /\ present /\ connects < MaxConnects
    /\ connects' = connects + 1
    /\ link' = "open" /\ grace' = FALSE
    /\ awaitingResync' = TRUE
    /\ generation' = Bump
    /\ RejectPending
    /\ tail' = 0
    /\ UNCHANGED <<present, attached, session, switches, issued, info, sentAt,
                   leaseVars, op, bridgeVars>>

\* The socket fails: from here on transport.send throws.
SocketFails ==
    /\ Drained /\ present /\ link = "open"
    /\ link' = "broken"
    /\ UNCHANGED <<present, attached, session, connects, generation, switches,
                   awaitingResync, grace, chainVars, leaseVars, op, bridgeVars>>

\* disconnect, from the broker's 'close' handler.
Disconnect ==
    /\ Drained /\ present /\ link = "broken"
    /\ \/ /\ attached
          /\ link' = "closed" /\ awaitingResync' = TRUE /\ grace' = TRUE
          /\ RejectPending
          /\ UNCHANGED <<present, attached, session, connects, generation,
                         switches, issued, info, tail, sentAt, leaseVars, op,
                         bridgeVars>>
       \/ ~attached /\ DetachEffects

\* The reconnect grace period ends.
GraceExpires == Drained /\ present /\ grace /\ DetachEffects

\* goodbye, a protocol rejection, or broker and registry shutdown.
Goodbye == Drained /\ present /\ DetachEffects

\* applySnapshot of an accepted snapshot of session s and the bridge's lease.
\* Lines read before the socket closed are still handled after it.
ApplySnapshot(s) ==
    LET changed  == session # Nil /\ s # session
        owned    == owner # Nil /\ ~changed
        orphaned == ~owned /\ held # 0
        first    == ~attached
        n        == IF s \in Exclusive THEN 0
                    ELSE (IF orphaned THEN 1 ELSE 0) + (IF first THEN 1 ELSE 0)
    IN  /\ Drained /\ present
        /\ changed => switches < MaxSwitches
        /\ session' = s /\ attached' = TRUE /\ awaitingResync' = FALSE
        /\ generation' = IF changed THEN Bump ELSE generation
        /\ switches' = IF changed THEN switches + 1 ELSE switches
        /\ owner' = IF owned THEN owner ELSE Nil
        /\ claim' = IF owned THEN held ELSE 0
        /\ lapsed' = FALSE
        /\ leaseTimer' = (leaseTimer /\ ~changed)
        \* Release the orphaned lease; replay dialogs on the first attach.
        /\ Chain(n, [Ticket("plain", Nil, 0) EXCEPT !.session = s,
                                                    !.gen = generation'])
        /\ UNCHANGED <<present, link, connects, grace, op, bridgeVars>>

\* applyEvent with a sequence that is not the next one.
SequenceGap ==
    /\ Drained /\ present /\ attached /\ ~awaitingResync
    /\ awaitingResync' = TRUE
    /\ UNCHANGED <<present, attached, session, link, connects, generation,
                   switches, grace, chainVars, leaseVars, op, bridgeVars>>

-----------------------------------------------------------------------------
(* Issuing commands *)

Dispatch(kind, cl, lease) ==
    /\ Drained /\ Available
    /\ Chain(1, Ticket(kind, cl, lease))
    /\ UNCHANGED <<connVars, leaseVars, op, bridgeVars>>

\* sendBrowserCommand, reloadAll and the routes' own dispatches.
BrowserCommand == Dispatch("plain", Nil, 0)

\* claim; a session already claimed is answered without any effect.
Claim(cl) == claim = 0 /\ Dispatch("claim", cl, 0)

\* renew
Renew(cl) == HoldsLease(cl) /\ Dispatch("renew", cl, claim)

\* release, also from releaseByBrowser.
Release(cl) == HoldsLease(cl) /\ Dispatch("release", cl, claim)

\* release when dispatch refuses: the finally clears the lease all the same.
ReleaseRefused(cl) ==
    /\ Drained /\ present /\ attached
    /\ HoldsLease(cl) /\ ~Available
    /\ ClearLease
    /\ UNCHANGED <<connVars, chainVars, op, bridgeVars>>

\* sendRemoteInput, up to the point where it is chained.
RemoteInput(cl) ==
    LET ticket == Ticket("input", cl, claim) IN
    /\ Drained /\ RemoteCheck(ticket)
    /\ Chain(1, ticket)
    /\ UNCHANGED <<connVars, leaseVars, op, bridgeVars>>

-----------------------------------------------------------------------------
(* Running commands *)

\* Bug: a remote input is checked when it is chained, and not again.
BugStart(c) ==
    LET goes == link = "open"
    IN  /\ CanStart(c)
        /\ st' = [st EXCEPT ![c] = IF goes THEN "inflight" ELSE "rejected"]
        /\ sentAt' = IF goes
                     THEN [sentAt EXCEPT ![c] = [conn |-> connects,
                                                 session |-> session]]
                     ELSE sentAt
        /\ UNCHANGED <<issued, info, tail, connVars, leaseVars, op, bridgeVars>>

\* run(): a remote input is checked again; dispatchNow registers the command
\* as pending and sends it, and fails at once when the socket does.
Start(c) ==
    LET goes == /\ link = "open"
                /\ info[c].kind = "input" => RemoteCheck(info[c])
    IN  /\ CanStart(c)
        /\ st' = [st EXCEPT ![c] = IF goes THEN "inflight" ELSE "rejected"]
        /\ sentAt' = IF goes
                     THEN [sentAt EXCEPT ![c] = [conn |-> connects,
                                                 session |-> session]]
                     ELSE sentAt
        /\ UNCHANGED <<issued, info, tail, connVars, leaseVars, op, bridgeVars>>

\* handleCommandResult.  The bridge says yes to a claim when it holds no lease,
\* to the renewal of the lease it holds, and to every release.
CommandResult(c) ==
    LET kind  == info[c].kind
        lease == info[c].lease
    IN  /\ Drained /\ present /\ st[c] = "inflight"
        /\ executed' = IF kind = "claim" THEN executed \cup {c} ELSE executed
        /\ \/ /\ kind = "claim" => held = 0
              /\ kind = "renew" => held = lease
              /\ st' = [st EXCEPT ![c] = "resolved"]
              /\ held' = IF kind = "claim" THEN c
                         ELSE IF kind = "release" /\ held = lease THEN 0 ELSE held
           \/ st' = [st EXCEPT ![c] = "rejected"] /\ UNCHANGED held
        /\ UNCHANGED <<issued, info, tail, sentAt, connVars, leaseVars, op>>

\* Bug: no timer.
BugNoTimeout(c) == FALSE /\ st[c] = "inflight" /\ UNCHANGED vars

\* Bug: the timer settles the command as if it had succeeded.
BugTimeoutResolves(c) ==
    /\ Drained /\ st[c] = "inflight"
    /\ st' = [st EXCEPT ![c] = "resolved"]
    /\ UNCHANGED <<issued, info, tail, sentAt, connVars, leaseVars, op, bridgeVars>>

\* The command timer of dispatchNow.
CommandTimeout(c) ==
    /\ Drained /\ st[c] = "inflight"
    /\ st' = [st EXCEPT ![c] = "rejected"]
    /\ UNCHANGED <<issued, info, tail, sentAt, connVars, leaseVars, op, bridgeVars>>

\* Bugs: the fields are swapped; the expiry is not scheduled.
BugResumeClaimSwapped(c) ==
    /\ claim' = info[c].by /\ owner' = c
    /\ lapsed' = FALSE /\ leaseTimer' = TRUE
BugResumeClaimNoTimer(c) ==
    /\ owner' = info[c].by /\ claim' = c
    /\ lapsed' = FALSE /\ UNCHANGED leaseTimer

\* What claim, renew and release do after their await.
ResumeClaim(c) ==
    /\ owner' = info[c].by /\ claim' = c
    /\ lapsed' = FALSE /\ leaseTimer' = TRUE

\* renew only writes expiresAt and re-arms the timer, whatever claim it finds.
ResumeRenew == lapsed' = FALSE /\ leaseTimer' = TRUE /\ UNCHANGED <<owner, claim>>

Resume(c) ==
    LET kind == info[c].kind
        ok   == st[c] = "resolved"
    IN  /\ CanResume(c)
        /\ st' = [st EXCEPT ![c] = "done"]
        /\ \/ kind = "claim" /\ ok /\ ResumeClaim(c)
           \/ kind = "renew" /\ ok /\ ResumeRenew
           \/ kind = "release" /\ ClearLease
           \/ /\ kind \in {"plain", "input"} \/ (kind \in {"claim", "renew"} /\ ~ok)
              /\ UNCHANGED leaseVars
        /\ UNCHANGED <<issued, info, tail, sentAt, connVars, op, bridgeVars>>

-----------------------------------------------------------------------------
(* The lease *)

\* The lease timer of scheduleLeaseExpiry.
LeaseExpires ==
    /\ Drained /\ leaseTimer
    /\ ClearLease
    /\ UNCHANGED <<connVars, chainVars, op, bridgeVars>>

\* Time passes claim.expiresAt.
LeaseLapses ==
    /\ claim # 0 /\ ~lapsed
    /\ lapsed' = TRUE
    /\ UNCHANGED <<owner, claim, leaseTimer, connVars, chainVars, op,
                   bridgeVars>>

\* projectEvent of claim_changed: the bridge tells that it now holds lease l.
\* Nothing is heard of it before a snapshot and during a resync.
Tell(l) ==
    IF attached /\ ~awaitingResync
    THEN /\ Drained
         /\ \/ l = 0 /\ ClearLease
            \/ /\ l # 0 /\ owner # Nil
               /\ claim' = l /\ lapsed' = FALSE /\ leaseTimer' = TRUE
               /\ UNCHANGED owner
            \/ l # 0 /\ owner = Nil /\ UNCHANGED leaseVars
    ELSE UNCHANGED leaseVars

\* The bridge grants a claim that the registry no longer waits for.
BridgeGrants(c) ==
    /\ present /\ held = 0 /\ info[c].kind = "claim" /\ Sent(c)
    /\ c \notin executed /\ c \notin InFlight
    /\ held' = c /\ executed' = executed \cup {c}
    /\ Tell(c)
    /\ UNCHANGED <<connVars, chainVars, op>>

\* Its lease ends: its own expiry, /dashboard-release, a session switch.
BridgeLeaseEnds ==
    /\ present /\ held # 0 /\ held' = 0
    /\ Tell(0)
    /\ UNCHANGED <<connVars, chainVars, op, executed>>

-----------------------------------------------------------------------------
(* withExclusiveSession *)

OpRequest(o) ==
    /\ Drained /\ present /\ attached
    /\ op[o].phase = "idle" /\ session \notin Exclusive
    /\ op' = [op EXCEPT ![o] = [phase |-> "waiting", session |-> session,
                                tail |-> tail, conn |-> connects]]
    /\ UNCHANGED <<connVars, chainVars, leaseVars, bridgeVars>>

\* The tail it waited for settles; the session must still be the same one.
OpWake(o) ==
    /\ CanWake(o)
    /\ op' = [op EXCEPT ![o].phase =
                 IF present /\ attached /\ session = op[o].session
                 THEN "running" ELSE "over"]
    /\ UNCHANGED <<connVars, chainVars, leaseVars, bridgeVars>>

OpEnd(o) ==
    /\ Drained /\ op[o].phase = "running"
    /\ op' = [op EXCEPT ![o].phase = "over"]
    /\ UNCHANGED <<connVars, chainVars, leaseVars, bridgeVars>>

-----------------------------------------------------------------------------

BridgeStep ==
    \/ Reconnect \/ SocketFails \/ Goodbye \/ SequenceGap
    \/ BridgeLeaseEnds
    \/ \E s \in Sessions : ApplySnapshot(s)
    \/ \E c \in Commands : CommandResult(c) \/ BridgeGrants(c)

ClientStep ==
    \/ BrowserCommand
    \/ \E cl \in Clients : \/ Claim(cl) \/ Renew(cl) \/ Release(cl)
                           \/ ReleaseRefused(cl) \/ RemoteInput(cl)
    \/ \E o \in Operations : OpRequest(o)

Microtask ==
    \/ \E c \in Commands : Start(c) \/ Resume(c)
    \/ \E o \in Operations : OpWake(o)

TimerStep ==
    \/ GraceExpires \/ LeaseExpires \/ LeaseLapses
    \/ \E c \in Commands : CommandTimeout(c)

Next == \/ BridgeStep \/ ClientStep \/ Microtask \/ TimerStep
        \/ Disconnect
        \/ \E o \in Operations : OpEnd(o)

\* The event loop runs every microtask and every timer it armed, delivers the
\* close event of a dead socket, and operations end.  Nothing is assumed of
\* the bridge or of the clients.
Fairness ==
    /\ WF_vars(Microtask)
    /\ WF_vars(Disconnect) /\ WF_vars(GraceExpires) /\ WF_vars(LeaseExpires)
    /\ \A c \in Commands : WF_vars(CommandTimeout(c))
    /\ \A o \in Operations : WF_vars(OpEnd(o))

Spec     == Init /\ [][Next]_vars
FairSpec == Spec /\ Fairness

-----------------------------------------------------------------------------
(* Properties *)

\* Commands chained on one connection are sent in the order of issue, each
\* after the previous one has settled (dispatch chains run() on dispatchTail).
InOrder ==
    \A c, d \in 1..issued :
        c < d /\ info[c].conn = info[d].conn /\ st[d] # "queued"
            => st[c] \in Settled

\* A remote input reaches only the connection and the session it was accepted
\* for, whatever reconnects and switches happen while it waits in the chain.
RemoteInputFenced ==
    \A c \in Commands :
        info[c].kind = "input" /\ Sent(c)
            => sentAt[c] = [conn |-> info[c].conn, session |-> info[c].session]

\* While an exclusive operation runs, no command for its session is pending,
\* but for one left over from a connection older than the operation.
ExclusiveFence ==
    \A o \in Operations, c \in Commands :
        /\ op[o].phase = "running"
        /\ st[c] = "inflight" /\ info[c].session = op[o].session
        => info[c].conn < op[o].conn

\* A claim the summary shows always has an owner who can release it and a timer
\* that ends it: a claim without either would lock the session for everybody.
ClaimHasOwner == /\ claim # 0 => owner # Nil
                 /\ owner # Nil => leaseTimer

\* After detach nothing is pending, nobody holds the lease and no timer is left,
\* although queued commands still run to their end.
DetachedIsClean ==
    ~present => InFlight = {} /\ owner = Nil /\ claim = 0 /\ ~leaseTimer /\ ~grace

\* A new connection or session is a new generation, so that what was accepted
\* in the current generation was accepted for the current connection and session.
GenerationPins ==
    \A c \in 1..issued :
        info[c].gen = generation => /\ info[c].conn = connects
                                    /\ info[c].session = session

\* A claim gives way to another one only when the bridge no longer honours it.
ClaimNotDisplaced ==
    [][claim # 0 /\ claim' \notin {0, claim} => held # claim]_vars

\* Every command settles and its caller continues, whatever the bridge does.
CommandsSettle == \A c \in Commands : st[c] # "unused" ~> st[c] = "done"

\* An exclusive operation does not wait for ever.
ExclusiveStarts == \A o \in Operations : op[o].phase = "waiting" ~> op[o].phase # "waiting"

\* A claim ends unless it is replaced: the session is never locked for ever.
LeaseEnds == \A l \in Commands : claim = l ~> claim # l
=============================================================================
