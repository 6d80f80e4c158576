--------------------------- MODULE BrowserMirror ---------------------------
(***************************************************************************)
(* The browser's copy of one live session.  The routes broadcast what the  *)
(* registry emits to the browser's WebSocket (routes/live-sessions.ts);    *)
(* the browser also fetches the list and the session's detail over HTTP,   *)
(* whose answers race the frames; the reducers of liveSessionsSlice.ts     *)
(* merge both by revision and event sequence, and useLiveSessions.ts runs  *)
(* the reconnects, the resync fetches and the grace of a detached row.     *)
(*                                                                         *)
(* The registry is the source here (LiveStream models it): its transcript  *)
(* is 1..at of a session, numbered by the bridge of the process.           *)
(***************************************************************************)
EXTENDS Naturals, Sequences

CONSTANTS
    Sessions,       \* 1..n: the sessions the process runs, one after the other
    Nil,
    MaxEvents,      \* bound: transcript entries
    MaxChanges,     \* bound: the registry's snapshots, detaches, ..., and refreshes
    MaxRestarts,    \* bound: how often a rebuilt bridge numbers from 1/0 again
    MaxFaults,      \* bound: WebSockets lost, fetches failed
    MaxFrames       \* bound: frames on their way

ASSUME Bounds ==
    {MaxEvents, MaxChanges, MaxRestarts, MaxFaults, MaxFrames} \subseteq Nat

\* What the registry shows of a process: the session, the cursor, and how many
\* transcript entries there are.
Shape == [sess : Sessions, rev : Nat, seq : Nat, at : Nat]

ASSUME FirstSession == 1 \in Sessions
ASSUME NilIsNoShape == Nil \notin Shape

VARIABLES
    reg,        \* what the registry shows of the process: [sess, rev, seq, at]
    shown,      \* reg # Nil: the registry has the session attached
    log,        \* the transcript entries of each session
    link,       \* "open" or "closed": the WebSocket
    frames,     \* frames on their way to the browser
    http,       \* the two requests, "list" and "detail": [sent, got]
    row,        \* state.sessions[id]: the summary, or Nil
    detail,     \* state.details[id], or Nil
    grace,      \* pendingDetach: the row of a detached session, or Nil
    count       \* what the bounds count

regVars     == <<reg, shown, log>>
browserVars == <<row, detail, grace>>
vars == <<regVars, link, frames, http, browserVars, count>>

Requests == {"list", "detail"}

\* The first list has been loaded: its answer authenticates the browser.
Init ==
    /\ reg    = [sess |-> 1, rev |-> 1, seq |-> 0, at |-> 0]
    /\ shown  = TRUE
    /\ log    = [s \in Sessions |-> 0]
    /\ link   = "closed" /\ frames = <<>>
    /\ http   = [r \in Requests |-> [sent |-> FALSE, got |-> Nil]]
    /\ row    = reg /\ detail = Nil /\ grace = Nil
    /\ count  = [changes |-> 0, restarts |-> 0, faults |-> 0]

Spend(what, max) == count[what] < max /\ count' = [count EXCEPT ![what] = @ + 1]

-----------------------------------------------------------------------------
(* The registry and the routes *)

\* broadcast(): a frame for the WebSocket, if it is open.
Frame(type, data) == [type |-> type, data |-> data]
Broadcast(f) ==
    IF link = "open"
    THEN Len(frames) < MaxFrames /\ frames' = Append(frames, f)
    ELSE UNCHANGED frames

Publish ==
    LET s == reg.sess IN
    /\ shown /\ log[s] < MaxEvents
    /\ log' = [log EXCEPT ![s] = @ + 1]
    /\ reg' = [reg EXCEPT !.seq = @ + 1, !.at = @ + 1]
    /\ Broadcast(Frame("event", reg'))
    /\ UNCHANGED <<shown, link, http, browserVars, count>>

\* The bridge's next snapshot, with an event that the registry has missed.
NextSnapshot(type) ==
    LET s == reg.sess IN
    /\ \E missed \in 0..1 :
         /\ log[s] + missed <= MaxEvents
         /\ log' = [log EXCEPT ![s] = @ + missed]
         /\ reg' = [reg EXCEPT !.rev = @ + 1, !.seq = @ + missed, !.at = @ + missed]
    /\ shown' = TRUE
    /\ Broadcast(Frame(type, reg'))
    /\ UNCHANGED <<link, http, browserVars>>

\* A resync, a reconnect within the registry's grace, or the process is back.
Snapshot == shown /\ Spend("changes", MaxChanges) /\ NextSnapshot("snapshot")
Attach   == ~shown /\ NextSnapshot("attached") /\ UNCHANGED count

\* claim_changed, or reconnecting: frames that carry the summary alone.
Summary ==
    /\ shown /\ Spend("changes", MaxChanges)
    /\ Broadcast(Frame("summary", reg))
    /\ UNCHANGED <<regVars, link, http, browserVars>>

\* detach(), for a reason that the session may come back from, or for good.
Detach(final) ==
    /\ shown /\ Spend("changes", MaxChanges)
    /\ shown' = FALSE
    /\ Broadcast(Frame(IF final THEN "ended" ELSE "detached", reg))
    /\ UNCHANGED <<reg, log, link, http, browserVars>>

\* /clear, /reload: a rebuilt bridge attaches, for the next session or the same
\* one, and numbers from the start; /ls-fork switches without a detach.
Restart ==
    /\ Spend("restarts", MaxRestarts)
    /\ \E s \in {reg.sess, reg.sess + 1} \cap Sessions :
         /\ shown => s # reg.sess
         /\ reg' = [sess |-> s, rev |-> 1, seq |-> 0, at |-> log[s]]
    /\ shown' = TRUE
    /\ Broadcast(Frame(IF shown THEN "snapshot" ELSE "attached", reg'))
    /\ UNCHANGED <<log, link, http, browserVars>>

\* acceptWebSocket: the list, and a snapshot of every session.
Accept ==
    /\ link = "closed" /\ link' = "open"
    /\ frames' = IF shown THEN <<Frame("list", reg), Frame("snapshot", reg)>>
                 ELSE <<Frame("list", Nil)>>
    /\ UNCHANGED <<regVars, http, browserVars, count>>

\* GET /api/live-sessions, GET /api/live-sessions/:id.
Answer(r) ==
    /\ http[r].sent /\ http[r].got = Nil
    /\ http' = [http EXCEPT ![r] = [sent |-> FALSE, got |-> Frame("answer", IF shown THEN reg ELSE Nil)]]
    /\ UNCHANGED <<regVars, link, frames, browserVars, count>>

-----------------------------------------------------------------------------
(* The browser *)

BugEntries(d) == [i \in 1..d.at |-> <<d.sess, i - 1>>]    \* Bug: numbered from zero.
Entries(d) == [i \in 1..d.at |-> <<d.sess, i>>]
Detail(d) == [sess |-> d.sess, rev |-> d.rev, seq |-> d.seq, entries |-> Entries(d),
               needsResync |-> FALSE]

\* upsertSummary refuses a lower revision.
Upserts(d) == row = Nil \/ d.rev >= row.rev
Upsert(d)  == row' = IF Upserts(d) THEN d ELSE row

BugEffect(h) == http' = h                           \* Bug: a gap is only marked.
\* An effect of the hook: whenever the details change and one needs a resync,
\* it is fetched.  (Bound: one request and one answer on their way.)
Effect(h) ==
    http' = IF detail' # detail /\ detail' # Nil /\ detail'.needsResync
            THEN [h EXCEPT !["detail"].sent = TRUE] ELSE h

\* liveSessionSnapshot: fresh with a newer revision or a newer event sequence.
Fresh(d) == detail = Nil \/ d.rev > detail.rev \/ d.seq > detail.seq
TakeSnapshot(d) ==
    /\ row'    = IF Fresh(d) THEN d ELSE row
    /\ detail' = IF Fresh(d) THEN Detail(d) ELSE detail

\* liveSessionAttached, with a detail.
TakeAttached(d) ==
    /\ Upsert(d)
    /\ detail' = IF Upserts(d) THEN Detail(d) ELSE detail

BugFollows(d) == d.seq > detail.seq                 \* Bug: gaps are accepted.
\* liveSessionEvent.
Follows(d) == d.seq = detail.seq + 1
TakeEvent(d) ==
    IF row = Nil \/ detail = Nil \/ d.seq <= detail.seq
    THEN UNCHANGED <<row, detail>>
    ELSE IF Follows(d)
    THEN /\ detail' = [detail EXCEPT !.seq = d.seq, !.entries = Append(@, <<d.sess, d.at>>)]
         /\ row' = [row EXCEPT !.seq = d.seq]
    ELSE detail' = [detail EXCEPT !.needsResync = TRUE] /\ UNCHANGED row

\* liveSessionDetached.
Remove == row' = Nil /\ detail' = Nil

BugCancels(f) == f.type = "snapshot"                \* Bug: only a snapshot does.
\* cancelDetach: the session has announced itself again.
Cancels(f) == f.type \in {"list", "attached", "snapshot"} /\ f.data # Nil

\* applyFrame; isTransientDetach tells "detached" from "ended".
Receive ==
    LET f == Head(frames)
        d == f.data
    IN  /\ frames # <<>> /\ frames' = Tail(frames)
        /\ \/ f.type = "list" /\ UNCHANGED detail
              /\ IF d = Nil THEN UNCHANGED row ELSE Upsert(d)
           \/ f.type = "attached" /\ TakeAttached(d)
           \/ f.type = "snapshot" /\ TakeSnapshot(d)
           \/ f.type = "event"    /\ TakeEvent(d)
           \/ f.type = "summary"  /\ Upsert(d) /\ UNCHANGED detail
           \/ f.type = "detached" /\ UNCHANGED <<row, detail>>
           \/ f.type = "ended"    /\ Remove
        /\ grace' = IF Cancels(f) \/ f.type = "ended" THEN Nil
                    ELSE IF f.type = "detached" THEN d ELSE grace
        /\ Effect(IF f.type = "detached" THEN [http EXCEPT !["list"].sent = TRUE] ELSE http)
        /\ UNCHANGED <<regVars, link, count>>

Disconnect ==
    /\ link = "open" /\ link' = "closed" /\ frames' = <<>>
    /\ Spend("faults", MaxFaults)
    /\ UNCHANGED <<regVars, http, browserVars>>

Got(r) == http[r].got # Nil
Done(r) == [http EXCEPT ![r].got = Nil]

\* sessionsLoaded: rows the list does not name are dropped, but for one whose
\* grace runs.
ReceiveList ==
    LET d == http["list"].got.data
        s == IF d # Nil THEN d ELSE grace
    IN  /\ Got("list") /\ http' = Done("list")
        /\ IF s = Nil THEN row' = Nil ELSE Upsert(s)
        /\ UNCHANGED <<regVars, link, frames, detail, grace, count>>

\* The detail; "not found" is only reported.
ReceiveDetail ==
    LET d == http["detail"].got.data IN
    /\ Got("detail")
    /\ IF d = Nil THEN UNCHANGED <<row, detail>> ELSE TakeSnapshot(d)
    /\ Effect(Done("detail"))
    /\ UNCHANGED <<regVars, link, frames, grace, count>>

FetchFails(r) ==
    /\ http[r].sent /\ Spend("faults", MaxFaults)
    /\ http' = [http EXCEPT ![r].sent = FALSE]
    /\ UNCHANGED <<regVars, link, frames, browserVars>>

\* The refresh button of the session's page.
RefreshNow ==
    /\ Spend("changes", MaxChanges)
    /\ http' = [r \in Requests |-> [http[r] EXCEPT !.sent = TRUE]]
    /\ UNCHANGED <<regVars, link, frames, browserVars>>

\* A minute after the detach.
GraceEnds ==
    /\ grace # Nil /\ grace' = Nil /\ Remove
    /\ UNCHANGED <<regVars, link, frames, http, count>>

Next ==
    \/ Publish \/ Snapshot \/ Summary \/ Detach(TRUE) \/ Detach(FALSE)
    \/ Attach \/ Restart \/ Accept
    \/ Receive \/ Disconnect
    \/ ReceiveList \/ ReceiveDetail \/ RefreshNow \/ GraceEnds
    \/ \E r \in Requests : Answer(r) \/ FetchFails(r)

Spec == Init /\ [][Next]_vars

\* The browser handles what arrives, the dashboard answers, and a lost WebSocket
\* is reconnected (scheduleReconnect).
FairSpec == /\ Spec
            /\ WF_vars(Accept) /\ WF_vars(Receive) /\ WF_vars(GraceEnds)
            /\ WF_vars(ReceiveList) /\ WF_vars(ReceiveDetail)
            /\ \A r \in Requests : WF_vars(Answer(r))

-----------------------------------------------------------------------------
(* Properties *)

TypeOK ==
    /\ reg \in Shape /\ shown \in BOOLEAN /\ log \in [Sessions -> 0..MaxEvents]
    /\ link \in {"open", "closed"}
    /\ \A n \in DOMAIN frames : frames[n].data \in Shape \cup {Nil}
    /\ row \in Shape \cup {Nil} /\ grace \in Shape \cup {Nil}
    /\ detail # Nil => /\ detail.sess \in Sessions /\ detail.needsResync \in BOOLEAN
                       /\ detail.entries \in Seq(Sessions \X (1..MaxEvents))

\* As long as the bridge goes on numbering, the transcript on the page is a stretch
\* of the session's log, whatever order frames and answers arrive in, whatever was
\* missed while the WebSocket was down, and however late a fetch is answered.
Mirror == INSTANCE SessionMirror
          WITH copy <- IF detail = Nil \/ count.restarts > 0 THEN Nil
                       ELSE [sess |-> detail.sess, entries |-> detail.entries]
MirrorsOneSession == Mirror!MirrorSpec

\* The grace of a row runs only while its session is gone, or a frame that ends
\* it is on its way: the flush never drops the page of a session that is back.
GraceIsForGone ==
    grace # Nil /\ shown /\ link = "open"
    => \E n \in DOMAIN frames : frames[n].type \in {"list", "attached", "snapshot"}

\* A gap is healed by the fetch of the hook's effect, unless a fetch fails or the
\* bridge starts its numbering again.
GapHeals == (detail # Nil /\ detail.needsResync)
            ~> (\/ detail = Nil \/ ~detail.needsResync
                \/ count.faults > 0 \/ count.restarts > 0)

\* The events of two sessions are never merged (design 15.4).
NeverMerged ==
    detail # Nil => \A i, j \in DOMAIN detail.entries :
                        detail.entries[i][1] = detail.entries[j][1]
=============================================================================
