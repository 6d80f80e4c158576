----------------------------- MODULE LiveStream -----------------------------
(***************************************************************************)
(* The event stream of one Pi process, from the bridge inside Pi over the  *)
(* broker's connections (broker.ts) into the registry's mirror of the      *)
(* session (registry.ts: connect, applySnapshot, applyEvent, disconnect,   *)
(* detach, retryResync).                                                   *)
(*                                                                         *)
(* Every line of a connection is handled on its messageTail, one after the *)
(* other.  The handlers of hello and snapshot await the path policy, so a  *)
(* line may be handled long after it was received: even after its socket   *)
(* closed, and after a newer connection took over.  In the model the head  *)
(* of a connection's lines is handled at any later time.                   *)
(*                                                                         *)
(* The bridge is not part of this repository.  It numbers its events; a    *)
(* rebuilt bridge starts at revision 1, sequence 0 again (comment at       *)
(* registry.ts:72), and what it drops under backpressure leaves a gap.     *)
(***************************************************************************)
EXTENDS Naturals, Sequences, SequencesExt

CONSTANTS
    Sessions,       \* 1..n: the sessions the process runs, one after the other
    Dialogs,        \* extension dialogs
    Nil,
    Window,         \* maxTimelineEntries
    MaxConns,       \* bound: connections
    MaxEvents,      \* bound: events of the process
    MaxLine,        \* bound: lines on their way on one connection
    MaxFaults       \* bound: resyncs lost, lines refused, connections broken, ...

ASSUME Bounds == /\ Window \in Nat \ {0}
                 /\ {MaxConns, MaxEvents, MaxLine, MaxFaults} \subseteq Nat

ASSUME FirstSession  == 1 \in Sessions /\ Sessions \subseteq Nat
ASSUME FiniteDialogs == IsFiniteSet(Dialogs)
ASSUME NilIsNoDialog == Nil \notin Dialogs /\ Nil \notin [sess : Sessions, open : BOOLEAN]

VARIABLES
    sock,           \* "none", "open", "ended" by us, "destroyed", "closed"
    bound,          \* ConnectionState.processInstanceId is set
    intent,         \* ConnectionState.closedIntentionally
    line,           \* lines received or on their way, oldest first
    asked,          \* a resync command waits at the bridge of the newest connection
    entry,          \* the registry's entry of the process, or Nil
    bridge,         \* the bridge: [up, linked, conn, sess, rev, seq]
    log,            \* the transcript entries of each session
    dialog,         \* dialogs in Pi: [sess, open], or Nil
    events,         \* how many events there were
    faults

connVars   == <<sock, bound, intent>>
bridgeVars == <<bridge, log, dialog, events>>
vars == <<connVars, line, asked, entry, bridgeVars, faults>>

Conns == 1..MaxConns

-----------------------------------------------------------------------------
Message == [type : {"hello", "snapshot", "event", "goodbye"}, sess : Sessions,
            rev : Nat, seq : Nat, at : Nat, dialog : Dialogs \cup {Nil},
            opens : BOOLEAN]

\* A line of the bridge.  An event does not name its session: sess is there for
\* the properties.  `at' is the position of the newest transcript entry.
Line(type, b, at, d, opens) ==
    [type |-> type, sess |-> b.sess, rev |-> b.rev, seq |-> b.seq, at |-> at,
     dialog |-> d, opens |-> opens]
Plain(type, b) == Line(type, b, log[b.sess], Nil, FALSE)

\* What slice(-maxTimelineEntries) and the splice keep.
Newest(s) == IF Len(s) <= Window THEN s ELSE SubSeq(s, Len(s) - Window + 1, Len(s))

NewEntry(c) ==
    [conn |-> c, attached |-> FALSE, awaiting |-> TRUE, stale |-> TRUE,
     rev |-> 0, seq |-> 0, sess |-> Nil, entries |-> <<>>,
     pendingUi |-> {}, timer |-> FALSE]

Init ==
    /\ sock   = [c \in Conns |-> "none"]
    /\ bound  = [c \in Conns |-> FALSE]
    /\ intent = [c \in Conns |-> FALSE]
    /\ line   = [c \in Conns |-> <<>>]
    /\ asked  = FALSE
    /\ entry  = Nil
    /\ bridge = [up |-> TRUE, conn |-> 0, sess |-> 1, rev |-> 0, seq |-> 0,
                  linked |-> FALSE]
    /\ log    = [s \in Sessions |-> 0]
    /\ dialog = [d \in Dialogs |-> Nil]
    /\ events = 0
    /\ faults = 0

-----------------------------------------------------------------------------
(* The bridge (external) *)

Linked   == bridge.linked /\ sock[bridge.conn] = "open"
Fault    == faults < MaxFaults /\ faults' = faults + 1
Send(ms) == /\ Len(line[bridge.conn]) + Len(ms) <= MaxLine
            /\ line' = [line EXCEPT ![bridge.conn] = @ \o ms]

\* hello and a complete snapshot, on a new connection.
Connect ==
    LET c == bridge.conn + 1
        b == [bridge EXCEPT !.linked = TRUE, !.conn = c, !.rev = @ + 1]
    IN  /\ bridge.up /\ ~Linked /\ c \in Conns
        /\ bridge' = b
        /\ sock' = [sock EXCEPT ![c] = "open"]
        /\ line' = [line EXCEPT ![c] = <<Plain("hello", b), Plain("snapshot", b)>>]
        /\ asked' = FALSE
        /\ UNCHANGED <<bound, intent, entry, log, dialog, events, faults>>

\* The next event is numbered; it is sent, or dropped by the backpressure.
Emit(at, d, opens) ==
    /\ events < MaxEvents /\ events' = events + 1
    /\ bridge' = [bridge EXCEPT !.seq = @ + 1]
    /\ \/ Send(<<Line("event", bridge', at, d, opens)>>)
       \/ UNCHANGED line

Live == bridge.up /\ Linked

Publish ==
    LET s == bridge.sess IN
    /\ Live
    /\ log' = [log EXCEPT ![s] = @ + 1]
    /\ Emit(log'[s], Nil, FALSE)
    /\ UNCHANGED <<connVars, asked, entry, dialog, faults>>

OpenDialog(d) ==
    /\ Live /\ dialog[d] = Nil
    /\ dialog' = [dialog EXCEPT ![d] = [sess |-> bridge.sess, open |-> TRUE]]
    /\ Emit(log[bridge.sess], d, TRUE)
    /\ UNCHANGED <<connVars, asked, entry, log, faults>>

\* The dialog is answered: in the terminal, or from any other channel.
CloseDialog(d) ==
    /\ Live /\ dialog[d] # Nil /\ dialog[d].open
    /\ dialog' = [dialog EXCEPT ![d].open = FALSE]
    /\ Emit(log[bridge.sess], d, FALSE)
    /\ UNCHANGED <<connVars, asked, entry, log, faults>>

Unanswered == {d \in Dialogs : dialog[d] # Nil /\ dialog[d].open}

\* The answer to a resync: a snapshot with the next revision, and the dialogs
\* that are still unanswered.
AnswerResync ==
    LET b       == [bridge EXCEPT !.rev = @ + 1]
        ds      == SetToSeq(Unanswered)
        full    == [b EXCEPT !.seq = @ + Len(ds)]
        replays == [i \in 1..Len(ds) |->
                      Line("event", [b EXCEPT !.seq = @ + i], log[b.sess], ds[i], TRUE)]
    IN  /\ Live /\ asked
        /\ asked' = FALSE
        /\ bridge' = full
        /\ Send(<<Plain("snapshot", b)>> \o replays)
        /\ UNCHANGED <<connVars, entry, log, dialog, events, faults>>

\* The bridge misses a resync command, or its snapshot is lost.
LoseResync ==
    /\ Live /\ asked /\ Fault
    /\ asked' = FALSE
    /\ UNCHANGED <<connVars, line, entry, bridgeVars>>

EndDialogs == [d \in Dialogs |-> IF dialog[d] = Nil THEN Nil
                                 ELSE [dialog[d] EXCEPT !.open = FALSE]]

\* /ls-fork: another session on the same connection.
SwitchInPlace ==
    LET b == [bridge EXCEPT !.sess = @ + 1, !.rev = 1, !.seq = 0] IN
    /\ Live /\ b.sess \in Sessions
    /\ bridge' = b /\ dialog' = EndDialogs
    /\ Send(<<Plain("snapshot", b)>>)
    /\ UNCHANGED <<connVars, asked, entry, log, events, faults>>

\* /clear and /reload: the bridge says goodbye and is built anew, for another
\* session or the same one.
Rebuild ==
    /\ Live /\ Send(<<Plain("goodbye", bridge)>>)
    /\ \E s \in {bridge.sess, bridge.sess + 1} \cap Sessions :
         /\ bridge' = [bridge EXCEPT !.linked = FALSE, !.sess = s, !.rev = 0, !.seq = 0]
         /\ dialog' = IF s = bridge.sess THEN dialog ELSE EndDialogs
    /\ UNCHANGED <<connVars, asked, entry, log, events, faults>>

\* The process ends; only a regular end sends a goodbye.
Exit ==
    /\ bridge.up
    /\ bridge' = [bridge EXCEPT !.up = FALSE, !.linked = FALSE]
    /\ dialog' = EndDialogs
    /\ \/ Linked /\ Send(<<Plain("goodbye", bridge)>>)
       \/ UNCHANGED line
    /\ UNCHANGED <<connVars, asked, entry, log, events, faults>>

\* The bridge gives the connection up (its buffer is full) and will reconnect.
Drop ==
    /\ Live /\ Fault
    /\ bridge' = [bridge EXCEPT !.linked = FALSE]
    /\ UNCHANGED <<connVars, line, asked, entry, log, dialog, events>>

-----------------------------------------------------------------------------
(* The broker and the registry *)

Top(c)  == Head(line[c])
Pop(c)  == line' = [line EXCEPT ![c] = Tail(@)]

BugCurrent(c) == entry # Nil                        \* Bug: any connection.
\* requireConnection does not throw.
Current(c) == entry # Nil /\ entry.conn = c

\* transport.send to the bridge, which throws when the socket is not writable.
Ask(c) == asked' = (asked \/ (c = bridge.conn /\ sock[c] = "open"))

Close(c) == IF sock[c] \in {"open", "ended"} THEN "destroyed" ELSE sock[c]

\* Only the handlers of hello and snapshot await: any other line that was read
\* is handled before the next event of the event loop.
Awaits(c) == line[c] # <<>> => Top(c).type \in {"hello", "snapshot"}

Gone(c) == sock[c] \in {"destroyed", "closed"}

\* A handler threw: the connection is answered with a rejection and ended, and
\* its entry detached, unless the socket is gone already.  The lines that follow
\* are rejected as well, which changes nothing more.
Reject(c) ==
    IF Gone(c)
    THEN Pop(c) /\ UNCHANGED <<sock, intent, entry>>
    ELSE /\ sock'   = [sock EXCEPT ![c] = "ended"]
         /\ intent' = [intent EXCEPT ![c] = TRUE]
         /\ entry'  = IF bound[c] /\ Current(c) THEN Nil ELSE entry
         /\ line'   = [line EXCEPT ![c] = <<>>]

Others == <<bridgeVars, faults>>

\* The first line of a connection is not a hello, or the path policy refuses
\* the directory of a hello or a snapshot.
Refuse(c) ==
    /\ line[c] # <<>>
    /\ \/ ~bound[c] /\ Top(c).type # "hello" /\ UNCHANGED faults
       \/ Top(c).type \in {"hello", "snapshot"} /\ Fault
    /\ Reject(c)
    /\ UNCHANGED <<bound, asked, bridgeVars>>

BugTakenOver(c) == [entry EXCEPT !.conn = c, !.awaiting = TRUE, !.stale = TRUE]
\* The entry goes to a new connection; its grace timer is cleared.
TakenOver(c) ==
    [entry EXCEPT !.conn = c, !.awaiting = TRUE, !.stale = TRUE, !.timer = FALSE]

\* Bug: the identity is set after the welcome, which a closed socket fails.
BugBinding(c) == IF sock[c] = "open" THEN [bound EXCEPT ![c] = TRUE] ELSE bound
Binding(c) == [bound EXCEPT ![c] = TRUE]

\* connect(): a new entry, or the old one taken over from its connection, whose
\* transport is closed and whose other lines no handler accepts any more.  The
\* welcome fails when the socket is gone, and then the rejection does nothing.
Hello(c) ==
    LET old == entry.conn IN
    /\ line[c] # <<>> /\ ~bound[c] /\ Top(c).type = "hello"
    /\ bound' = Binding(c)
    /\ IF entry = Nil
       THEN entry' = NewEntry(c) /\ Pop(c) /\ UNCHANGED sock
       ELSE /\ entry' = TakenOver(c)
            /\ sock' = [sock EXCEPT ![old] = Close(old)]
            /\ line' = [line EXCEPT ![c] = Tail(@), ![old] = <<>>]
    /\ UNCHANGED <<intent, asked, Others>>

\* applySnapshot.  Another session is always taken, and so is the first snapshot
\* of a connection; any other must have a higher revision.
Newer(m) == \/ entry.attached /\ entry.sess # m.sess
            \/ entry.stale
            \/ m.rev > entry.rev

BugKept(m) == entry.pendingUi
\* A session switch ends the dialogs of the previous session.
Kept(m) == IF entry.attached /\ entry.sess # m.sess THEN {} ELSE entry.pendingUi

Snapshot(c) ==
    LET m == Top(c)
    IN  /\ line[c] # <<>> /\ bound[c] /\ m.type = "snapshot"
        /\ IF ~Current(c) THEN Reject(c) /\ UNCHANGED asked
           ELSE /\ Pop(c) /\ UNCHANGED <<sock, intent>>
                /\ IF Newer(m)
                   THEN /\ entry' = [entry EXCEPT
                              !.attached = TRUE, !.awaiting = FALSE, !.stale = FALSE,
                              !.rev = m.rev, !.seq = m.seq, !.sess = m.sess,
                              !.entries = Newest([i \in 1..m.at |-> <<m.sess, i>>]),
                              !.pendingUi = Kept(m)]
                        /\ IF entry.attached THEN UNCHANGED asked ELSE Ask(c)
                   ELSE UNCHANGED <<entry, asked>>
        /\ UNCHANGED <<bound, Others>>

\* applyEvent, projectEvent and appendTimelineEvent.
Apply(m) ==
    [entry EXCEPT
        !.seq = m.seq, !.stale = FALSE,
        !.entries = IF m.dialog = Nil THEN Newest(Append(@, <<m.sess, m.at>>)) ELSE @,
        !.pendingUi = IF m.dialog = Nil THEN @
                      ELSE IF m.opens THEN @ \cup {m.dialog} ELSE @ \ {m.dialog}]

BugInSequence(m) == m.seq > entry.seq               \* Bug: gaps are accepted.
InSequence(m) == m.seq = entry.seq + 1

Event(c) ==
    LET m == Top(c) IN
    /\ line[c] # <<>> /\ bound[c] /\ m.type = "event"
    /\ \/ ~Current(c) /\ Reject(c) /\ UNCHANGED asked
       \/ /\ Current(c) /\ Pop(c) /\ UNCHANGED <<sock, intent>>
          /\ \/ /\ ~entry.attached \/ entry.awaiting
                /\ UNCHANGED <<entry, asked>>
             \/ /\ entry.attached /\ ~entry.awaiting
                /\ IF InSequence(m)
                   THEN entry' = Apply(m) /\ UNCHANGED asked
                   ELSE entry' = [entry EXCEPT !.awaiting = TRUE] /\ Ask(c)
    /\ UNCHANGED <<bound, Others>>

Goodbye(c) ==
    /\ line[c] # <<>> /\ bound[c] /\ Top(c).type = "goodbye"
    /\ Pop(c)
    /\ intent' = [intent EXCEPT ![c] = TRUE]
    /\ entry' = IF Current(c) THEN Nil ELSE entry
    /\ sock' = [sock EXCEPT ![c] = IF @ = "open" THEN "ended" ELSE @]
    /\ UNCHANGED <<bound, asked, Others>>

\* The socket's close event: disconnect(), unless the end was meant.
CloseEvent(c) ==
    /\ \/ sock[c] \in {"destroyed", "ended"}
       \/ sock[c] = "open" /\ ~(bridge.linked /\ bridge.conn = c)
    /\ Awaits(c)
    /\ sock' = [sock EXCEPT ![c] = "closed"]
    /\ entry' = IF intent[c] \/ ~bound[c] \/ ~Current(c) THEN entry
                ELSE IF ~entry.attached THEN Nil
                ELSE [entry EXCEPT !.awaiting = TRUE, !.timer = TRUE]
    /\ UNCHANGED <<bound, intent, line, asked, Others>>

\* checkHeartbeats: nothing was heard for three heartbeats.
Watchdog(c) ==
    /\ sock[c] = "open" /\ ~intent[c] /\ Fault
    /\ sock' = [sock EXCEPT ![c] = "destroyed"]
    /\ \E n \in 0..Len(line[c]) : line' = [line EXCEPT ![c] = SubSeq(@, 1, n)]
    /\ UNCHANGED <<bound, intent, asked, entry, bridgeVars>>

\* disconnectGraceMs have passed.
GraceEnds ==
    /\ entry # Nil /\ entry.timer
    /\ entry' = Nil
    /\ UNCHANGED <<connVars, line, asked, Others>>

BugRetryResync == FALSE /\ UNCHANGED vars            \* Bug: asked only once.
\* retryResync, every ten seconds.
RetryResync ==
    /\ entry # Nil /\ entry.attached /\ entry.awaiting
    /\ Ask(entry.conn)
    /\ UNCHANGED <<connVars, line, entry, Others>>

\* The dashboard stops or crashes, and starts again with an empty registry.
Restart ==
    /\ Fault
    /\ sock' = [c \in Conns |-> IF sock[c] = "none" THEN "none" ELSE "closed"]
    /\ line' = [c \in Conns |-> <<>>]
    /\ entry' = Nil
    /\ UNCHANGED <<bound, intent, asked, bridgeVars>>

Handle(c) == Refuse(c) \/ Hello(c) \/ Snapshot(c) \/ Event(c) \/ Goodbye(c)

Settled == \A c \in Conns : Gone(c) => Awaits(c)

Next ==
  \/ Settled /\
    \/ Connect \/ Publish \/ AnswerResync \/ LoseResync
    \/ SwitchInPlace \/ Rebuild \/ Exit \/ Drop
    \/ \E d \in Dialogs : OpenDialog(d) \/ CloseDialog(d)
    \/ \E c \in Conns : CloseEvent(c) \/ Watchdog(c)
    \/ GraceEnds \/ RetryResync \/ Restart
  \/ \E c \in Conns : Handle(c)

Spec == Init /\ [][Next]_vars

\* A refusal that nobody hears of: reject() does nothing when the socket is gone,
\* the entry stays, and so do the lines that follow the one that was refused.
Unheard(c) == Refuse(c) /\ Current(c) /\ Gone(c)

\* Nothing of the entry's own connection is refused unheard.  Without that the
\* mirror is not one (NeverMerged).
HeardSpec == Init /\ [][Next /\ \A c \in Conns : ~Unheard(c)]_vars

\* The event loop handles what it received and runs its timers, and a live
\* bridge answers the resyncs it hears of.
FairSpec == /\ HeardSpec
            /\ \A c \in Conns : WF_vars(Handle(c)) /\ WF_vars(CloseEvent(c))
            /\ WF_vars(RetryResync) /\ WF_vars(GraceEnds) /\ WF_vars(AnswerResync)

-----------------------------------------------------------------------------
(* Properties *)

TypeOK ==
    /\ sock \in [Conns -> {"none", "open", "ended", "destroyed", "closed"}]
    /\ bound \in [Conns -> BOOLEAN] /\ intent \in [Conns -> BOOLEAN]
    /\ line \in [Conns -> Seq(Message)] /\ asked \in BOOLEAN
    /\ entry = Nil \/
         entry \in [conn : Conns, attached : BOOLEAN, awaiting : BOOLEAN,
                    stale : BOOLEAN, rev : Nat, seq : Nat, sess : Sessions \cup {Nil},
                    entries : Seq(Sessions \X Nat), pendingUi : SUBSET Dialogs,
                    timer : BOOLEAN]
    /\ bridge \in [up : BOOLEAN, linked : BOOLEAN, conn : 0..MaxConns,
                   sess : Sessions, rev : Nat, seq : Nat]
    /\ entry # Nil => bound[entry.conn]
    /\ log \in [Sessions -> Nat] /\ events \in 0..MaxEvents
    /\ dialog \in [Dialogs -> {Nil} \cup [sess : Sessions, open : BOOLEAN]]
    /\ faults \in 0..MaxFaults

\* The transcript of the page is a stretch of one session's log, over gaps,
\* resyncs, reconnects, session switches and rebuilt bridges (design 15.4: the
\* events of two sessions are never merged).
Mirror == INSTANCE SessionMirror
          WITH log  <- log,
               copy <- IF entry = Nil \/ ~entry.attached THEN Nil
                       ELSE [sess |-> entry.sess, entries |-> entry.entries]
MirrorsOneSession == Mirror!MirrorSpec

\* An entry that has applied every event the bridge numbered shows the newest
\* transcript entry: nothing that left a gap goes unnoticed.
UpToDate ==
    entry # Nil /\ entry.attached /\ ~entry.awaiting
    /\ entry.conn = bridge.conn /\ line[entry.conn] = <<>> /\ Linked
    /\ entry.seq = bridge.seq
    => entry.entries = Newest([i \in 1..log[entry.sess] |-> <<entry.sess, i>>])

\* The grace timer runs only while the entry waits for a reconnect: it never
\* detaches a session that has come back.
GraceIsForClosed ==
    entry # Nil /\ entry.timer => sock[entry.conn] = "closed"

\* The dialogs of a finished session are not offered in the next one.
DialogsOfSession ==
    entry # Nil => \A d \in entry.pendingUi : dialog[d].sess = entry.sess

\* The events of two sessions are never merged (design 15.4).
NeverMerged ==
    entry # Nil => \A i \in DOMAIN entry.entries : entry.entries[i][1] = entry.sess

\* A mirror that waits for a snapshot gets one, or loses its connection, even
\* when a resync request or its answer was lost (retryResync, registry.ts:814).
Heals ==
    (entry # Nil /\ entry.attached /\ entry.awaiting /\ bridge.conn = entry.conn)
    ~> ~(entry # Nil /\ entry.awaiting /\ bridge.conn = entry.conn /\ Linked)

\* A process that is lost is noticed by the close of its socket, and its session
\* is detached unless it connects again (design 15.3).
LostIsDetached ==
    (entry # Nil /\ sock[entry.conn] = "closed")
    ~> (entry = Nil \/ sock[entry.conn] # "closed")
=============================================================================
