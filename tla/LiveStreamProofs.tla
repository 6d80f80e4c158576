-------------------------- MODULE LiveStreamProofs --------------------------
(***************************************************************************)
(* LiveStream, for any number of connections, events, lines and faults:    *)
(* type correctness, and the grace timer runs only for an entry whose      *)
(* socket is closed.                                                       *)
(***************************************************************************)
EXTENDS LiveStream, FunctionTheorems, FiniteSetTheorems, SequenceTheorems, TLAPS

Socks    == {"none", "open", "ended", "destroyed", "closed"}
Dialogue == {Nil} \cup [sess : Sessions, open : BOOLEAN]
Bridges  == [up : BOOLEAN, linked : BOOLEAN, conn : 0..MaxConns,
             sess : Sessions, rev : Nat, seq : Nat]
Entries  == [conn : Conns, attached : BOOLEAN, awaiting : BOOLEAN,
             stale : BOOLEAN, rev : Nat, seq : Nat, sess : Sessions \cup {Nil},
             entries : Seq(Sessions \X Nat), pendingUi : SUBSET Dialogs,
             timer : BOOLEAN]

ConnTypes ==
    /\ sock \in [Conns -> Socks] /\ bound \in [Conns -> BOOLEAN]
    /\ intent \in [Conns -> BOOLEAN] /\ line \in [Conns -> Seq(Message)]
    /\ asked \in BOOLEAN
BridgeTypes ==
    /\ bridge \in Bridges /\ log \in [Sessions -> Nat] /\ events \in 0..MaxEvents
    /\ dialog \in [Dialogs -> Dialogue] /\ faults \in 0..MaxFaults
EntryTypes == entry # Nil => entry \in Entries /\ bound[entry.conn]
Types == ConnTypes /\ BridgeTypes /\ EntryTypes

\* The bridge numbers its connections: the one it uses is the newest, and nothing
\* of the dashboard knows of a later one.
Known ==
    /\ bridge.linked => bridge.conn \in Conns
    /\ entry # Nil => entry.conn <= bridge.conn
    /\ \A c \in Conns : line[c] # <<>> => c <= bridge.conn

Inv == Types /\ Known /\ GraceIsForClosed

-----------------------------------------------------------------------------
(* What the operators of the model return *)

LEMMA Constants ==
    /\ Window \in Nat /\ Window # 0 /\ MaxConns \in Nat /\ MaxEvents \in Nat
    /\ MaxLine \in Nat /\ MaxFaults \in Nat /\ 1 \in Sessions
  BY Bounds, FirstSession

LEMMA SetToSeqTyped ==
  ASSUME NEW S, IsFiniteSet(S)
  PROVE  SetToSeq(S) \in Seq(S)
  <1>1. Cardinality(S) \in Nat /\ ExistsBijection(1..Cardinality(S), S)
    BY FS_CardinalityType
  <1>2. \E f \in [1..Cardinality(S) -> S] : IsInjective(f)
    BY <1>1 DEF ExistsBijection, Bijection, Injection
  <1>3. SetToSeq(S) \in [1..Cardinality(S) -> S]
    BY <1>2 DEF SetToSeq
  <1> QED BY <1>1, <1>3

LEMMA NewestTyped ==
  ASSUME NEW S, NEW s \in Seq(S)
  PROVE  Newest(s) \in Seq(S)
  <1>1. CASE Len(s) <= Window
    BY <1>1 DEF Newest
  <1>2. CASE ~(Len(s) <= Window)
    <2>1. Len(s) - Window + 1 \in 1..(Len(s) + 1) /\ Len(s) \in 1..Len(s)
      BY <1>2, Constants
    <2> QED BY <1>2, <2>1 DEF Newest
  <1> QED BY <1>1, <1>2

LEMMA LineTyped ==
  ASSUME NEW type \in {"hello", "snapshot", "event", "goodbye"}, NEW b, b.sess \in Sessions,
         b.rev \in Nat, b.seq \in Nat, NEW at \in Nat, NEW d \in Dialogs \cup {Nil},
         NEW opens \in BOOLEAN
  PROVE  Line(type, b, at, d, opens) \in Message
  BY DEF Line, Message

LEMMA PlainTyped ==
  ASSUME BridgeTypes, NEW type \in {"hello", "snapshot", "event", "goodbye"}, NEW b \in Bridges
  PROVE  Plain(type, b) \in Message
  BY LineTyped DEF Plain, BridgeTypes, Bridges

\* What the bridge sends goes behind the lines of the newest connection.
LEMMA SendTyped ==
  ASSUME ConnTypes, Linked, Known, BridgeTypes, NEW ms \in Seq(Message), Send(ms)
  PROVE  /\ line' \in [Conns -> Seq(Message)]
         /\ \A c \in Conns : c # bridge.conn => line'[c] = line[c]
  <1>1. bridge.conn \in Conns
    BY DEF Linked, Known
  <1>2. line[bridge.conn] \o ms \in Seq(Message)
    BY <1>1 DEF ConnTypes
  <1> QED BY <1>1, <1>2 DEF Send, ConnTypes

-----------------------------------------------------------------------------
(* The bridge *)

LEMMA InvInit == Init => Inv
  <1> SUFFICES ASSUME Init PROVE Inv
    OBVIOUS
  <1>1. ConnTypes
    <2>1. line \in [Conns -> Seq(Message)] /\ sock \in [Conns -> Socks]
      BY DEF Init, Socks
    <2>2. bound \in [Conns -> BOOLEAN] /\ intent \in [Conns -> BOOLEAN] /\ asked \in BOOLEAN
      BY DEF Init
    <2> QED BY <2>1, <2>2 DEF ConnTypes
  <1>2. BridgeTypes
    BY Constants DEF Init, BridgeTypes, Bridges, Dialogue
  <1>3. EntryTypes /\ Known /\ GraceIsForClosed
    BY DEF Init, EntryTypes, Known, GraceIsForClosed
  <1> QED BY <1>1, <1>2, <1>3 DEF Inv, Types

\* A step of the bridge on its connection.
LEMMA BridgeStep ==
  ASSUME Inv, UNCHANGED <<connVars, entry>>,
         BridgeTypes', bridge'.conn = bridge.conn, bridge'.linked => bridge.linked,
         asked' \in BOOLEAN, line' \in [Conns -> Seq(Message)],
         \A c \in Conns : line'[c] = line[c] \/ (c = bridge.conn)
  PROVE  Inv'
  <1>1. ConnTypes' /\ EntryTypes' /\ GraceIsForClosed'
    BY DEF Inv, Types, ConnTypes, EntryTypes, GraceIsForClosed, connVars
  <1>2. bridge.conn <= bridge.conn
    BY DEF Inv, Types, BridgeTypes, Bridges
  <1>3. Known'
    BY <1>2 DEF Inv, Known
  <1> QED BY <1>1, <1>3 DEF Inv, Types

LEMMA StepConnect == Inv /\ Connect => Inv'
  <1> SUFFICES ASSUME Inv, Connect PROVE Inv'
    OBVIOUS
  <1> DEFINE c == bridge.conn + 1
             b == [bridge EXCEPT !.linked = TRUE, !.conn = c, !.rev = @ + 1]
  <1>1. c \in Conns /\ bridge.conn \in Nat /\ bridge \in Bridges
    BY Constants DEF Connect, Inv, Types, BridgeTypes, Bridges
  <1>2. /\ b.linked = TRUE /\ b.conn = c /\ b.rev = bridge.rev + 1
        /\ b.up = bridge.up /\ b.sess = bridge.sess /\ b.seq = bridge.seq
        /\ DOMAIN b = DOMAIN bridge
    BY <1>1 DEF Bridges
  <1>3. bridge' = b /\ b \in Bridges
    <2>1. bridge' = b
      BY DEF Connect
    <2>2. /\ bridge.up \in BOOLEAN /\ bridge.sess \in Sessions /\ bridge.rev + 1 \in Nat
          /\ bridge.seq \in Nat /\ c \in 0..MaxConns
      BY <1>1, Constants DEF Bridges, Conns
    <2> DEFINE b1 == [bridge EXCEPT !.linked = TRUE]
               b2 == [b1 EXCEPT !.conn = c]
    <2>3. b1 \in Bridges /\ b1.rev = bridge.rev
      BY <1>1 DEF Bridges
    <2>4. b2 \in Bridges /\ b2.rev = bridge.rev
      <3> HIDE DEF b1, c
      <3> QED BY <2>2, <2>3 DEF Bridges
    <2>5. b = [b2 EXCEPT !.rev = @ + 1]
      OBVIOUS
    <2>6. b \in Bridges
      <3> HIDE DEF b, b2
      <3> QED BY <2>2, <2>4, <2>5 DEF Bridges
    <2> QED BY <2>1, <2>6
  <1>4. Plain("hello", b) \in Message /\ Plain("snapshot", b) \in Message
    BY <1>3, PlainTyped DEF Inv, Types
  <1>5. line' = [line EXCEPT ![c] = <<Plain("hello", b), Plain("snapshot", b)>>]
        /\ sock' = [sock EXCEPT ![c] = "open"]
    BY DEF Connect
  <1> HIDE DEF b
  <1>6. line' \in [Conns -> Seq(Message)] /\ \A x \in Conns : x # c => line'[x] = line[x]
    BY <1>1, <1>4, <1>5 DEF Inv, Types, ConnTypes
  <1>7. sock' \in [Conns -> Socks] /\ \A x \in Conns : x # c => sock'[x] = sock[x]
    BY <1>1, <1>5 DEF Inv, Types, ConnTypes, Socks
  <1>8. ConnTypes' /\ BridgeTypes' /\ EntryTypes'
    BY <1>3, <1>6, <1>7 DEF Connect, Inv, Types, ConnTypes, BridgeTypes, EntryTypes
  <1>9. Known'
    BY <1>1, <1>2, <1>3, <1>6 DEF Connect, Inv, Known, Types, EntryTypes, Entries, Conns
  <1>10. GraceIsForClosed'
    <2> SUFFICES ASSUME entry # Nil, entry.timer PROVE sock'[entry.conn] = "closed"
      BY DEF Connect, GraceIsForClosed
    <2>1. entry.conn # c /\ entry.conn \in Conns
      BY <1>1 DEF Inv, Known, Types, EntryTypes, Entries, Conns
    <2> QED BY <1>7, <2>1 DEF Inv, GraceIsForClosed
  <1> QED BY <1>8, <1>9, <1>10 DEF Inv, Types

\* An event is numbered, and perhaps sent.
LEMMA EmitTyped ==
  ASSUME Inv, Live, NEW at \in Nat, NEW d \in Dialogs \cup {Nil}, NEW opens \in BOOLEAN,
         Emit(at, d, opens)
  PROVE  /\ bridge' \in Bridges /\ bridge'.conn = bridge.conn /\ bridge'.linked = bridge.linked
         /\ events' \in 0..MaxEvents /\ line' \in [Conns -> Seq(Message)]
         /\ \A c \in Conns : line'[c] = line[c] \/ (c = bridge.conn)
  <1>1. bridge \in Bridges
    BY DEF Inv, Types, BridgeTypes
  <1>2. bridge' \in Bridges /\ bridge'.conn = bridge.conn /\ bridge'.linked = bridge.linked
    BY <1>1 DEF Emit, Bridges
  <1>3. events' \in 0..MaxEvents
    BY Constants DEF Emit, Inv, Types, BridgeTypes
  <1>4. Line("event", bridge', at, d, opens) \in Message
    BY <1>2, LineTyped DEF Bridges
  <1>5. <<Line("event", bridge', at, d, opens)>> \in Seq(Message)
    BY <1>4
  <1>6. \/ Send(<<Line("event", bridge', at, d, opens)>>)
        \/ line' = line
    BY DEF Emit
  <1>7. line' \in [Conns -> Seq(Message)]
        /\ \A c \in Conns : line'[c] = line[c] \/ (c = bridge.conn)
    BY <1>5, <1>6, SendTyped DEF Inv, Types, ConnTypes, Live
  <1> QED BY <1>2, <1>3, <1>7

LEMMA StepPublish == Inv /\ Publish => Inv'
  <1> SUFFICES ASSUME Inv, Publish PROVE Inv'
    OBVIOUS
  <1>1. bridge.sess \in Sessions /\ log \in [Sessions -> Nat]
    BY DEF Inv, Types, BridgeTypes, Bridges
  <1>2. log' \in [Sessions -> Nat] /\ log'[bridge.sess] \in Nat
    BY <1>1 DEF Publish
  <1>3. /\ bridge' \in Bridges /\ bridge'.conn = bridge.conn /\ bridge'.linked = bridge.linked
        /\ events' \in 0..MaxEvents /\ line' \in [Conns -> Seq(Message)]
        /\ \A c \in Conns : line'[c] = line[c] \/ (c = bridge.conn)
    BY <1>2, EmitTyped DEF Publish
  <1> QED BY <1>2, <1>3, BridgeStep DEF Publish, Inv, Types, BridgeTypes, ConnTypes

LEMMA DialogueTyped ==
  ASSUME BridgeTypes, NEW d \in Dialogs
  PROVE  /\ EndDialogs \in [Dialogs -> Dialogue]
         /\ dialog[d] # Nil => [dialog EXCEPT ![d].open = FALSE] \in [Dialogs -> Dialogue]
         /\ [dialog EXCEPT ![d] = [sess |-> bridge.sess, open |-> TRUE]]
              \in [Dialogs -> Dialogue]
  <1>1. ASSUME NEW x \in Dialogs, dialog[x] # Nil
        PROVE  [dialog[x] EXCEPT !.open = FALSE] \in Dialogue
    BY <1>1 DEF BridgeTypes, Dialogue
  <1>2. EndDialogs \in [Dialogs -> Dialogue]
    BY <1>1 DEF EndDialogs, Dialogue
  <1>3. ASSUME dialog[d] # Nil
        PROVE  [dialog EXCEPT ![d].open = FALSE] \in [Dialogs -> Dialogue]
    BY <1>1, <1>3 DEF BridgeTypes
  <1>4. [sess |-> bridge.sess, open |-> TRUE] \in Dialogue
    BY DEF BridgeTypes, Bridges, Dialogue
  <1>5. [dialog EXCEPT ![d] = [sess |-> bridge.sess, open |-> TRUE]] \in [Dialogs -> Dialogue]
    BY <1>4 DEF BridgeTypes
  <1> QED BY <1>2, <1>3, <1>5

LEMMA StepDialog ==
  ASSUME Inv, NEW d \in Dialogs, OpenDialog(d) \/ CloseDialog(d)
  PROVE  Inv'
  <1>0. log[bridge.sess] \in Nat
    BY DEF Inv, Types, BridgeTypes, Bridges
  <1>1. dialog' \in [Dialogs -> Dialogue]
    BY DialogueTyped DEF OpenDialog, CloseDialog, Inv, Types
  <1>2. /\ bridge' \in Bridges /\ bridge'.conn = bridge.conn /\ bridge'.linked = bridge.linked
        /\ events' \in 0..MaxEvents /\ line' \in [Conns -> Seq(Message)]
        /\ \A c \in Conns : line'[c] = line[c] \/ (c = bridge.conn)
    BY <1>0, EmitTyped DEF OpenDialog, CloseDialog
  <1>3. UNCHANGED <<connVars, asked, entry, log, faults>>
    BY DEF OpenDialog, CloseDialog
  <1> QED BY <1>1, <1>2, <1>3, BridgeStep DEF Inv, Types, BridgeTypes, ConnTypes

LEMMA StepAnswerResync == Inv /\ AnswerResync => Inv'
  <1> SUFFICES ASSUME Inv, AnswerResync PROVE Inv'
    OBVIOUS
  <1> DEFINE b       == [bridge EXCEPT !.rev = @ + 1]
             ds      == SetToSeq(Unanswered)
             full    == [b EXCEPT !.seq = @ + Len(ds)]
             replays == [i \in 1..Len(ds) |->
                           Line("event", [b EXCEPT !.seq = @ + i], log[b.sess], ds[i], TRUE)]
  <1>1. bridge \in Bridges
    BY DEF Inv, Types, BridgeTypes
  <1>2. b \in Bridges /\ b.conn = bridge.conn /\ b.linked = bridge.linked
    BY <1>1 DEF Bridges
  <1>3. IsFiniteSet(Unanswered) /\ Unanswered \subseteq Dialogs
    BY FiniteDialogs, FS_Subset DEF Unanswered
  <1>4. ds \in Seq(Unanswered)
    BY <1>3, SetToSeqTyped
  <1>5. ds \in Seq(Dialogs) /\ Len(ds) \in Nat
    BY <1>3, <1>4
  <1>6. bridge' = full /\ Send(<<Plain("snapshot", b)>> \o replays)
    BY DEF AnswerResync
  <1> HIDE DEF b, ds
  <1>7. full \in Bridges /\ full.conn = bridge.conn /\ full.linked = bridge.linked
    BY <1>2, <1>5 DEF Bridges
  <1>8. ASSUME NEW i \in 1..Len(ds)
        PROVE  Line("event", [b EXCEPT !.seq = @ + i], log[b.sess], ds[i], TRUE) \in Message
    <2>1. b.seq + i \in Nat /\ b.rev \in Nat /\ b.sess \in Sessions /\ ds[i] \in Dialogs
      BY <1>2, <1>5, <1>8 DEF Bridges
    <2>2. [b EXCEPT !.seq = @ + i].seq = b.seq + i /\ [b EXCEPT !.seq = @ + i].rev = b.rev
          /\ [b EXCEPT !.seq = @ + i].sess = b.sess
      BY <1>2 DEF Bridges
    <2>3. log[b.sess] \in Nat
      BY <2>1 DEF Inv, Types, BridgeTypes
    <2> QED BY <2>1, <2>2, <2>3, LineTyped
  <1>9. replays \in Seq(Message)
    <2>1. replays \in [1..Len(ds) -> Message]
      BY <1>8
    <2> HIDE DEF replays
    <2> QED BY <1>5, <2>1
  <1>10. Plain("snapshot", b) \in Message
    BY <1>2, PlainTyped DEF Inv, Types
  <1> HIDE DEF replays, full
  <1>11. <<Plain("snapshot", b)>> \o replays \in Seq(Message)
    BY <1>9, <1>10
  <1>12. line' \in [Conns -> Seq(Message)]
         /\ \A c \in Conns : line'[c] = line[c] \/ (c = bridge.conn)
    BY <1>6, <1>11, SendTyped DEF AnswerResync, Live, Inv, Types
  <1> QED BY <1>6, <1>7, <1>12, BridgeStep DEF AnswerResync, Inv, Types, BridgeTypes

\* What the other steps of the bridge leave of it.
LEMMA BridgeTyped ==
  ASSUME BridgeTypes, NEW s \in Sessions, NEW r \in {0, 1}
  PROVE  /\ [bridge EXCEPT !.sess = s, !.rev = r, !.seq = 0] \in Bridges
         /\ [bridge EXCEPT !.linked = FALSE, !.sess = s, !.rev = r, !.seq = 0] \in Bridges
         /\ [bridge EXCEPT !.up = FALSE, !.linked = FALSE] \in Bridges
         /\ [bridge EXCEPT !.linked = FALSE] \in Bridges
  <1> DEFINE b1 == [bridge EXCEPT !.sess = s]
             b2 == [b1 EXCEPT !.rev = r]
             b3 == [b2 EXCEPT !.seq = 0]
             d0 == [bridge EXCEPT !.linked = FALSE]
             d1 == [d0 EXCEPT !.sess = s]
             d2 == [d1 EXCEPT !.rev = r]
             d3 == [d2 EXCEPT !.seq = 0]
  <1>0. r \in Nat /\ bridge \in Bridges
    BY DEF BridgeTypes
  <1>1. b1 \in Bridges
    BY <1>0 DEF Bridges
  <1>2. b2 \in Bridges
    <2> HIDE DEF b1
    <2> QED BY <1>0, <1>1 DEF Bridges
  <1>3. b3 \in Bridges
    <2> HIDE DEF b2
    <2> QED BY <1>2 DEF Bridges
  <1>4. d0 \in Bridges
    BY <1>0 DEF Bridges
  <1>5. d1 \in Bridges
    <2> HIDE DEF d0
    <2> QED BY <1>4 DEF Bridges
  <1>6. d2 \in Bridges
    <2> HIDE DEF d1
    <2> QED BY <1>0, <1>5 DEF Bridges
  <1>7. d3 \in Bridges
    <2> HIDE DEF d2
    <2> QED BY <1>6 DEF Bridges
  <1>8. [bridge EXCEPT !.up = FALSE, !.linked = FALSE] \in Bridges
    BY <1>0 DEF Bridges
  <1> QED BY <1>3, <1>4, <1>7, <1>8

LEMMA StepLoseResync == Inv /\ LoseResync => Inv'
  <1> SUFFICES ASSUME Inv, LoseResync PROVE Inv'
    OBVIOUS
  <1>1. faults' \in 0..MaxFaults
    BY Constants DEF LoseResync, Fault, Inv, Types, BridgeTypes
  <1> QED BY <1>1, BridgeStep DEF LoseResync, bridgeVars, Inv, Types, BridgeTypes, ConnTypes

LEMMA StepSwitch == Inv /\ (SwitchInPlace \/ Rebuild) => Inv'
  <1> SUFFICES ASSUME Inv, SwitchInPlace \/ Rebuild PROVE Inv'
    OBVIOUS
  <1>0. bridge \in Bridges /\ Linked
    BY DEF SwitchInPlace, Rebuild, Live, Inv, Types, BridgeTypes
  <1>1. PICK s \in Sessions :
          \/ bridge' = [bridge EXCEPT !.sess = s, !.rev = 1, !.seq = 0]
          \/ bridge' = [bridge EXCEPT !.linked = FALSE, !.sess = s, !.rev = 0, !.seq = 0]
    <2>1. CASE SwitchInPlace
      <3>1. [bridge EXCEPT !.sess = @ + 1, !.rev = 1, !.seq = 0].sess = bridge.sess + 1
        BY <1>0 DEF Bridges
      <3> QED BY <2>1, <3>1 DEF SwitchInPlace
    <2>2. CASE Rebuild
      BY <2>2 DEF Rebuild
    <2> QED BY <2>1, <2>2
  <1>2. bridge' \in Bridges
    BY <1>1, BridgeTyped DEF Inv, Types
  <1>3. bridge'.conn = bridge.conn /\ (bridge'.linked => bridge.linked)
    BY <1>0, <1>1 DEF Bridges
  <1>4. dialog' \in [Dialogs -> Dialogue]
    BY DialogueTyped DEF SwitchInPlace, Rebuild, Inv, Types, BridgeTypes, EndDialogs
  <1>5. \E m \in Message : Send(<<m>>)
    <2>1. CASE SwitchInPlace
      <3>1. Plain("snapshot", bridge') \in Message
        BY <1>2, PlainTyped DEF Inv, Types
      <3>2. log' = log
        BY <2>1 DEF SwitchInPlace
      <3> QED BY <2>1, <3>1, <3>2 DEF SwitchInPlace, Plain, Line
    <2>2. CASE Rebuild
      <3>1. Plain("goodbye", bridge) \in Message
        BY <1>0, PlainTyped DEF Inv, Types
      <3> QED BY <2>2, <3>1 DEF Rebuild
    <2> QED BY <2>1, <2>2
  <1>6. line' \in [Conns -> Seq(Message)]
        /\ \A c \in Conns : line'[c] = line[c] \/ (c = bridge.conn)
    <2>1. PICK m \in Message : Send(<<m>>)
      BY <1>5
    <2>2. <<m>> \in Seq(Message)
      OBVIOUS
    <2> QED BY <1>0, <2>1, <2>2, SendTyped DEF Inv, Types
  <1> QED BY <1>2, <1>3, <1>4, <1>6, BridgeStep
          DEF SwitchInPlace, Rebuild, Inv, Types, BridgeTypes, ConnTypes

LEMMA StepLeave == Inv /\ (Exit \/ Drop) => Inv'
  <1> SUFFICES ASSUME Inv, Exit \/ Drop PROVE Inv'
    OBVIOUS
  <1>0. bridge \in Bridges
    BY DEF Inv, Types, BridgeTypes
  <1>1. bridge' \in Bridges
    BY Constants, BridgeTyped, 0 \in {0, 1} DEF Exit, Drop, Inv, Types
  <1>2. bridge'.conn = bridge.conn /\ ~bridge'.linked
    BY <1>0 DEF Exit, Drop, Bridges
  <1>3. dialog' \in [Dialogs -> Dialogue]
    BY DialogueTyped DEF Exit, Drop, Inv, Types, BridgeTypes, EndDialogs
  <1>4. faults' \in 0..MaxFaults
    BY Constants DEF Exit, Drop, Fault, Inv, Types, BridgeTypes
  <1>5. line' \in [Conns -> Seq(Message)]
        /\ \A c \in Conns : line'[c] = line[c] \/ (c = bridge.conn)
    <2>1. CASE line' = line
      BY <2>1 DEF Inv, Types, ConnTypes
    <2>2. CASE Linked /\ Send(<<Plain("goodbye", bridge)>>)
      <3>1. <<Plain("goodbye", bridge)>> \in Seq(Message)
        BY <1>0, PlainTyped DEF Inv, Types
      <3> QED BY <2>2, <3>1, SendTyped DEF Inv, Types
    <2> QED BY <2>1, <2>2 DEF Exit, Drop
  <1> QED BY <1>1, <1>2, <1>3, <1>4, <1>5, BridgeStep
          DEF Exit, Drop, Inv, Types, BridgeTypes, ConnTypes

-----------------------------------------------------------------------------
(* The broker and the registry *)

\* A step of the dashboard reads lines, and writes none.
LEMMA BrokerStep ==
  ASSUME Inv, UNCHANGED bridgeVars, faults' \in 0..MaxFaults,
         sock' \in [Conns -> Socks], bound' \in [Conns -> BOOLEAN],
         intent' \in [Conns -> BOOLEAN], asked' \in BOOLEAN,
         line' \in [Conns -> Seq(Message)],
         \A c \in Conns : line'[c] # <<>> => line[c] # <<>>,
         entry' # Nil => /\ entry' \in Entries /\ bound'[entry'.conn]
                         /\ entry'.conn <= bridge.conn
                         /\ entry'.timer => sock'[entry'.conn] = "closed"
  PROVE  Inv'
  <1>1. ConnTypes' /\ EntryTypes' /\ GraceIsForClosed'
    BY DEF ConnTypes, EntryTypes, GraceIsForClosed
  <1>2. BridgeTypes' /\ Known'
    BY DEF bridgeVars, Inv, Types, BridgeTypes, Known
  <1> QED BY <1>1, <1>2 DEF Inv, Types

\* What the invariant says of the entry and of a line that is handled.
LEMMA Facts ==
  ASSUME Inv
  PROVE  /\ sock \in [Conns -> Socks] /\ bound \in [Conns -> BOOLEAN]
         /\ intent \in [Conns -> BOOLEAN] /\ line \in [Conns -> Seq(Message)]
         /\ asked \in BOOLEAN /\ faults \in 0..MaxFaults
         /\ entry # Nil => /\ entry \in Entries /\ entry.conn \in Conns /\ bound[entry.conn]
                           /\ entry.conn <= bridge.conn
                           /\ entry.timer => sock[entry.conn] = "closed"
         /\ \A c \in Conns : line[c] # <<>> =>
              /\ c <= bridge.conn /\ Top(c) \in Message /\ Tail(line[c]) \in Seq(Message)
  <1>1. \A c \in Conns : line[c] # <<>> => Top(c) \in Message /\ Tail(line[c]) \in Seq(Message)
    BY DEF Inv, Types, ConnTypes, Top
  <1> QED BY <1>1 DEF Inv, Types, ConnTypes, BridgeTypes, EntryTypes, Entries, Known, GraceIsForClosed

LEMMA FaultTyped ==
  ASSUME Inv, Fault
  PROVE  faults' \in 0..MaxFaults
  BY Constants DEF Fault, Inv, Types, BridgeTypes

LEMMA Pops ==
  ASSUME Inv, NEW c \in Conns, line[c] # <<>>, Pop(c)
  PROVE  /\ line' \in [Conns -> Seq(Message)]
         /\ \A x \in Conns : line'[x] # <<>> => line[x] # <<>>
  BY Facts DEF Pop

LEMMA Cleared ==
  ASSUME Inv, NEW c \in Conns, line' = [line EXCEPT ![c] = <<>>]
  PROVE  /\ line' \in [Conns -> Seq(Message)]
         /\ \A x \in Conns : line'[x] # <<>> => line[x] # <<>>
  <1>1. line \in [Conns -> Seq(Message)] /\ <<>> \in Seq(Message)
    BY Facts
  <1>2. line' \in [Conns -> Seq(Message)]
    BY <1>1
  <1>3. \A x \in Conns : line'[x] \in {line[x], <<>>}
    BY <1>1
  <1> QED BY <1>2, <1>3

LEMMA RejectStep ==
  ASSUME Inv, NEW c \in Conns, line[c] # <<>>, Reject(c), UNCHANGED <<bound, asked, bridgeVars>>,
         faults' \in 0..MaxFaults
  PROVE  Inv'
  <1>1. CASE sock[c] \in {"destroyed", "closed"}
    BY <1>1, Facts, Pops, BrokerStep DEF Reject, Gone
  <1>2. CASE sock[c] \notin {"destroyed", "closed"}
    <2>1. /\ sock' \in [Conns -> Socks] /\ sock'[c] = "ended"
          /\ \A x \in Conns : x # c => sock'[x] = sock[x]
      BY <1>2, Facts DEF Reject, Gone, Socks
    <2>2. intent' \in [Conns -> BOOLEAN]
      BY <1>2, Facts DEF Reject, Gone
    <2>3. /\ line' \in [Conns -> Seq(Message)]
          /\ \A x \in Conns : line'[x] # <<>> => line[x] # <<>>
      <3>1. line' = [line EXCEPT ![c] = <<>>]
        BY <1>2 DEF Reject, Gone
      <3> QED BY <3>1, Cleared
    <2>4. entry' = entry \/ entry' = Nil
      BY <1>2 DEF Reject, Gone
    <2>5. entry' # Nil => (entry'.timer => sock'[entry'.conn] = "closed")
      BY <1>2, <2>1, <2>4, Facts
    <2> QED BY <2>1, <2>2, <2>3, <2>4, <2>5, Facts, BrokerStep
  <1> QED BY <1>1, <1>2

LEMMA StepRefuse == ASSUME Inv, NEW c \in Conns, Refuse(c) PROVE Inv'
  <1>1. faults' \in 0..MaxFaults
    BY Facts, FaultTyped DEF Refuse
  <1> QED BY <1>1, RejectStep DEF Refuse

LEMMA StepHello == ASSUME Inv, NEW c \in Conns, Hello(c) PROVE Inv'
  <1>1. line[c] # <<>> /\ c <= bridge.conn /\ bound' = [bound EXCEPT ![c] = TRUE]
    BY Facts DEF Hello, Binding
  <1>2. bound' \in [Conns -> BOOLEAN] /\ bound'[c]
    BY <1>1, Facts
  <1>3. CASE entry = Nil
    <2>1. entry' = NewEntry(c) /\ Pop(c) /\ sock' = sock
      BY <1>3 DEF Hello
    <2>2. NewEntry(c) \in Entries /\ NewEntry(c).conn = c /\ NewEntry(c).timer = FALSE
      BY DEF NewEntry, Entries
    <2> QED BY <1>1, <1>2, <2>1, <2>2, Facts, Pops, BrokerStep DEF Hello, Others
  <1>4. CASE entry # Nil
    <2>1. /\ entry' = TakenOver(c) /\ entry \in Entries /\ entry.conn \in Conns
          /\ sock' = [sock EXCEPT ![entry.conn] = Close(entry.conn)]
          /\ line' = [line EXCEPT ![c] = Tail(@), ![entry.conn] = <<>>]
      BY <1>4, Facts DEF Hello
    <2>2. TakenOver(c) \in Entries /\ TakenOver(c).conn = c /\ TakenOver(c).timer = FALSE
      BY <2>1 DEF TakenOver, Entries
    <2>3. sock' \in [Conns -> Socks]
      BY <2>1, Facts DEF Close, Socks
    <2>4. /\ line' \in [Conns -> Seq(Message)]
          /\ \A x \in Conns : line'[x] # <<>> => line[x] # <<>>
      <3> DEFINE rest == [line EXCEPT ![c] = Tail(@)]
      <3>1. rest \in [Conns -> Seq(Message)] /\ \A x \in Conns : rest[x] # <<>> => line[x] # <<>>
        BY <1>1, Facts
      <3>2. line' = [rest EXCEPT ![entry.conn] = <<>>]
        BY <2>1
      <3> HIDE DEF rest
      <3>3. \A x \in Conns : line'[x] \in {rest[x], <<>>}
        BY <2>1, <3>1, <3>2
      <3>4. line' \in [Conns -> Seq(Message)]
        BY <2>1, <3>1, <3>2, <<>> \in Seq(Message)
      <3> QED BY <3>1, <3>3, <3>4
    <2> QED BY <1>1, <1>2, <2>1, <2>2, <2>3, <2>4, Facts, BrokerStep DEF Hello, Others
  <1> QED BY <1>3, <1>4

\* The mirror keeps its connection and its timer, whatever it makes of a line.
LEMMA GapTaken ==
  ASSUME NEW e \in Entries, NEW t, t = [e EXCEPT !.awaiting = TRUE]
  PROVE  t \in Entries /\ t.conn = e.conn /\ t.timer = e.timer
  BY DEF Entries

LEMMA ApplyTyped ==
  ASSUME entry \in Entries, NEW m \in Message
  PROVE  Apply(m) \in Entries /\ Apply(m).conn = entry.conn /\ Apply(m).timer = entry.timer
  <1> DEFINE es == IF m.dialog = Nil THEN Newest(Append(entry.entries, <<m.sess, m.at>>))
                   ELSE entry.entries
             ui == IF m.dialog = Nil THEN entry.pendingUi
                   ELSE IF m.opens THEN entry.pendingUi \cup {m.dialog}
                   ELSE entry.pendingUi \ {m.dialog}
  <1>1. m.sess \in Sessions /\ m.at \in Nat /\ m.dialog \in Dialogs \cup {Nil}
    BY DEF Message
  <1>2. entry.entries \in Seq(Sessions \X Nat) /\ entry.pendingUi \in SUBSET Dialogs
    BY DEF Entries
  <1>3. Append(entry.entries, <<m.sess, m.at>>) \in Seq(Sessions \X Nat)
    BY <1>1, <1>2
  <1>4. es \in Seq(Sessions \X Nat)
    BY <1>2, <1>3, NewestTyped
  <1>5. ui \in SUBSET Dialogs
    BY <1>1, <1>2
  <1>6. Apply(m) = [entry EXCEPT !.seq = m.seq, !.stale = FALSE, !.entries = es, !.pendingUi = ui]
    BY DEF Apply
  <1>7. m.seq \in Nat
    BY DEF Message
  <1> HIDE DEF es, ui
  <1> QED BY <1>4, <1>5, <1>6, <1>7 DEF Entries

LEMMA StepSnapshot == ASSUME Inv, NEW c \in Conns, Snapshot(c) PROVE Inv'
  <1> DEFINE m == Top(c)
             es == Newest([i \in 1..m.at |-> <<m.sess, i>>])
  <1>1. line[c] # <<>> /\ m \in Message
    BY Facts DEF Snapshot
  <1>2. CASE ~Current(c)
    BY <1>1, <1>2, RejectStep, Facts DEF Snapshot, Others
  <1>3. CASE Current(c)
    <2>1. entry # Nil /\ entry \in Entries /\ Pop(c) /\ sock' = sock /\ intent' = intent
      BY <1>3, Facts DEF Snapshot, Current
    <2>2. es \in Seq(Sessions \X Nat)
      <3>1. m.at \in Nat /\ m.sess \in Sessions
        BY <1>1 DEF Message
      <3> HIDE DEF m
      <3>2. [i \in 1..m.at |-> <<m.sess, i>>] \in Seq(Sessions \X Nat)
        BY <3>1
      <3> QED BY <3>2, NewestTyped
    <2>3. Kept(m) \in SUBSET Dialogs
      BY <2>1 DEF Kept, Entries
    <2>4. \/ entry' = entry
          \/ entry' = [entry EXCEPT !.attached = TRUE, !.awaiting = FALSE, !.stale = FALSE,
                                    !.rev = m.rev, !.seq = m.seq, !.sess = m.sess,
                                    !.entries = es, !.pendingUi = Kept(m)]
      BY <1>3 DEF Snapshot
    <2>5. asked' \in BOOLEAN
      BY <1>3, Facts DEF Snapshot, Ask
    <2> HIDE DEF m, es
    <2>6. entry' \in Entries /\ entry'.conn = entry.conn /\ entry'.timer = entry.timer
      BY <1>1, <2>1, <2>2, <2>3, <2>4 DEF Entries, Message
    <2> QED BY <1>1, <2>1, <2>5, <2>6, Facts, Pops, BrokerStep DEF Snapshot, Others
  <1> QED BY <1>2, <1>3

LEMMA StepEvent == ASSUME Inv, NEW c \in Conns, Event(c) PROVE Inv'
  <1> DEFINE m == Top(c)
  <1>1. line[c] # <<>> /\ m \in Message
    BY Facts DEF Event
  <1>2. CASE ~Current(c)
    BY <1>1, <1>2, RejectStep, Facts DEF Event, Others
  <1>3. CASE Current(c)
    <2>1. entry # Nil /\ entry \in Entries /\ Pop(c) /\ sock' = sock /\ intent' = intent
      BY <1>3, Facts DEF Event, Current
    <2>2. entry' = entry \/ entry' = Apply(m) \/ entry' = [entry EXCEPT !.awaiting = TRUE]
      BY <1>3 DEF Event
    <2>3. asked' \in BOOLEAN
      BY <1>3, Facts DEF Event, Ask
    <2> HIDE DEF m
    <2>4. entry' \in Entries /\ entry'.conn = entry.conn /\ entry'.timer = entry.timer
      BY <1>1, <2>1, <2>2, ApplyTyped, GapTaken
    <2> QED BY <1>1, <2>1, <2>3, <2>4, Facts, Pops, BrokerStep DEF Event, Others
  <1> QED BY <1>2, <1>3

LEMMA StepGoodbye == ASSUME Inv, NEW c \in Conns, Goodbye(c) PROVE Inv'
  <1>1. line[c] # <<>> /\ Pop(c) /\ entry' \in {entry, Nil}
    BY DEF Goodbye
  <1>2. sock' \in [Conns -> Socks] /\ \A x \in Conns : sock[x] = "closed" => sock'[x] = "closed"
    BY Facts DEF Goodbye, Socks
  <1>3. intent' \in [Conns -> BOOLEAN]
    BY Facts DEF Goodbye
  <1> QED BY <1>1, <1>2, <1>3, Facts, Pops, BrokerStep DEF Goodbye, Others

LEMMA StepCloseEvent == ASSUME Inv, NEW c \in Conns, CloseEvent(c) PROVE Inv'
  <1>1. /\ sock' \in [Conns -> Socks] /\ sock'[c] = "closed"
        /\ \A x \in Conns : sock[x] = "closed" => sock'[x] = "closed"
    BY Facts DEF CloseEvent, Socks
  <1>2. CASE entry' = entry \/ entry' = Nil
    BY <1>1, <1>2, Facts, BrokerStep DEF CloseEvent, Others
  <1>3. CASE Current(c) /\ entry' = [entry EXCEPT !.awaiting = TRUE, !.timer = TRUE]
    <2>1. entry # Nil /\ entry \in Entries /\ entry.conn = c
      BY <1>3, Facts DEF Current
    <2>2. entry' \in Entries /\ entry'.conn = c
      BY <1>3, <2>1 DEF Entries
    <2> QED BY <1>1, <2>1, <2>2, Facts, BrokerStep DEF CloseEvent, Others
  <1> QED BY <1>2, <1>3 DEF CloseEvent

LEMMA StepWatchdog == ASSUME Inv, NEW c \in Conns, Watchdog(c) PROVE Inv'
  <1>1. sock' \in [Conns -> Socks] /\ \A x \in Conns : sock[x] = "closed" => sock'[x] = "closed"
    BY Facts DEF Watchdog, Socks
  <1>2. PICK n \in 0..Len(line[c]) : line' = [line EXCEPT ![c] = SubSeq(@, 1, n)]
    BY DEF Watchdog
  <1>3. line \in [Conns -> Seq(Message)] /\ line[c] \in Seq(Message)
    BY Facts
  <1>4. SubSeq(line[c], 1, n) \in Seq(Message) /\ Len(SubSeq(line[c], 1, n)) = n
    BY <1>3
  <1>5. SubSeq(line[c], 1, n) # <<>> => line[c] # <<>>
    BY <1>3, <1>4
  <1>6. /\ line' \in [Conns -> Seq(Message)]
        /\ \A x \in Conns : line'[x] # <<>> => line[x] # <<>>
    BY <1>2, <1>3, <1>4, <1>5
  <1> QED BY <1>1, <1>6, Facts, FaultTyped, BrokerStep DEF Watchdog

LEMMA StepTimers == Inv /\ (GraceEnds \/ RetryResync \/ Restart) => Inv'
  <1> SUFFICES ASSUME Inv, GraceEnds \/ RetryResync \/ Restart PROVE Inv'
    OBVIOUS
  <1>1. CASE GraceEnds
    BY <1>1, Facts, BrokerStep DEF GraceEnds, Others, connVars
  <1>2. CASE RetryResync
    BY <1>2, Facts, BrokerStep DEF RetryResync, Others, connVars, Ask
  <1>3. CASE Restart
    <2>1. sock' \in [Conns -> Socks]
      BY <1>3 DEF Restart, Socks
    <2>2. line' \in [Conns -> Seq(Message)] /\ \A x \in Conns : line'[x] = <<>>
      BY <1>3 DEF Restart
    <2> QED BY <1>3, <2>1, <2>2, Facts, FaultTyped, BrokerStep DEF Restart
  <1> QED BY <1>1, <1>2, <1>3

LEMMA InvStep == Inv /\ [Next]_vars => Inv'
  <1> SUFFICES ASSUME Inv, [Next]_vars PROVE Inv'
    OBVIOUS
  <1>1. CASE UNCHANGED vars
    BY <1>1, Facts, BrokerStep DEF vars, connVars
  <1>2. ASSUME NEW c \in Conns, Handle(c) PROVE Inv'
    BY <1>2, StepRefuse, StepHello, StepSnapshot, StepEvent, StepGoodbye DEF Handle
  <1> QED
    BY <1>1, <1>2, StepConnect, StepPublish, StepAnswerResync, StepLoseResync, StepSwitch,
       StepLeave, StepDialog, StepCloseEvent, StepWatchdog, StepTimers DEF Next

-----------------------------------------------------------------------------
(* Theorems *)

\* Every variable of the stream keeps its type, and an entry belongs to a connection
\* whose hello was accepted.
THEOREM StreamTypes == Spec => []TypeOK
  <1>1. Inv => TypeOK
    BY DEF Inv, Types, ConnTypes, BridgeTypes, EntryTypes, TypeOK, Socks, Dialogue, Bridges, Entries
  <1> QED BY InvInit, InvStep, <1>1, PTL DEF Spec

\* The timer that detaches a session never runs for one that has come back.
THEOREM GraceSparesTheLiving == Spec => []GraceIsForClosed
  <1>1. Inv => GraceIsForClosed
    BY DEF Inv
  <1> QED BY InvInit, InvStep, <1>1, PTL DEF Spec
=============================================================================
