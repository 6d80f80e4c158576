------------------------ MODULE BrowserMirrorProofs ------------------------
(***************************************************************************)
(* BrowserMirror, for any number of sessions, events, frames and faults:   *)
(* the state has its types, the page shows nothing that a session has not  *)
(* said, its transcript is a stretch of the log of one session, and the    *)
(* grace of a detached row is cancelled on its way when the session is     *)
(* back.                                                                   *)
EXTENDS BrowserMirror, SequenceTheorems, TLAPS

FrameTypes == {"list", "attached", "snapshot", "event", "summary", "detached", "ended"}

\* Only a list may say that there is no session.
Frames  == {f \in [type : FrameTypes, data : Shape \cup {Nil}] :
              f.data = Nil => f.type = "list"}
Answers == [type : {"answer"}, data : Shape \cup {Nil}]
Details == [sess : Sessions, rev : Nat, seq : Nat, needsResync : BOOLEAN,
            entries : Seq(Sessions \X Nat)]

RegTypes ==
    /\ reg \in Shape /\ shown \in BOOLEAN /\ log \in [Sessions -> Nat]
    /\ link \in {"open", "closed"} /\ frames \in Seq(Frames)
    /\ count \in [changes : Nat, restarts : Nat, faults : Nat]
BrowserTypes ==
    /\ http \in [Requests -> [sent : BOOLEAN, got : Answers \cup {Nil}]]
    /\ row \in Shape \cup {Nil} /\ grace \in Shape \cup {Nil}
    /\ detail \in Details \cup {Nil}
Types == RegTypes /\ BrowserTypes

-----------------------------------------------------------------------------
(* What the numbering says, until a bridge starts it again *)

\* A datum of the session: its sequence number is the length of its transcript.
Told(d, n) == d # Nil => d.sess = 1 /\ d.at = d.seq /\ d.seq <= n

First(n) == [i \in 1..n |-> <<1, i>>]

\* The page shows the first entries, at most n.
InStep(n) ==
    detail # Nil => /\ detail.sess = 1 /\ detail.seq <= n
                    /\ detail.entries = First(detail.seq)

Numbered ==
    count.restarts = 0 =>
      /\ reg.sess = 1 /\ reg.at = reg.seq /\ reg.seq = log[1]
      /\ \A n \in DOMAIN frames : Told(frames[n].data, log[1])
      /\ \A r \in Requests : http[r].got # Nil => Told(http[r].got.data, log[1])
      /\ InStep(log[1])

-----------------------------------------------------------------------------
(* The grace of a detached row *)

\* Whatever arms the grace is followed by a frame that cancels it, if the session
\* is back by the time it arrives.
Graceful ==
    /\ link = "closed" => frames = <<>>
    /\ shown /\ link = "open" =>
         /\ grace # Nil => \E n \in DOMAIN frames : Cancels(frames[n])
         /\ \A n \in DOMAIN frames : frames[n].type = "detached"
              => \E m \in DOMAIN frames : n < m /\ Cancels(frames[m])

-----------------------------------------------------------------------------
(* What is said of the logs, whatever the numbering *)

\* Entries, a datum, a frame that the logs l hold.
Holds(l, e)      == \A i \in DOMAIN e : e[i][2] \in 1..l[e[i][1]]
Known(l, d)      == d # Nil => d.at <= l[d.sess]
KnownFrame(l, f) == Known(l, f.data) /\ (f.type = "event" => 1 <= f.data.at)

Written ==
    /\ \A s \in Sessions : log[s] <= MaxEvents
    /\ reg.at = log[reg.sess]
    /\ \A n \in DOMAIN frames : KnownFrame(log, frames[n])
    /\ \A r \in Requests : http[r].got # Nil => Known(log, http[r].got.data)
    /\ detail # Nil => Holds(log, detail.entries)

Inv == Types /\ Numbered /\ Graceful /\ Written

-----------------------------------------------------------------------------
(* What the operators of the model do *)

LEMMA SessionsTyped == 1 \in Sessions /\ Nil \notin Shape
  BY FirstSession, NilIsNoShape

\* A frame that carries a datum of the registry is a frame.
LEMMA DatumFrame ==
  ASSUME NEW t \in FrameTypes, NEW d \in Shape
  PROVE  /\ Frame(t, d) \in Frames
         /\ Frame(t, d).type = t /\ Frame(t, d).data = d /\ d # Nil
  BY SessionsTyped DEF Frame, Frames

LEMMA Broadcasts ==
  ASSUME frames \in Seq(Frames), NEW f \in Frames, Broadcast(f)
  PROVE  /\ frames' \in Seq(Frames)
         /\ link # "open" => frames' = frames
         /\ link = "open" => /\ Len(frames') = Len(frames) + 1
                             /\ frames'[Len(frames) + 1] = f
                             /\ \A n \in 1..Len(frames) : frames'[n] = frames[n]
  BY DEF Broadcast

LEMMA Shifts ==
  ASSUME frames \in Seq(Frames), frames # <<>>, frames' = Tail(frames)
  PROVE  /\ frames' \in Seq(Frames) /\ Len(frames') = Len(frames) - 1
         /\ Head(frames) = frames[1] /\ Head(frames) \in Frames
         /\ \A n \in 1..Len(frames') : n + 1 \in 1..Len(frames) /\ frames'[n] = frames[n + 1]
  OBVIOUS

LEMMA EntriesTyped ==
  ASSUME NEW d \in Shape
  PROVE  Detail(d) \in Details
  <1>1. Entries(d) \in Seq(Sessions \X Nat)
    BY DEF Entries, Shape
  <1> QED BY <1>1 DEF Detail, Details, Shape

\* The hook's effect asks for a fetch; it answers none.
LEMMA EffectTyped ==
  ASSUME NEW h \in [Requests -> [sent : BOOLEAN, got : Answers \cup {Nil}]], Effect(h)
  PROVE  /\ http' \in [Requests -> [sent : BOOLEAN, got : Answers \cup {Nil}]]
         /\ \A r \in Requests : http'[r].got = h[r].got
  <1>1. CASE http' = h
    BY <1>1
  <1>2. CASE http' = [h EXCEPT !["detail"].sent = TRUE]
    <2>1. "detail" \in Requests /\ DOMAIN h = Requests
      BY DEF Requests
    <2>2. h["detail"] \in [sent : BOOLEAN, got : Answers \cup {Nil}]
      BY <2>1
    <2>3. http'["detail"] = [h["detail"] EXCEPT !.sent = TRUE]
      BY <1>2, <2>1
    <2>4. http'["detail"] \in [sent : BOOLEAN, got : Answers \cup {Nil}]
          /\ http'["detail"].got = h["detail"].got
      BY <2>2, <2>3
    <2>5. \A r \in Requests : r # "detail" => http'[r] = h[r]
      BY <1>2, <2>1
    <2>6. DOMAIN http' = Requests /\ http' = [r \in Requests |-> http'[r]]
      BY <1>2, <2>1
    <2> QED BY <2>4, <2>5, <2>6
  <1> QED BY <1>1, <1>2 DEF Effect

\* An answer taken from its request.
LEMMA DoneTyped ==
  ASSUME http \in [Requests -> [sent : BOOLEAN, got : Answers \cup {Nil}]], NEW r \in Requests
  PROVE  /\ Done(r) \in [Requests -> [sent : BOOLEAN, got : Answers \cup {Nil}]]
         /\ \A q \in Requests : Done(r)[q].got \in {http[q].got, Nil}
         /\ http[r].got # Nil => http[r].got.data \in Shape \cup {Nil}
  BY DEF Done, Answers

LEMMA Spends ==
  ASSUME count \in [changes : Nat, restarts : Nat, faults : Nat],
         NEW what \in {"changes", "restarts", "faults"}, NEW max, Spend(what, max)
  PROVE  /\ count' \in [changes : Nat, restarts : Nat, faults : Nat]
         /\ what # "restarts" => count'.restarts = count.restarts
         /\ what = "restarts" => count'.restarts # 0
  BY DEF Spend

-----------------------------------------------------------------------------
(* Types *)

LEMMA TypesInit == Init => Types
  <1> SUFFICES ASSUME Init PROVE Types
    OBVIOUS
  <1>1. reg \in Shape /\ row \in Shape
    BY SessionsTyped DEF Init, Shape
  <1>2. frames \in Seq(Frames) /\ log \in [Sessions -> Nat]
    BY DEF Init
  <1>3. http \in [Requests -> [sent : BOOLEAN, got : Answers \cup {Nil}]]
    BY DEF Init
  <1>4. count \in [changes : Nat, restarts : Nat, faults : Nat]
    BY DEF Init
  <1> QED BY <1>1, <1>2, <1>3, <1>4 DEF Init, Types, RegTypes, BrowserTypes

\* A datum of the registry, a session further, or an event further, is one.
LEMMA RegSteps ==
  ASSUME RegTypes, NEW e \in 0..1
  PROVE  /\ [reg EXCEPT !.rev = @ + 1, !.seq = @ + e, !.at = @ + e] \in Shape
         /\ [reg EXCEPT !.seq = @ + 1, !.at = @ + 1] \in Shape
         /\ [log EXCEPT ![reg.sess] = @ + e] \in [Sessions -> Nat]
         /\ [log EXCEPT ![reg.sess] = @ + e][reg.sess] = log[reg.sess] + e
  <1>1. e \in Nat
    OBVIOUS
  <1>2. reg \in Shape /\ log \in [Sessions -> Nat]
    BY DEF RegTypes
  <1>3. reg.sess \in Sessions /\ log[reg.sess] \in Nat
    BY <1>2 DEF Shape
  <1>4. log[reg.sess] + e \in Nat /\ reg.rev + 1 \in Nat /\ reg.seq + e \in Nat
        /\ reg.at + e \in Nat /\ reg.seq + 1 \in Nat /\ reg.at + 1 \in Nat
    BY <1>1, <1>2, <1>3 DEF Shape
  <1>5. /\ [reg EXCEPT !.rev = @ + 1, !.seq = @ + e, !.at = @ + e] \in Shape
        /\ [reg EXCEPT !.seq = @ + 1, !.at = @ + 1] \in Shape
    BY <1>2, <1>4 DEF Shape
  <1>6. [log EXCEPT ![reg.sess] = @ + e] \in [Sessions -> Nat]
    BY <1>2, <1>3, <1>4
  <1> QED BY <1>2, <1>3, <1>5, <1>6

LEMMA TypesPublish == Types /\ Publish => Types'
  <1> SUFFICES ASSUME Types, Publish PROVE Types'
    OBVIOUS
  <1> USE DEF Types, RegTypes
  <1>1. reg' \in Shape
    BY RegSteps, 1 \in 0..1 DEF Publish
  <1>2. log' \in [Sessions -> Nat]
    BY RegSteps, 1 \in 0..1 DEF Publish
  <1>3. frames' \in Seq(Frames)
    BY <1>1, DatumFrame, Broadcasts DEF Publish, FrameTypes
  <1> QED BY <1>1, <1>2, <1>3 DEF Publish, BrowserTypes, browserVars

LEMMA TypesNextSnapshot ==
  ASSUME Types, NEW type \in {"snapshot", "attached"}, NextSnapshot(type),
         count' \in [changes : Nat, restarts : Nat, faults : Nat]
  PROVE  Types' /\ reg' \in Shape
  <1> USE DEF Types, RegTypes
  <1>1. PICK missed \in 0..1 :
          /\ log' = [log EXCEPT ![reg.sess] = @ + missed]
          /\ reg' = [reg EXCEPT !.rev = @ + 1, !.seq = @ + missed, !.at = @ + missed]
    BY DEF NextSnapshot
  <1>2. reg' \in Shape
    BY <1>1, RegSteps
  <1>3. log' \in [Sessions -> Nat]
    BY <1>1, RegSteps
  <1>4. frames' \in Seq(Frames)
    BY <1>2, DatumFrame, Broadcasts DEF NextSnapshot, FrameTypes
  <1> QED BY <1>2, <1>3, <1>4 DEF NextSnapshot, BrowserTypes, browserVars

LEMMA TypesRestart == Types /\ Restart => Types' /\ reg' \in Shape /\ count'.restarts # 0
  <1> SUFFICES ASSUME Types, Restart PROVE Types' /\ reg' \in Shape /\ count'.restarts # 0
    OBVIOUS
  <1> USE DEF Types, RegTypes
  <1>1. PICK s \in Sessions : reg' = [sess |-> s, rev |-> 1, seq |-> 0, at |-> log[s]]
    BY DEF Restart
  <1>2. reg' \in Shape
    BY <1>1 DEF Shape
  <1>3. frames' \in Seq(Frames)
    <2>1. CASE shown
      BY <2>1, <1>2, DatumFrame, Broadcasts DEF Restart, FrameTypes
    <2>2. CASE ~shown
      BY <2>2, <1>2, DatumFrame, Broadcasts DEF Restart, FrameTypes
    <2> QED BY <2>1, <2>2
  <1>4. /\ count' \in [changes : Nat, restarts : Nat, faults : Nat]
        /\ count'.restarts # 0
    BY Spends DEF Restart
  <1> QED BY <1>2, <1>3, <1>4 DEF Restart, BrowserTypes, browserVars

\* What the reducers make of a datum.
LEMMA DatumTaken ==
  ASSUME Types, NEW d \in Shape
  PROVE  /\ TakeSnapshot(d) => row' \in Shape \cup {Nil} /\ detail' \in Details \cup {Nil}
         /\ TakeAttached(d) => row' \in Shape \cup {Nil} /\ detail' \in Details \cup {Nil}
         /\ Upsert(d)       => row' \in Shape \cup {Nil}
  BY EntriesTyped DEF TakeSnapshot, TakeAttached, Upsert, Types, BrowserTypes

LEMMA EventTaken ==
  ASSUME Types, NEW d \in Shape, TakeEvent(d)
  PROVE  row' \in Shape \cup {Nil} /\ detail' \in Details \cup {Nil}
  <1> USE DEF Types, BrowserTypes
  <1>1. CASE row = Nil \/ detail = Nil \/ d.seq <= detail.seq
    BY <1>1 DEF TakeEvent
  <1>2. CASE /\ row # Nil /\ detail # Nil /\ ~(d.seq <= detail.seq)
    <2> row \in Shape /\ detail \in Details /\ d.seq \in Nat /\ d.sess \in Sessions /\ d.at \in Nat
      BY <1>2 DEF Shape
    <2>1. CASE Follows(d)
      <3>1. row' = [row EXCEPT !.seq = d.seq]
        BY <1>2, <2>1 DEF TakeEvent
      <3>2. row' \in Shape
        BY <3>1 DEF Shape
      <3>3. detail' = [detail EXCEPT !.seq = d.seq, !.entries = Append(@, <<d.sess, d.at>>)]
        BY <1>2, <2>1 DEF TakeEvent
      <3>4. Append(detail.entries, <<d.sess, d.at>>) \in Seq(Sessions \X Nat)
        BY DEF Details
      <3>5. detail' \in Details
        BY <3>3, <3>4 DEF Details
      <3> QED BY <3>2, <3>5
    <2>2. CASE ~Follows(d)
      <3>1. detail' = [detail EXCEPT !.needsResync = TRUE] /\ row' = row
        BY <1>2, <2>2 DEF TakeEvent
      <3> QED BY <3>1 DEF Details
    <2> QED BY <2>1, <2>2
  <1> QED BY <1>1, <1>2

LEMMA TypesReceive == Types /\ Receive => Types'
  <1> SUFFICES ASSUME Types, Receive PROVE Types'
    OBVIOUS
  <1> USE DEF Types, RegTypes
  <1> DEFINE f == Head(frames)
             h == IF f.type = "detached" THEN [http EXCEPT !["list"].sent = TRUE] ELSE http
  <1>1. frames # <<>> /\ frames' = Tail(frames) /\ Effect(h)
    BY DEF Receive
  <1>2. frames' \in Seq(Frames) /\ f \in Frames
    BY <1>1, Shifts
  <1>3. f.type \in FrameTypes /\ f.data \in Shape \cup {Nil} /\ (f.data = Nil => f.type = "list")
    BY <1>2 DEF Frames
  <1>4. h \in [Requests -> [sent : BOOLEAN, got : Answers \cup {Nil}]]
    BY DEF BrowserTypes, Requests
  <1>5. http' \in [Requests -> [sent : BOOLEAN, got : Answers \cup {Nil}]]
    BY <1>1, <1>4, EffectTyped
  <1>6. grace' \in Shape \cup {Nil}
    BY <1>3 DEF Receive, BrowserTypes
  <1>7. row' \in Shape \cup {Nil} /\ detail' \in Details \cup {Nil}
    <2>1. CASE f.type = "list"
      BY <2>1, <1>3, DatumTaken DEF Receive, BrowserTypes
    <2>2. CASE f.type = "attached"
      BY <2>2, <1>3, DatumTaken DEF Receive
    <2>3. CASE f.type = "snapshot"
      BY <2>3, <1>3, DatumTaken DEF Receive
    <2>4. CASE f.type = "event"
      BY <2>4, <1>3, EventTaken DEF Receive
    <2>5. CASE f.type = "summary"
      BY <2>5, <1>3, DatumTaken DEF Receive, BrowserTypes
    <2>6. CASE f.type = "detached"
      BY <2>6 DEF Receive, BrowserTypes
    <2>7. CASE f.type = "ended"
      BY <2>7 DEF Receive, Remove
    <2> QED BY <1>3, <2>1, <2>2, <2>3, <2>4, <2>5, <2>6, <2>7 DEF FrameTypes
  <1> HIDE DEF h, f
  <1> QED BY <1>2, <1>5, <1>6, <1>7 DEF Receive, BrowserTypes, regVars

\* The rest of the actions on the wire.
LEMMA TypesWire ==
  ASSUME Types, \/ Summary \/ Accept \/ Disconnect \/ \E final \in BOOLEAN : Detach(final)
  PROVE  Types'
  <1> USE DEF Types, RegTypes
  <1>1. CASE Summary
    <2>1. frames' \in Seq(Frames)
      BY <1>1, DatumFrame, Broadcasts DEF Summary, FrameTypes
    <2> QED BY <1>1, <2>1, Spends DEF Summary, regVars, browserVars, BrowserTypes
  <1>2. CASE Accept
    <2>1. Frame("list", reg) \in Frames /\ Frame("snapshot", reg) \in Frames
      BY DatumFrame DEF FrameTypes
    <2>2. Frame("list", Nil) \in Frames
      BY DEF Frame, Frames, FrameTypes
    <2>3. frames' \in Seq(Frames)
      BY <1>2, <2>1, <2>2 DEF Accept
    <2> QED BY <1>2, <2>3 DEF Accept, regVars, browserVars, BrowserTypes
  <1>3. CASE Disconnect
    BY <1>3, Spends DEF Disconnect, regVars, browserVars, BrowserTypes
  <1>4. ASSUME NEW final \in BOOLEAN, Detach(final) PROVE Types'
    <2>1. frames' \in Seq(Frames)
      <3>1. CASE final
        BY <1>4, <3>1, DatumFrame, Broadcasts DEF Detach, FrameTypes
      <3>2. CASE ~final
        BY <1>4, <3>2, DatumFrame, Broadcasts DEF Detach, FrameTypes
      <3> QED BY <3>1, <3>2
    <2> QED BY <1>4, <2>1, Spends DEF Detach, regVars, browserVars, BrowserTypes
  <1> QED BY <1>1, <1>2, <1>3, <1>4

\* Requests, their answers, and the end of the grace.
LEMMA TypesHttp ==
  ASSUME Types, \/ ReceiveList \/ ReceiveDetail \/ RefreshNow \/ GraceEnds
                \/ \E r \in Requests : Answer(r) \/ FetchFails(r)
  PROVE  Types'
  <1> USE DEF Types, RegTypes
  <1> DEFINE Https == [Requests -> [sent : BOOLEAN, got : Answers \cup {Nil}]]
  <1>1. CASE ReceiveList
    <2>1. http' \in Https
      BY <1>1, DoneTyped DEF ReceiveList, Requests, BrowserTypes
    <2>2. row' \in Shape \cup {Nil}
      BY <1>1, DoneTyped, DatumTaken DEF ReceiveList, Requests, BrowserTypes, Got
    <2> QED BY <1>1, <2>1, <2>2 DEF ReceiveList, regVars, BrowserTypes
  <1>2. CASE ReceiveDetail
    <2>1. http' \in Https
      BY <1>2, DoneTyped, EffectTyped DEF ReceiveDetail, Requests, BrowserTypes
    <2>2. http["detail"].got.data \in Shape \cup {Nil}
      BY <1>2, DoneTyped DEF ReceiveDetail, Requests, BrowserTypes, Got
    <2>3. row' \in Shape \cup {Nil} /\ detail' \in Details \cup {Nil}
      BY <1>2, <2>2, DatumTaken DEF ReceiveDetail, BrowserTypes
    <2> QED BY <1>2, <2>1, <2>3 DEF ReceiveDetail, regVars, BrowserTypes
  <1>3. CASE RefreshNow
    <2>1. http' \in Https
      BY <1>3 DEF RefreshNow, BrowserTypes
    <2> QED BY <1>3, <2>1, Spends DEF RefreshNow, regVars, browserVars, BrowserTypes
  <1>4. CASE GraceEnds
    BY <1>4 DEF GraceEnds, Remove, regVars, BrowserTypes
  <1>5. ASSUME NEW r \in Requests, Answer(r) PROVE Types'
    <2>1. (IF shown THEN reg ELSE Nil) \in Shape \cup {Nil}
      OBVIOUS
    <2>2. Frame("answer", IF shown THEN reg ELSE Nil) \in Answers
      BY <2>1 DEF Frame, Answers
    <2>3. http' \in Https
      BY <1>5, <2>2 DEF Answer, BrowserTypes
    <2> QED BY <1>5, <2>3 DEF Answer, regVars, browserVars, BrowserTypes
  <1>6. ASSUME NEW r \in Requests, FetchFails(r) PROVE Types'
    <2>1. http' \in Https
      BY <1>6 DEF FetchFails, BrowserTypes
    <2> QED BY <1>6, <2>1, Spends DEF FetchFails, regVars, browserVars, BrowserTypes
  <1> QED BY <1>1, <1>2, <1>3, <1>4, <1>5, <1>6

LEMMA TypesStep == Types /\ [Next]_vars => Types'
  <1> SUFFICES ASSUME Types, [Next]_vars PROVE Types'
    OBVIOUS
  <1>1. CASE Snapshot
    BY <1>1, TypesNextSnapshot, Spends DEF Snapshot, Types, RegTypes
  <1>2. CASE Attach
    BY <1>2, TypesNextSnapshot DEF Attach, Types, RegTypes
  <1>3. CASE UNCHANGED vars
    BY <1>3 DEF vars, regVars, browserVars, Types, RegTypes, BrowserTypes
  <1> QED BY <1>1, <1>2, <1>3, TypesPublish, TypesRestart, TypesWire, TypesHttp, TypesReceive DEF Next

-----------------------------------------------------------------------------
(* The grace *)

\* A frame that cancels the grace goes after those that arm it.
LEMMA GraceAnnounced ==
  ASSUME Types, Graceful, NEW f \in Frames, Broadcast(f), UNCHANGED <<link, grace>>,
         Cancels(f) \/ (f.type # "detached" /\ shown)
  PROVE  Graceful'
  <1>1. frames \in Seq(Frames)
    BY DEF Types, RegTypes
  <1>2. link = "closed" => frames' = <<>>
    BY <1>1, Broadcasts DEF Graceful
  <1>3. ASSUME shown', link' = "open"
        PROVE  /\ grace' # Nil => \E n \in DOMAIN frames' : Cancels(frames'[n])
               /\ \A n \in DOMAIN frames' : frames'[n].type = "detached"
                    => \E m \in DOMAIN frames' : n < m /\ Cancels(frames'[m])
    <2>1. /\ Len(frames) \in Nat /\ DOMAIN frames = 1..Len(frames)
          /\ DOMAIN frames' = 1..(Len(frames) + 1)
          /\ frames'[Len(frames) + 1] = f
          /\ \A n \in 1..Len(frames) : frames'[n] = frames[n]
      BY <1>1, <1>3, Broadcasts
    <2>2. f.type # "detached"
      BY DEF Cancels
    <2>3. CASE Cancels(f)
      BY <2>1, <2>2, <2>3
    <2>4. CASE ~Cancels(f)
      BY <1>3, <2>1, <2>2, <2>4 DEF Graceful
    <2> QED BY <2>3, <2>4
  <1> QED BY <1>2, <1>3 DEF Graceful

LEMMA GraceReceive == Types /\ Graceful /\ Receive => Graceful'
  <1> SUFFICES ASSUME Types, Graceful, Receive PROVE Graceful'
    OBVIOUS
  <1> DEFINE f == Head(frames)
  <1>1. /\ frames \in Seq(Frames) /\ frames # <<>> /\ frames' = Tail(frames)
        /\ link' = link /\ shown' = shown /\ link \in {"open", "closed"}
    BY DEF Receive, Types, RegTypes, regVars
  <1>2. link = "open"
    BY <1>1 DEF Graceful
  <1>3. /\ f = frames[1] /\ DOMAIN frames = 1..Len(frames) /\ Len(frames) \in Nat
        /\ DOMAIN frames' = 1..(Len(frames) - 1)
        /\ \A n \in 1..(Len(frames) - 1) : n + 1 \in 1..Len(frames) /\ frames'[n] = frames[n + 1]
    BY <1>1, Shifts
  <1>4. grace' = IF Cancels(f) \/ f.type = "ended" THEN Nil
                 ELSE IF f.type = "detached" THEN f.data ELSE grace
    BY DEF Receive
  <1> HIDE DEF f
  <1>5. \A m \in 2..Len(frames) :
           m - 1 \in 1..(Len(frames) - 1) /\ frames'[m - 1] = frames[m]
    BY <1>3
  <1>6. ASSUME shown, grace' # Nil
        PROVE  \E n \in DOMAIN frames' : Cancels(frames'[n])
    <2>1. \E m \in 2..Len(frames) : Cancels(frames[m])
      <3>1. CASE f.type = "detached"
        <4>1. 1 \in DOMAIN frames
          BY <1>1, <1>3
        <4>2. PICK m \in DOMAIN frames : 1 < m /\ Cancels(frames[m])
          BY <4>1, <1>2, <1>3, <1>6, <3>1 DEF Graceful
        <4> QED BY <4>2, <1>3
      <3>2. CASE f.type # "detached"
        <4>1. grace # Nil /\ ~Cancels(f)
          BY <3>2, <1>4, <1>6
        <4>2. PICK m \in DOMAIN frames : Cancels(frames[m])
          BY <4>1, <1>2, <1>6 DEF Graceful
        <4>3. m # 1
          BY <4>1, <4>2, <1>3
        <4> QED BY <4>2, <4>3, <1>3
      <3> QED BY <3>1, <3>2
    <2>2. PICK m \in 2..Len(frames) : Cancels(frames[m])
      BY <2>1
    <2> QED BY <2>2, <1>3, <1>5
  <1>7. ASSUME shown, NEW n \in DOMAIN frames', frames'[n].type = "detached"
        PROVE  \E m \in DOMAIN frames' : n < m /\ Cancels(frames'[m])
    <2>1. n \in Nat /\ n + 1 \in DOMAIN frames /\ frames[n + 1].type = "detached"
      BY <1>3, <1>7
    <2>2. PICK m \in DOMAIN frames : n + 1 < m /\ Cancels(frames[m])
      BY <2>1, <1>2, <1>7 DEF Graceful
    <2>3. m \in 2..Len(frames) /\ n < m - 1
      BY <2>1, <2>2, <1>3
    <2> QED BY <2>2, <2>3, <1>3, <1>5
  <1> QED BY <1>1, <1>2, <1>6, <1>7 DEF Graceful

LEMMA GracefulStep == Types /\ Graceful /\ [Next]_vars => Graceful'
  <1> SUFFICES ASSUME Types, Graceful, [Next]_vars PROVE Graceful'
    OBVIOUS
  <1>0. Types'
    BY TypesStep
  <1>1. CASE Publish
    <2>1. Frame("event", reg') \in Frames /\ Frame("event", reg').type = "event"
      BY <1>0, DatumFrame DEF Types, RegTypes, FrameTypes
    <2> QED BY <1>1, <2>1, GraceAnnounced DEF Publish, browserVars
  <1>2. ASSUME NEW type \in {"snapshot", "attached"}, Broadcast(Frame(type, reg')),
               UNCHANGED <<link, browserVars>>
        PROVE  Graceful'
    <2>1. Frame(type, reg') \in Frames /\ Cancels(Frame(type, reg'))
      BY <1>0, DatumFrame DEF Types, RegTypes, FrameTypes, Cancels
    <2> QED BY <1>2, <2>1, GraceAnnounced DEF browserVars
  <1>3. CASE Snapshot
    BY <1>2, <1>3 DEF Snapshot, NextSnapshot
  <1>4. CASE Attach
    BY <1>2, <1>4 DEF Attach, NextSnapshot
  <1>5. CASE Restart
    BY <1>2, <1>5 DEF Restart
  <1>6. CASE Summary
    <2>1. Frame("summary", reg) \in Frames /\ Frame("summary", reg).type = "summary"
      BY DatumFrame DEF Types, RegTypes, FrameTypes
    <2> QED BY <1>6, <2>1, GraceAnnounced DEF Summary, browserVars
  <1>7. ASSUME NEW final \in BOOLEAN, Detach(final) PROVE Graceful'
    <2>1. ~shown' /\ link' = link /\ (link # "open" => frames' = frames)
      BY <1>7 DEF Detach, Broadcast
    <2> QED BY <2>1 DEF Graceful
  <1>8. CASE Accept
    <2>1. link' = "open" /\ shown' = shown
      BY <1>8 DEF Accept, regVars
    <2>2. ASSUME shown
          PROVE  /\ DOMAIN frames' = {1, 2} /\ Cancels(frames'[2])
                 /\ frames'[1].type # "detached" /\ frames'[2].type # "detached"
      BY <1>8, <2>2, DatumFrame DEF Accept, Types, RegTypes, FrameTypes, Cancels
    <2> QED BY <2>1, <2>2 DEF Graceful
  <1>9. CASE Receive
    BY <1>9, GraceReceive
  <1>10. CASE Disconnect
    BY <1>10 DEF Disconnect, Graceful
  <1>11. CASE GraceEnds
    BY <1>11 DEF GraceEnds, regVars, Graceful
  <1>12. ASSUME UNCHANGED <<shown, link, frames, grace>> PROVE Graceful'
    BY <1>12 DEF Graceful, Cancels
  <1>13. CASE \/ ReceiveList \/ ReceiveDetail \/ RefreshNow \/ UNCHANGED vars
              \/ \E r \in Requests : Answer(r) \/ FetchFails(r)
    BY <1>12, <1>13 DEF ReceiveList, ReceiveDetail, RefreshNow, Answer, FetchFails, vars, regVars,
       browserVars
  <1> QED BY <1>1, <1>3, <1>4, <1>5, <1>6, <1>7, <1>8, <1>9, <1>10, <1>11, <1>13 DEF Next

-----------------------------------------------------------------------------
(* The numbering *)

LEMMA NumberedInit == Init => Numbered
  BY SessionsTyped DEF Init, Numbered, InStep

\* The registry goes on, by e events, and says so.
LEMMA NumberedOn ==
  ASSUME Types, Numbered, Types', NEW e \in 0..1,
         log' = [log EXCEPT ![reg.sess] = @ + e],
         reg'.sess = reg.sess, reg'.seq = reg.seq + e, reg'.at = reg.at + e,
         NEW type \in FrameTypes, Broadcast(Frame(type, reg')),
         UNCHANGED <<http, browserVars>>, count'.restarts = count.restarts
  PROVE  Numbered'
  <1> USE DEF Types, RegTypes
  <1> SUFFICES ASSUME count.restarts = 0
               PROVE  /\ reg'.sess = 1 /\ reg'.at = reg'.seq /\ reg'.seq = log'[1]
                      /\ \A n \in DOMAIN frames' : Told(frames'[n].data, log'[1])
                      /\ \A r \in Requests : http'[r].got # Nil => Told(http'[r].got.data, log'[1])
                      /\ InStep(log[1])'
    BY DEF Numbered
  <1>1. reg.sess = 1 /\ reg.at = reg.seq /\ reg.seq = log[1] /\ log[1] \in Nat /\ e \in Nat
    BY SessionsTyped DEF Numbered
  <1>2. log'[1] = log[1] + e
    BY <1>1, SessionsTyped
  <1>3. reg'.sess = 1 /\ reg'.at = reg'.seq /\ reg'.seq = log'[1]
    BY <1>1, <1>2
  <1>4. ASSUME NEW d \in Shape \cup {Nil}, Told(d, log[1]) PROVE Told(d, log'[1])
    BY <1>1, <1>2, <1>4 DEF Told, Shape
  <1>5. ASSUME NEW n \in DOMAIN frames' PROVE Told(frames'[n].data, log'[1])
    <2>1. Frame(type, reg') \in Frames /\ Frame(type, reg').data = reg'
      BY DatumFrame
    <2>2. Told(reg', log'[1])
      BY <1>2, <1>3, <1>1 DEF Told
    <2>3. ASSUME n \in DOMAIN frames, frames'[n] = frames[n] PROVE Told(frames'[n].data, log'[1])
      <3>1. frames[n] \in Frames
        BY <2>3
      <3>2. Told(frames[n].data, log[1])
        BY <2>3 DEF Numbered
      <3> QED BY <2>3, <3>1, <3>2, <1>4 DEF Frames
    <2>4. CASE frames'[n] = Frame(type, reg')
      BY <2>1, <2>2, <2>4
    <2>5. frames'[n] = Frame(type, reg') \/ (n \in DOMAIN frames /\ frames'[n] = frames[n])
      <3>1. CASE link = "open"
        <4>1. n \in 1..(Len(frames) + 1) /\ Len(frames) \in Nat
          BY <2>1, <3>1, Broadcasts
        <4>2. /\ frames'[Len(frames) + 1] = Frame(type, reg')
              /\ \A m \in 1..Len(frames) : frames'[m] = frames[m]
          BY <2>1, <3>1, Broadcasts
        <4>3. n = Len(frames) + 1 \/ n \in 1..Len(frames)
          BY <4>1
        <4> QED BY <4>2, <4>3
      <3>2. CASE link # "open"
        BY <2>1, <3>2, Broadcasts
      <3> QED BY <3>1, <3>2
    <2> QED BY <2>3, <2>4, <2>5
  <1>6. ASSUME NEW r \in Requests, http'[r].got # Nil PROVE Told(http'[r].got.data, log'[1])
    <2>1. http'[r] = http[r] /\ http[r].got \in Answers
      BY <1>6 DEF BrowserTypes
    <2>2. Told(http[r].got.data, log[1])
      BY <1>6, <2>1 DEF Numbered
    <2> QED BY <2>1, <2>2, <1>4 DEF Answers
  <1>7. InStep(log[1])'
    <2> SUFFICES ASSUME detail # Nil, detail' = detail
                 PROVE  detail.sess = 1 /\ detail.seq <= log'[1] /\ detail.entries = First(detail.seq)
      BY DEF browserVars, InStep
    <2>1. detail.seq \in Nat /\ detail.seq <= log[1] /\ detail.sess = 1
          /\ detail.entries = First(detail.seq)
      BY DEF Numbered, BrowserTypes, Details, InStep
    <2> QED BY <1>1, <1>2, <2>1
  <1> QED BY <1>3, <1>5, <1>6, <1>7

\* A datum that the browser takes keeps the page in step.
LEMMA DatumInStep ==
  ASSUME Types, NEW d \in Shape, NEW n \in Nat, Told(d, n), InStep(n),
         TakeSnapshot(d) \/ TakeAttached(d)
  PROVE  InStep(n)'
  <1>1. d # Nil
    BY SessionsTyped
  <1>2. d.sess = 1 /\ d.at = d.seq /\ d.seq <= n
    BY <1>1 DEF Told
  <1>3. Detail(d).sess = 1 /\ Detail(d).seq = d.seq /\ Detail(d).entries = First(d.seq)
    BY <1>2 DEF Detail, Entries, First
  <1>4. detail' = detail \/ detail' = Detail(d)
    BY DEF TakeSnapshot, TakeAttached
  <1> QED BY <1>2, <1>3, <1>4 DEF InStep

LEMMA FirstGrows ==
  ASSUME NEW n \in Nat
  PROVE  Append(First(n), <<1, n + 1>>) = First(n + 1)
  <1> DEFINE E == {1} \X Nat
             a == Append(First(n), <<1, n + 1>>)
  <1>1. First(n) \in Seq(E) /\ First(n + 1) \in Seq(E) /\ <<1, n + 1>> \in E
    BY DEF First
  <1>2. Len(First(n)) = n /\ Len(First(n + 1)) = n + 1
    BY DEF First
  <1>3. /\ a \in Seq(E) /\ Len(a) = n + 1
        /\ a[n + 1] = <<1, n + 1>> /\ \A i \in 1..n : a[i] = First(n)[i]
    BY <1>1, <1>2, AppendProperties
  <1> HIDE DEF E, a
  <1>4. ASSUME NEW i \in 1..Len(a) PROVE a[i] = First(n + 1)[i]
    <2>1. i \in 1..n \/ i = n + 1
      BY <1>3
    <2>2. First(n + 1)[i] = <<1, i>> /\ (i \in 1..n => First(n)[i] = <<1, i>>)
      BY <2>1 DEF First
    <2> QED BY <1>3, <2>1, <2>2
  <1> QED BY <1>1, <1>2, <1>3, <1>4, SeqEqual DEF a

LEMMA EventInStep ==
  ASSUME Types, NEW d \in Shape, NEW n \in Nat, Told(d, n), InStep(n), TakeEvent(d)
  PROVE  InStep(n)'
  <1> USE DEF Types, BrowserTypes
  <1>1. CASE detail' = detail
    BY <1>1 DEF InStep
  <1>2. CASE detail' # detail
    <2>1. detail # Nil /\ detail \in Details
      BY <1>2 DEF TakeEvent
    <2>2. /\ d.sess = 1 /\ d.at = d.seq /\ d.seq <= n /\ d.seq \in Nat /\ detail.seq \in Nat
          /\ detail.sess = 1 /\ detail.seq <= n /\ detail.entries = First(detail.seq)
      BY <2>1, SessionsTyped DEF Told, InStep, Shape, Details
    <2>3. CASE Follows(d)
      <3>1. detail' = [detail EXCEPT !.seq = d.seq, !.entries = Append(@, <<d.sess, d.at>>)]
        BY <1>2, <2>3 DEF TakeEvent
      <3>2. d.seq = detail.seq + 1
        BY <2>3 DEF Follows
      <3>3. Append(detail.entries, <<d.sess, d.at>>) = First(d.seq)
        BY <2>2, <3>2, FirstGrows
      <3>4. detail'.sess = 1 /\ detail'.seq = d.seq
            /\ detail'.entries = Append(detail.entries, <<d.sess, d.at>>)
        BY <2>1, <2>2, <3>1 DEF Details
      <3> QED BY <2>2, <3>3, <3>4 DEF InStep
    <2>4. CASE ~Follows(d)
      <3>1. detail' = [detail EXCEPT !.needsResync = TRUE]
        BY <1>2, <2>4 DEF TakeEvent
      <3>2. detail'.sess = 1 /\ detail'.seq = detail.seq /\ detail'.entries = detail.entries
        BY <2>1, <2>2, <3>1 DEF Details
      <3> QED BY <2>2, <3>2 DEF InStep
    <2> QED BY <2>3, <2>4
  <1> QED BY <1>1, <1>2

\* The registry's numbers stay; so do the frames and the answers, but for what is
\* handled, or said of the registry as it is.
LEMMA NumberedStays ==
  ASSUME Types, Numbered, Types', UNCHANGED <<reg, log>>, count'.restarts = count.restarts,
         count.restarts = 0 =>
           /\ \A n \in DOMAIN frames' : \/ frames'[n].data \in {reg, Nil}
                                        \/ \E m \in DOMAIN frames : frames'[n] = frames[m]
           /\ \A r \in Requests : \/ http'[r].got \in {http[r].got, Nil}
                                  \/ http'[r].got.data \in {reg, Nil}
           /\ InStep(log[1])'
  PROVE  Numbered'
  <1> SUFFICES ASSUME count.restarts = 0
               PROVE  /\ reg.sess = 1 /\ reg.at = reg.seq /\ reg.seq = log[1]
                      /\ \A n \in DOMAIN frames' : Told(frames'[n].data, log[1])
                      /\ \A r \in Requests : http'[r].got # Nil => Told(http'[r].got.data, log[1])
                      /\ InStep(log[1])'
    BY DEF Numbered
  <1>1. /\ reg.sess = 1 /\ reg.at = reg.seq /\ reg.seq = log[1] /\ log[1] \in Nat
        /\ \A n \in DOMAIN frames : Told(frames[n].data, log[1])
        /\ \A r \in Requests : http[r].got # Nil => Told(http[r].got.data, log[1])
    BY SessionsTyped DEF Numbered, Types, RegTypes
  <1>2. Told(reg, log[1]) /\ Told(Nil, log[1])
    BY <1>1 DEF Told
  <1>3. ASSUME NEW n \in DOMAIN frames' PROVE Told(frames'[n].data, log[1])
    BY <1>1, <1>2, <1>3
  <1>4. ASSUME NEW r \in Requests, http'[r].got # Nil PROVE Told(http'[r].got.data, log[1])
    BY <1>1, <1>2, <1>4
  <1> QED BY <1>1, <1>3, <1>4

LEMMA BroadcastStays ==
  ASSUME Types, NEW type \in FrameTypes, Broadcast(Frame(type, reg))
  PROVE  \A n \in DOMAIN frames' : \/ frames'[n].data \in {reg, Nil}
                                   \/ \E m \in DOMAIN frames : frames'[n] = frames[m]
  <1>1. Frame(type, reg) \in Frames /\ Frame(type, reg).data = reg /\ frames \in Seq(Frames)
    BY DatumFrame DEF Types, RegTypes
  <1>2. CASE link = "open"
    <2>1. DOMAIN frames' = 1..(Len(frames) + 1) /\ DOMAIN frames = 1..Len(frames)
          /\ Len(frames) \in Nat
      BY <1>1, <1>2, Broadcasts
    <2> QED BY <1>1, <1>2, <2>1, Broadcasts
  <1>3. CASE link # "open"
    BY <1>1, <1>3, Broadcasts
  <1> QED BY <1>2, <1>3

LEMMA NumberedReceive == Types /\ Numbered /\ Receive => Numbered'
  <1> SUFFICES ASSUME Types, Numbered, Receive PROVE Numbered'
    OBVIOUS
  <1> DEFINE f == Head(frames)
             h == IF f.type = "detached" THEN [http EXCEPT !["list"].sent = TRUE] ELSE http
  <1>1. frames \in Seq(Frames) /\ frames # <<>> /\ frames' = Tail(frames) /\ Effect(h)
    BY DEF Receive, Types, RegTypes
  <1>2. f \in Frames /\ f = frames[1] /\ 1 \in DOMAIN frames
    BY <1>1, Shifts
  <1>3. f.type \in FrameTypes /\ f.data \in Shape \cup {Nil} /\ (f.data = Nil => f.type = "list")
    BY <1>2 DEF Frames
  <1>4. \A n \in DOMAIN frames' : \E m \in DOMAIN frames : frames'[n] = frames[m]
    BY <1>1, Shifts
  <1>5. \A r \in Requests : http'[r].got = http[r].got
    <2>1. h \in [Requests -> [sent : BOOLEAN, got : Answers \cup {Nil}]]
      BY DEF Types, BrowserTypes, Requests
    <2>2. \A r \in Requests : h[r].got = http[r].got
      BY DEF Types, BrowserTypes, Requests
    <2> HIDE DEF h
    <2> QED BY <1>1, <2>1, <2>2, EffectTyped
  <1>6. ASSUME count.restarts = 0 PROVE InStep(log[1])'
    <2>1. Told(f.data, log[1]) /\ InStep(log[1]) /\ log[1] \in Nat /\ log' = log
      BY <1>2, <1>6, SessionsTyped DEF Numbered, Types, RegTypes, Receive, regVars
    <2>2. InStep(log[1])' \/ detail' # detail
      BY <2>1 DEF InStep
    <2>3. CASE f.type = "attached"
      <3> HIDE DEF f
      <3>1. TakeAttached(f.data)
        BY <2>3 DEF Receive, f
      <3>2. f.data \in Shape
        BY <1>3, <2>3
      <3>3. \A n : log[1] = n => InStep(n)'
        BY <2>1, <3>1, <3>2, DatumInStep
      <3> QED BY <2>1, <3>3 DEF InStep
    <2>4. CASE f.type = "snapshot"
      <3> HIDE DEF f
      <3>1. TakeSnapshot(f.data)
        BY <2>4 DEF Receive, f
      <3>2. f.data \in Shape
        BY <1>3, <2>4
      <3>3. \A n : log[1] = n => InStep(n)'
        BY <2>1, <3>1, <3>2, DatumInStep
      <3> QED BY <2>1, <3>3 DEF InStep
    <2>5. CASE f.type = "event"
      <3> HIDE DEF f
      <3>1. TakeEvent(f.data)
        BY <2>5 DEF Receive, f
      <3>2. f.data \in Shape
        BY <1>3, <2>5
      <3>3. \A n : log[1] = n => InStep(n)'
        BY <2>1, <3>1, <3>2, EventInStep
      <3> QED BY <2>1, <3>3 DEF InStep
    <2>6. CASE f.type \notin {"attached", "snapshot", "event"}
      <3>1. detail' \in {detail, Nil}
        BY <2>6, <1>3 DEF Receive, Remove, FrameTypes
      <3> QED BY <2>1, <3>1 DEF InStep
    <2> QED BY <2>3, <2>4, <2>5, <2>6
  <1> HIDE DEF f, h
  <1>7. Types' /\ UNCHANGED <<reg, log, count>>
    BY TypesReceive DEF Receive, regVars
  <1> QED BY <1>4, <1>5, <1>6, <1>7, NumberedStays

\* Every step that lengthens a log does it like this.
Grows(e) ==
    /\ log' = [log EXCEPT ![reg.sess] = @ + e]
    /\ reg'.sess = reg.sess /\ reg'.seq = reg.seq + e /\ reg'.at = reg.at + e
    /\ \E type \in FrameTypes : Broadcast(Frame(type, reg'))
    /\ UNCHANGED <<http, browserVars>> /\ count'.restarts = count.restarts

LEMMA PublishGrows ==
  ASSUME Types, Publish
  PROVE  Grows(1)
  <1>1. reg \in Shape
    BY DEF Types, RegTypes
  <1>2. reg'.sess = reg.sess /\ reg'.seq = reg.seq + 1 /\ reg'.at = reg.at + 1
    BY <1>1 DEF Publish, Shape
  <1>3. "event" \in FrameTypes
    BY DEF FrameTypes
  <1> QED BY <1>2, <1>3 DEF Publish, Grows

LEMMA SnapshotGrows ==
  ASSUME Types, NEW type \in {"snapshot", "attached"}, NextSnapshot(type),
         count'.restarts = count.restarts
  PROVE  \E e \in 0..1 : Grows(e)
  <1>1. PICK e \in 0..1 :
          /\ log' = [log EXCEPT ![reg.sess] = @ + e]
          /\ reg' = [reg EXCEPT !.rev = @ + 1, !.seq = @ + e, !.at = @ + e]
    BY DEF NextSnapshot
  <1>2. reg \in Shape
    BY DEF Types, RegTypes
  <1>3. reg'.sess = reg.sess /\ reg'.seq = reg.seq + e /\ reg'.at = reg.at + e
    BY <1>1, <1>2 DEF Shape
  <1>4. type \in FrameTypes
    BY DEF FrameTypes
  <1> QED BY <1>1, <1>3, <1>4 DEF NextSnapshot, Grows

\* The log grows in these steps only.
LEMMA WhoGrows ==
  ASSUME Types, [Next]_vars, log' # log
  PROVE  \E e \in 0..1 : Grows(e)
  <1>1. CASE Publish
    BY <1>1, PublishGrows, 1 \in 0..1
  <1>2. CASE Snapshot
    BY <1>2, SnapshotGrows, Spends DEF Snapshot, Types, RegTypes
  <1>3. CASE Attach
    BY <1>3, SnapshotGrows DEF Attach
  <1> QED
    BY <1>1, <1>2, <1>3 DEF Next, Restart, Accept, Summary, Detach, Receive, Disconnect, ReceiveList,
       ReceiveDetail, RefreshNow, GraceEnds, Answer, FetchFails, vars, regVars

LEMMA NumberedStep == Types /\ Numbered /\ [Next]_vars => Numbered'
  <1> SUFFICES ASSUME Types, Numbered, [Next]_vars PROVE Numbered'
    OBVIOUS
  <1>0. Types' /\ frames \in Seq(Frames)
    BY TypesStep DEF Types, RegTypes
  <1>1. ASSUME NEW e \in 0..1, Grows(e) PROVE Numbered'
    BY <1>0, <1>1, NumberedOn DEF Grows
  <1>2. CASE Publish
    BY <1>1, <1>2, PublishGrows, 1 \in 0..1
  <1>3. CASE Snapshot
    BY <1>1, <1>3, SnapshotGrows, Spends DEF Snapshot, Types, RegTypes
  <1>4. CASE Attach
    BY <1>1, <1>4, SnapshotGrows DEF Attach
  <1>5. CASE Restart
    BY <1>5, TypesRestart DEF Numbered
  <1>6. CASE Receive
    BY <1>6, NumberedReceive
  <1>7. ASSUME UNCHANGED <<reg, log, http, detail>>, count'.restarts = count.restarts,
               \A n \in DOMAIN frames' : \/ frames'[n].data \in {reg, Nil}
                                         \/ \E m \in DOMAIN frames : frames'[n] = frames[m]
        PROVE  Numbered'
    BY <1>0, <1>7, NumberedStays DEF Numbered, InStep
  <1>8. CASE Summary
    BY <1>0, <1>7, <1>8, BroadcastStays, Spends
       DEF Summary, regVars, browserVars, FrameTypes, Types, RegTypes
  <1>9. ASSUME NEW final \in BOOLEAN, Detach(final) PROVE Numbered'
    <2>1. (IF final THEN "ended" ELSE "detached") \in FrameTypes
      BY DEF FrameTypes
    <2>2. count'.restarts = count.restarts
      BY <1>9, Spends DEF Detach, Types, RegTypes
    <2> QED BY <1>0, <1>7, <1>9, <2>1, <2>2, BroadcastStays DEF Detach, browserVars
  <1>10. CASE Accept
    <2>1. \A n \in DOMAIN frames' : frames'[n].data \in {reg, Nil}
      BY <1>10 DEF Accept, Frame
    <2> QED BY <1>7, <1>10, <2>1 DEF Accept, regVars, browserVars
  <1>11. CASE Disconnect
    BY <1>7, <1>11, Spends DEF Disconnect, regVars, browserVars, Types, RegTypes
  <1>12. ASSUME UNCHANGED <<reg, log, frames>>, count'.restarts = count.restarts,
                \A r \in Requests : \/ http'[r].got \in {http[r].got, Nil}
                                    \/ http'[r].got.data \in {reg, Nil},
                count.restarts = 0 => InStep(log[1])'
         PROVE  Numbered'
    BY <1>0, <1>12, NumberedStays
  <1>13. ASSUME UNCHANGED <<log, detail>> PROVE count.restarts = 0 => InStep(log[1])'
    BY <1>13 DEF Numbered, InStep
  <1>14. http \in [Requests -> [sent : BOOLEAN, got : Answers \cup {Nil}]]
    BY DEF Types, BrowserTypes
  <1>15. CASE ReceiveList
    <2>1. \A r \in Requests : http'[r].got \in {http[r].got, Nil}
      BY <1>14, <1>15, DoneTyped DEF ReceiveList, Requests
    <2> QED BY <1>12, <1>13, <1>15, <2>1 DEF ReceiveList, regVars
  <1>16. CASE ReceiveDetail
    <2>1. \A r \in Requests : http'[r].got \in {http[r].got, Nil}
      BY <1>14, <1>16, DoneTyped, EffectTyped DEF ReceiveDetail, Requests
    <2>2. ASSUME count.restarts = 0 PROVE InStep(log[1])'
      <3> DEFINE d == http["detail"].got.data
      <3>1. Told(d, log[1]) /\ InStep(log[1]) /\ log[1] \in Nat /\ log' = log
        BY <1>16, <2>2, SessionsTyped
           DEF ReceiveDetail, Got, Requests, Numbered, Types, RegTypes, regVars
      <3>2. d \in Shape \cup {Nil}
        BY <1>14, <1>16, DoneTyped DEF ReceiveDetail, Got, Requests
      <3>3. CASE d = Nil
        BY <1>16, <3>1, <3>3 DEF ReceiveDetail, InStep
      <3>4. CASE d # Nil
        <4>1. TakeSnapshot(d)
          BY <1>16, <3>4 DEF ReceiveDetail
        <4> HIDE DEF d
        <4>2. \A n : log[1] = n => InStep(n)'
          BY <3>1, <3>2, <3>4, <4>1, DatumInStep
        <4> QED BY <3>1, <4>2 DEF InStep
      <3> QED BY <3>3, <3>4
    <2> QED BY <1>12, <1>16, <2>1, <2>2 DEF ReceiveDetail, regVars
  <1>17. CASE RefreshNow
    <2>1. \A r \in Requests : http'[r].got = http[r].got
      BY <1>14, <1>17 DEF RefreshNow
    <2>2. count'.restarts = count.restarts
      BY <1>17, Spends DEF RefreshNow, Types, RegTypes
    <2> QED BY <1>12, <1>13, <1>17, <2>1, <2>2 DEF RefreshNow, regVars, browserVars
  <1>18. CASE GraceEnds
    BY <1>12, <1>18 DEF GraceEnds, Remove, regVars, InStep
  <1>19. ASSUME NEW r \in Requests, Answer(r) PROVE Numbered'
    <2>1. \A q \in Requests : \/ http'[q].got = http[q].got
                              \/ http'[q].got.data \in {reg, Nil}
      BY <1>14, <1>19 DEF Answer, Frame
    <2> QED BY <1>12, <1>13, <1>19, <2>1 DEF Answer, regVars, browserVars
  <1>20. ASSUME NEW r \in Requests, FetchFails(r) PROVE Numbered'
    <2>1. \A q \in Requests : http'[q].got = http[q].got
      BY <1>14, <1>20 DEF FetchFails
    <2>2. count'.restarts = count.restarts
      BY <1>20, Spends DEF FetchFails, Types, RegTypes
    <2> QED BY <1>12, <1>13, <1>20, <2>1, <2>2 DEF FetchFails, regVars, browserVars
  <1>21. CASE UNCHANGED vars
    BY <1>7, <1>21 DEF vars, regVars, browserVars
  <1> QED BY <1>2, <1>3, <1>4, <1>5, <1>6, <1>8, <1>9, <1>10, <1>11, <1>15, <1>16, <1>17, <1>18,
             <1>19, <1>20, <1>21 DEF Next

-----------------------------------------------------------------------------
(* What is said of the logs *)

\* What the logs hold, longer logs do.
LEMMA LongerHolds ==
  ASSUME NEW l \in [Sessions -> Nat], NEW k \in [Sessions -> Nat], \A s \in Sessions : l[s] <= k[s]
  PROVE  /\ \A d \in Shape \cup {Nil} : Known(l, d) => Known(k, d)
         /\ \A f \in Frames : KnownFrame(l, f) => KnownFrame(k, f)
         /\ \A e \in Seq(Sessions \X Nat) : Holds(l, e) => Holds(k, e)
  <1>1. ASSUME NEW d \in Shape \cup {Nil}, Known(l, d) PROVE Known(k, d)
    <2> SUFFICES ASSUME d # Nil PROVE d.at <= k[d.sess]
      BY DEF Known
    <2>1. d.at \in Nat /\ d.sess \in Sessions
      BY DEF Shape
    <2>2. d.at <= l[d.sess] /\ l[d.sess] <= k[d.sess]
      BY <1>1, <2>1 DEF Known
    <2>3. l[d.sess] \in Nat /\ k[d.sess] \in Nat
      BY <2>1
    <2> QED BY <2>1, <2>2, <2>3
  <1>2. ASSUME NEW f \in Frames, KnownFrame(l, f) PROVE KnownFrame(k, f)
    <2>1. f.data \in Shape \cup {Nil}
      BY DEF Frames
    <2> QED BY <1>1, <1>2, <2>1 DEF KnownFrame
  <1>3. ASSUME NEW e \in Seq(Sessions \X Nat), Holds(l, e), NEW i \in DOMAIN e
        PROVE  e[i][2] \in 1..k[e[i][1]]
    <2>1. e[i] \in Sessions \X Nat
      OBVIOUS
    <2>2. e[i][1] \in Sessions /\ e[i][2] \in Nat
      BY <2>1
    <2>3. e[i][2] \in 1..l[e[i][1]] /\ l[e[i][1]] <= k[e[i][1]]
      BY <1>3, <2>2 DEF Holds
    <2>4. l[e[i][1]] \in Nat /\ k[e[i][1]] \in Nat
      BY <2>2
    <2> QED BY <2>2, <2>3, <2>4
  <1> QED BY <1>1, <1>2, <1>3 DEF Holds

\* What it takes of a step: the logs grow within the bound, the registry shows the
\* whole log, and what is new on the wire or on the page is known.
LEMMA WrittenOn ==
  ASSUME Types, Types', Written,
         \A s \in Sessions : log[s] <= log'[s] /\ log'[s] <= MaxEvents,
         reg'.at = log'[reg'.sess],
         \A n \in DOMAIN frames' : \/ KnownFrame(log', frames'[n])
                                   \/ \E m \in DOMAIN frames : frames'[n] = frames[m],
         \A r \in Requests : \/ http'[r].got \in {http[r].got, Nil}
                             \/ http'[r].got.data \in {reg', Nil},
         \/ detail' \in {detail, Nil}
         \/ Holds(log', detail'.entries)
  PROVE  Written'
  <1>1. /\ log \in [Sessions -> Nat] /\ log' \in [Sessions -> Nat]
        /\ frames \in Seq(Frames) /\ reg' \in Shape
        /\ http \in [Requests -> [sent : BOOLEAN, got : Answers \cup {Nil}]]
    BY DEF Types, RegTypes, BrowserTypes
  <1>2. ASSUME NEW n \in DOMAIN frames' PROVE KnownFrame(log', frames'[n])
    <2>1. ASSUME NEW m \in DOMAIN frames PROVE KnownFrame(log', frames[m])
      <3>1. frames[m] \in Frames /\ KnownFrame(log, frames[m])
        BY <1>1 DEF Written
      <3> QED BY <1>1, <3>1, LongerHolds
    <2> QED BY <1>2, <2>1
  <1>3. Known(log', reg') /\ Known(log', Nil)
    <2>1. log'[reg'.sess] \in Nat
      BY <1>1 DEF Shape
    <2> QED BY <2>1 DEF Known
  <1>4. ASSUME NEW r \in Requests, http'[r].got # Nil PROVE Known(log', http'[r].got.data)
    <2>1. CASE http'[r].got = http[r].got
      <3> DEFINE d == http[r].got.data
      <3>1. d \in Shape \cup {Nil}
        BY <1>1, <1>4, <2>1 DEF Answers
      <3>2. Known(log, d)
        BY <1>4, <2>1 DEF Written
      <3>3. http'[r].got.data = d
        BY <2>1
      <3> HIDE DEF d
      <3>4. Known(log', d)
        BY <1>1, <3>1, <3>2, LongerHolds
      <3> QED BY <3>3, <3>4
    <2>2. CASE http'[r].got.data \in {reg', Nil}
      BY <1>3, <2>2
    <2> QED BY <1>4, <2>1, <2>2
  <1>5. detail' # Nil => Holds(log', detail'.entries)
    <2>1. ASSUME detail' = detail, detail # Nil PROVE Holds(log', detail.entries)
      <3>1. detail.entries \in Seq(Sessions \X Nat) /\ Holds(log, detail.entries)
        BY <2>1 DEF Written, Types, BrowserTypes, Details
      <3> QED BY <1>1, <3>1, LongerHolds
    <2> QED BY <2>1
  <1> QED BY <1>2, <1>4, <1>5 DEF Written

LEMMA BroadcastNew ==
  ASSUME frames \in Seq(Frames), NEW f \in Frames, Broadcast(f)
  PROVE  \A n \in DOMAIN frames' : frames'[n] = f \/ \E m \in DOMAIN frames : frames'[n] = frames[m]
  <1>1. CASE link = "open"
    <2>1. DOMAIN frames' = 1..(Len(frames) + 1) /\ DOMAIN frames = 1..Len(frames)
          /\ Len(frames) \in Nat
      BY <1>1, Broadcasts
    <2> QED BY <1>1, <2>1, Broadcasts
  <1>2. CASE link # "open"
    BY <1>2, Broadcasts
  <1> QED BY <1>1, <1>2

\* A frame with what the registry now shows is known.
LEMMA RegKnown ==
  ASSUME Types', reg'.at = log'[reg'.sess], NEW t \in FrameTypes, t = "event" => 1 <= reg'.at
  PROVE  Frame(t, reg') \in Frames /\ KnownFrame(log', Frame(t, reg'))
  <1>1. reg' \in Shape /\ log' \in [Sessions -> Nat]
    BY DEF Types, RegTypes
  <1>2. log'[reg'.sess] \in Nat
    BY <1>1 DEF Shape
  <1> QED BY <1>1, <1>2, DatumFrame DEF KnownFrame, Known

LEMMA DatumKnown ==
  ASSUME Types, NEW d \in Shape, NEW l \in [Sessions -> Nat], Known(l, d),
         TakeSnapshot(d) \/ TakeAttached(d)
  PROVE  detail' = detail \/ Holds(l, detail'.entries)
  <1>1. d.at \in Nat /\ d.sess \in Sessions /\ d.at <= l[d.sess] /\ l[d.sess] \in Nat
    BY SessionsTyped DEF Known, Shape
  <1>2. Holds(l, Entries(d))
    BY <1>1 DEF Holds, Entries
  <1>3. detail' = detail \/ detail' = Detail(d)
    BY DEF TakeSnapshot, TakeAttached
  <1> QED BY <1>2, <1>3 DEF Detail

LEMMA EventKnown ==
  ASSUME Types, NEW d \in Shape, NEW l \in [Sessions -> Nat], Known(l, d), 1 <= d.at,
         detail # Nil => Holds(l, detail.entries), TakeEvent(d)
  PROVE  detail' \in {detail, Nil} \/ Holds(l, detail'.entries)
  <1> SUFFICES ASSUME detail' # detail PROVE Holds(l, detail'.entries)
    OBVIOUS
  <1>1. detail # Nil /\ detail \in Details
    BY DEF TakeEvent, Types, BrowserTypes
  <1>2. CASE Follows(d)
    <2> DEFINE e == detail.entries
               a == Append(e, <<d.sess, d.at>>)
    <2>1. detail' = [detail EXCEPT !.seq = d.seq, !.entries = Append(@, <<d.sess, d.at>>)]
      BY <1>2 DEF TakeEvent
    <2>2. detail'.entries = a
      BY <1>1, <2>1 DEF Details
    <2>3. e \in Seq(Sessions \X Nat) /\ Holds(l, e)
      BY <1>1 DEF Details
    <2>4. d.at \in Nat /\ d.sess \in Sessions /\ d.at <= l[d.sess] /\ l[d.sess] \in Nat
      BY SessionsTyped DEF Known, Shape
    <2>5. <<d.sess, d.at>> \in Sessions \X Nat
      BY <2>4
    <2> HIDE DEF e
    <2>6. /\ DOMAIN a = 1..(Len(e) + 1) /\ DOMAIN e = 1..Len(e) /\ Len(e) \in Nat
          /\ a[Len(e) + 1] = <<d.sess, d.at>> /\ \A i \in 1..Len(e) : a[i] = e[i]
      BY <2>3, <2>5, AppendProperties
    <2> HIDE DEF a
    <2>7. ASSUME NEW i \in DOMAIN a PROVE a[i][2] \in 1..l[a[i][1]]
      <3>1. CASE i \in DOMAIN e
        BY <2>3, <2>6, <3>1 DEF Holds
      <3>2. CASE i = Len(e) + 1
        BY <2>4, <2>6, <3>2
      <3> QED BY <2>6, <3>1, <3>2
    <2> QED BY <2>2, <2>7 DEF Holds
  <1>3. CASE ~Follows(d)
    <2>1. detail' = [detail EXCEPT !.needsResync = TRUE]
      BY <1>3 DEF TakeEvent
    <2>2. detail'.entries = detail.entries
      BY <1>1, <2>1 DEF Details
    <2> QED BY <1>1, <2>2
  <1> QED BY <1>2, <1>3

\* A step that lengthens the log of the session shown.
LEMMA WrittenGrows ==
  ASSUME Types, Written, Types', NEW e \in 0..1, log[reg.sess] + e <= MaxEvents,
         log' = [log EXCEPT ![reg.sess] = @ + e],
         reg'.sess = reg.sess, reg'.at = reg.at + e,
         NEW t \in FrameTypes, t = "event" => e = 1, Broadcast(Frame(t, reg')),
         UNCHANGED <<http, browserVars>>
  PROVE  Written'
  <1>1. /\ log \in [Sessions -> Nat] /\ reg.sess \in Sessions /\ frames \in Seq(Frames)
        /\ reg.at = log[reg.sess] /\ e \in Nat
    BY DEF Types, RegTypes, Shape, Written
  <1>2. log'[reg.sess] = log[reg.sess] + e /\ \A s \in Sessions \ {reg.sess} : log'[s] = log[s]
    BY <1>1
  <1>3. ASSUME NEW s \in Sessions PROVE log[s] <= log'[s] /\ log'[s] <= MaxEvents
    <2>1. log[s] \in Nat /\ log[s] <= MaxEvents
      BY <1>1 DEF Written
    <2>2. CASE s = reg.sess
      BY <1>1, <1>2, <2>1, <2>2
    <2>3. CASE s # reg.sess
      BY <1>2, <2>1, <2>3
    <2> QED BY <2>2, <2>3
  <1>4. reg'.at = log'[reg'.sess]
    BY <1>1, <1>2
  <1>5. t = "event" => 1 <= reg'.at
    BY <1>1
  <1>6. Frame(t, reg') \in Frames /\ KnownFrame(log', Frame(t, reg'))
    BY <1>4, <1>5, RegKnown
  <1>7. \A n \in DOMAIN frames' : \/ KnownFrame(log', frames'[n])
                                  \/ \E m \in DOMAIN frames : frames'[n] = frames[m]
    BY <1>1, <1>6, BroadcastNew
  <1>8. \A r \in Requests : http'[r].got \in {http[r].got, Nil}
    OBVIOUS
  <1>9. detail' = detail
    BY DEF browserVars
  <1> QED BY <1>3, <1>4, <1>7, <1>8, <1>9, WrittenOn

LEMMA WrittenSnapshot ==
  ASSUME Types, Written, Types', NEW type \in {"snapshot", "attached"}, NextSnapshot(type)
  PROVE  Written'
  <1>1. PICK e \in 0..1 :
          /\ log[reg.sess] + e <= MaxEvents
          /\ log' = [log EXCEPT ![reg.sess] = @ + e]
          /\ reg' = [reg EXCEPT !.rev = @ + 1, !.seq = @ + e, !.at = @ + e]
    BY DEF NextSnapshot
  <1>2. reg'.sess = reg.sess /\ reg'.at = reg.at + e
    BY <1>1 DEF Types, RegTypes, Shape
  <1>3. type \in FrameTypes /\ type # "event" /\ Broadcast(Frame(type, reg'))
    BY DEF FrameTypes, NextSnapshot
  <1> QED BY <1>1, <1>2, <1>3, WrittenGrows DEF NextSnapshot

LEMMA WrittenPublish == Types /\ Written /\ Publish => Written'
  <1> SUFFICES ASSUME Types, Written, Publish PROVE Written'
    OBVIOUS
  <1>1. reg'.sess = reg.sess /\ reg'.at = reg.at + 1 /\ reg.sess \in Sessions /\ log[reg.sess] \in Nat
    BY DEF Publish, Types, RegTypes, Shape
  <1>2. log[reg.sess] + 1 <= MaxEvents
    BY <1>1, Bounds DEF Publish
  <1>3. "event" \in FrameTypes /\ Types' /\ 1 \in 0..1
    BY TypesPublish DEF FrameTypes
  <1> QED BY <1>1, <1>2, <1>3, WrittenGrows DEF Publish

\* The steps that leave the registry's logs: what is new on the wire shows the
\* registry as it is.
LEMMA WrittenStays ==
  ASSUME Types, Written, Types', log' = log, reg'.at = log[reg'.sess],
         \A n \in DOMAIN frames' : \/ KnownFrame(log, frames'[n])
                                   \/ \E m \in DOMAIN frames : frames'[n] = frames[m],
         \A r \in Requests : \/ http'[r].got \in {http[r].got, Nil}
                             \/ http'[r].got.data \in {reg', Nil},
         detail' \in {detail, Nil} \/ Holds(log, detail'.entries)
  PROVE  Written'
  <1>1. \A s \in Sessions : log[s] <= log'[s] /\ log'[s] <= MaxEvents
    BY DEF Written, Types, RegTypes
  <1> QED BY <1>1, WrittenOn

LEMMA WrittenReceive == Types /\ Written /\ Receive => Written'
  <1> SUFFICES ASSUME Types, Written, Receive PROVE Written'
    OBVIOUS
  <1> DEFINE f == Head(frames)
             h == IF f.type = "detached" THEN [http EXCEPT !["list"].sent = TRUE] ELSE http
  <1>1. frames \in Seq(Frames) /\ frames # <<>> /\ frames' = Tail(frames) /\ Effect(h)
    BY DEF Receive, Types, RegTypes
  <1>2. f \in Frames /\ f = frames[1] /\ 1 \in DOMAIN frames
    BY <1>1, Shifts
  <1>3. f.type \in FrameTypes /\ f.data \in Shape \cup {Nil} /\ (f.data = Nil => f.type = "list")
    BY <1>2 DEF Frames
  <1>4. \A n \in DOMAIN frames' : \E m \in DOMAIN frames : frames'[n] = frames[m]
    BY <1>1, Shifts
  <1>5. \A r \in Requests : http'[r].got = http[r].got
    <2>1. h \in [Requests -> [sent : BOOLEAN, got : Answers \cup {Nil}]]
      BY DEF Types, BrowserTypes, Requests
    <2>2. \A r \in Requests : h[r].got = http[r].got
      BY DEF Types, BrowserTypes, Requests
    <2> HIDE DEF h
    <2> QED BY <1>1, <2>1, <2>2, EffectTyped
  <1>6. KnownFrame(log, f) /\ log \in [Sessions -> Nat]
    BY <1>2 DEF Written, Types, RegTypes
  <1>7. detail' \in {detail, Nil} \/ Holds(log, detail'.entries)
    <2>1. CASE f.type = "attached"
      <3>1. TakeAttached(f.data) /\ f.data \in Shape
        BY <1>3, <2>1 DEF Receive
      <3> QED BY <1>6, <3>1, DatumKnown DEF KnownFrame
    <2>2. CASE f.type = "snapshot"
      <3>1. TakeSnapshot(f.data) /\ f.data \in Shape
        BY <1>3, <2>2 DEF Receive
      <3> QED BY <1>6, <3>1, DatumKnown DEF KnownFrame
    <2>3. CASE f.type = "event"
      <3>1. TakeEvent(f.data) /\ f.data \in Shape
        BY <1>3, <2>3 DEF Receive
      <3>2. Known(log, f.data) /\ 1 <= f.data.at
        BY <1>6, <2>3 DEF KnownFrame
      <3> QED BY <1>6, <3>1, <3>2, EventKnown DEF Written
    <2>4. CASE f.type \notin {"attached", "snapshot", "event"}
      BY <2>4, <1>3 DEF Receive, Remove, FrameTypes
    <2> QED BY <2>1, <2>2, <2>3, <2>4
  <1> HIDE DEF f, h
  <1>8. Types' /\ UNCHANGED <<reg, log>> /\ reg.at = log[reg.sess]
    BY TypesReceive DEF Receive, regVars, Written
  <1> QED BY <1>4, <1>5, <1>7, <1>8, WrittenStays

LEMMA WrittenStep == Types /\ Written /\ [Next]_vars => Written'
  <1> SUFFICES ASSUME Types, Written, [Next]_vars PROVE Written'
    OBVIOUS
  <1>1. /\ Types' /\ frames \in Seq(Frames) /\ reg.at = log[reg.sess]
        /\ log \in [Sessions -> Nat] /\ reg \in Shape
        /\ http \in [Requests -> [sent : BOOLEAN, got : Answers \cup {Nil}]]
    BY TypesStep DEF Types, RegTypes, BrowserTypes, Written
  <1>2. CASE Publish
    BY <1>2, WrittenPublish
  <1>3. CASE Snapshot
    BY <1>1, <1>3, WrittenSnapshot DEF Snapshot
  <1>4. CASE Attach
    BY <1>1, <1>4, WrittenSnapshot DEF Attach
  <1>5. CASE Receive
    BY <1>5, WrittenReceive
  <1>6. ASSUME NEW t \in FrameTypes, t # "event", Broadcast(Frame(t, reg')),
               reg'.at = log[reg'.sess], UNCHANGED <<log, http, detail>>
        PROVE  Written'
    <2>1. Frame(t, reg') \in Frames /\ KnownFrame(log, Frame(t, reg'))
      BY <1>1, <1>6, RegKnown
    <2>2. \A n \in DOMAIN frames' : \/ KnownFrame(log, frames'[n])
                                    \/ \E m \in DOMAIN frames : frames'[n] = frames[m]
      BY <1>1, <1>6, <2>1, BroadcastNew
    <2> QED BY <1>1, <1>6, <2>2, WrittenStays
  <1>7. CASE Restart
    <2>1. PICK s \in Sessions : reg' = [sess |-> s, rev |-> 1, seq |-> 0, at |-> log[s]]
      BY <1>7 DEF Restart
    <2>2. /\ "snapshot" \in FrameTypes /\ "attached" \in FrameTypes
          /\ (IF shown THEN "snapshot" ELSE "attached") \in FrameTypes
          /\ (IF shown THEN "snapshot" ELSE "attached") # "event"
      BY DEF FrameTypes
    <2> QED BY <1>6, <1>7, <2>1, <2>2 DEF Restart, browserVars
  <1>8. CASE Summary
    <2>1. "summary" \in FrameTypes
      BY DEF FrameTypes
    <2> QED BY <1>1, <1>6, <1>8, <2>1 DEF Summary, regVars, browserVars
  <1>9. ASSUME NEW final \in BOOLEAN, Detach(final) PROVE Written'
    <2>1. /\ (IF final THEN "ended" ELSE "detached") \in FrameTypes
          /\ (IF final THEN "ended" ELSE "detached") # "event"
      BY DEF FrameTypes
    <2> QED BY <1>1, <1>6, <1>9, <2>1 DEF Detach, browserVars
  <1>10. ASSUME UNCHANGED <<reg, log>>,
                \A n \in DOMAIN frames' : \/ KnownFrame(log, frames'[n])
                                          \/ \E m \in DOMAIN frames : frames'[n] = frames[m],
                \A r \in Requests : \/ http'[r].got \in {http[r].got, Nil}
                                    \/ http'[r].got.data \in {reg, Nil},
                detail' \in {detail, Nil} \/ Holds(log, detail'.entries)
         PROVE  Written'
    BY <1>1, <1>10, WrittenStays
  <1>11. CASE Accept
    <2>1. /\ KnownFrame(log, Frame("list", Nil)) /\ KnownFrame(log, Frame("list", reg))
          /\ KnownFrame(log, Frame("snapshot", reg))
      BY <1>1 DEF KnownFrame, Known, Frame, Shape
    <2>2. \A n \in DOMAIN frames' : KnownFrame(log, frames'[n])
      BY <1>11, <2>1 DEF Accept
    <2> QED BY <1>10, <1>11, <2>2 DEF Accept, regVars, browserVars
  <1>12. CASE Disconnect
    BY <1>10, <1>12 DEF Disconnect, regVars, browserVars
  <1>13. CASE ReceiveList
    <2>1. \A r \in Requests : http'[r].got \in {http[r].got, Nil}
      BY <1>1, <1>13, DoneTyped DEF ReceiveList, Requests
    <2> QED BY <1>10, <1>13, <2>1 DEF ReceiveList, regVars
  <1>14. CASE ReceiveDetail
    <2>1. \A r \in Requests : http'[r].got \in {http[r].got, Nil}
      BY <1>1, <1>14, DoneTyped, EffectTyped DEF ReceiveDetail, Requests
    <2>2. detail' \in {detail, Nil} \/ Holds(log, detail'.entries)
      <3> DEFINE d == http["detail"].got.data
      <3>1. Known(log, d)
        BY <1>14 DEF ReceiveDetail, Got, Requests, Written
      <3>2. d \in Shape \cup {Nil}
        BY <1>1, <1>14, DoneTyped DEF ReceiveDetail, Got, Requests
      <3>3. CASE d = Nil
        BY <1>14, <3>3 DEF ReceiveDetail
      <3>4. CASE d # Nil
        <4>1. TakeSnapshot(d)
          BY <1>14, <3>4 DEF ReceiveDetail
        <4> HIDE DEF d
        <4> QED BY <1>1, <3>1, <3>2, <3>4, <4>1, DatumKnown
      <3> QED BY <3>3, <3>4
    <2> QED BY <1>10, <1>14, <2>1, <2>2 DEF ReceiveDetail, regVars
  <1>15. CASE RefreshNow
    <2>1. \A r \in Requests : http'[r].got = http[r].got
      BY <1>1, <1>15 DEF RefreshNow
    <2> QED BY <1>10, <1>15, <2>1 DEF RefreshNow, regVars, browserVars
  <1>16. CASE GraceEnds
    BY <1>10, <1>16 DEF GraceEnds, Remove, regVars
  <1>17. ASSUME NEW r \in Requests, Answer(r) PROVE Written'
    <2>1. \A q \in Requests : \/ http'[q].got = http[q].got
                              \/ http'[q].got.data \in {reg, Nil}
      BY <1>1, <1>17 DEF Answer, Frame
    <2> QED BY <1>10, <1>17, <2>1 DEF Answer, regVars, browserVars
  <1>18. ASSUME NEW r \in Requests, FetchFails(r) PROVE Written'
    <2>1. \A q \in Requests : http'[q].got = http[q].got
      BY <1>1, <1>18 DEF FetchFails
    <2> QED BY <1>10, <1>18, <2>1 DEF FetchFails, regVars, browserVars
  <1>19. CASE UNCHANGED vars
    BY <1>10, <1>19 DEF vars, regVars, browserVars
  <1> QED BY <1>2, <1>3, <1>4, <1>5, <1>7, <1>8, <1>9, <1>11, <1>12, <1>13, <1>14, <1>15, <1>16,
             <1>17, <1>18, <1>19 DEF Next

-----------------------------------------------------------------------------
(* Theorems *)

LEMMA InvInit == Init => Inv
  <1>1. Init => Graceful
    BY DEF Init, Graceful
  <1>2. Init => Written
    BY Bounds, FirstSession DEF Init, Written
  <1> QED BY TypesInit, NumberedInit, <1>1, <1>2 DEF Inv

LEMMA InvStep == Inv /\ [Next]_vars => Inv'
  BY TypesStep, NumberedStep, GracefulStep, WrittenStep DEF Inv

\* The state has its types, the transcript of the page in the range of the logs.
THEOREM PageIsTyped == Spec => []TypeOK
  <1>1. ASSUME Inv PROVE TypeOK
    <2>1. /\ reg \in Shape /\ shown \in BOOLEAN /\ link \in {"open", "closed"}
          /\ row \in Shape \cup {Nil} /\ grace \in Shape \cup {Nil}
          /\ frames \in Seq(Frames) /\ log \in [Sessions -> Nat]
      BY <1>1 DEF Inv, Types, RegTypes, BrowserTypes
    <2>2. \A n \in DOMAIN frames : frames[n].data \in Shape \cup {Nil}
      BY <2>1 DEF Frames
    <2>3. ASSUME NEW s \in Sessions PROVE log[s] \in 0..MaxEvents
      <3>1. log[s] \in Nat /\ log[s] <= MaxEvents /\ MaxEvents \in Nat
        BY <1>1, <2>1, Bounds DEF Inv, Written
      <3> QED BY <3>1
    <2>4. log \in [Sessions -> 0..MaxEvents]
      BY <2>1, <2>3
    <2>5. ASSUME detail # Nil
          PROVE  /\ detail.sess \in Sessions /\ detail.needsResync \in BOOLEAN
                 /\ detail.entries \in Seq(Sessions \X (1..MaxEvents))
      <3> DEFINE e == detail.entries
      <3>1. /\ detail.sess \in Sessions /\ detail.needsResync \in BOOLEAN
            /\ e \in Seq(Sessions \X Nat) /\ Holds(log, e)
        BY <1>1, <2>5 DEF Inv, Types, BrowserTypes, Details, Written
      <3> HIDE DEF e
      <3>2. ASSUME NEW i \in 1..Len(e) PROVE e[i] \in Sessions \X (1..MaxEvents)
        <4>1. i \in DOMAIN e /\ e[i] \in Sessions \X Nat
          BY <3>1
        <4>2. e[i][2] \in 1..log[e[i][1]] /\ log[e[i][1]] \in 0..MaxEvents
          BY <3>1, <4>1, <2>3 DEF Holds
        <4>3. e[i][2] \in 1..MaxEvents
          BY <4>2, Bounds
        <4> QED BY <4>1, <4>3
      <3>3. e \in Seq(Sessions \X (1..MaxEvents))
        BY <3>1, <3>2, SeqDef, LenProperties
      <3> QED BY <3>1, <3>3 DEF e
    <2> QED BY <2>1, <2>2, <2>4, <2>5 DEF TypeOK
  <1> QED BY InvInit, InvStep, <1>1, PTL DEF Spec

\* The page shows nothing that its session has not said: a datum that is late, of a
\* numbering that is over, or of a session that is, never adds an entry of its own.
NothingInvented ==
    detail # Nil => \A i \in DOMAIN detail.entries :
                        LET e == detail.entries[i] IN e[2] \in 1..log[e[1]]

\* Nothing is shown that its session has not said, in whatever numbering it was said.
THEOREM NothingIsInvented == Spec => []NothingInvented
  <1>1. Inv => NothingInvented
    BY DEF Inv, Written, Holds, NothingInvented
  <1> QED BY InvInit, InvStep, <1>1, PTL DEF Spec

\* A session that is back is never flushed from the page: the frame that cancels
\* the grace of its row is behind the one that armed it.
THEOREM NoFlushOfTheLiving == Spec => []GraceIsForGone
  <1>1. Inv => GraceIsForGone
    BY DEF Inv, Graceful, GraceIsForGone, Cancels
  <1> QED BY InvInit, InvStep, <1>1, PTL DEF Spec

\* What the page shows is the copy of one session's log that SessionMirror allows,
\* until a bridge starts its numbering again.
THEOREM PageIsMirror == Spec => MirrorsOneSession
  <1> DEFINE copy == IF detail = Nil \/ count.restarts > 0 THEN Nil
                     ELSE [sess |-> detail.sess, entries |-> detail.entries]
  <1>1. Init => Mirror!MirrorInit
    BY DEF Init, Mirror!MirrorInit
  <1>2. Inv /\ Inv' /\ [Next]_vars => [Mirror!MirrorNext]_<<log, copy>>
    <2> SUFFICES ASSUME Inv, Inv', [Next]_vars, log' # log \/ copy' # copy
                 PROVE  Mirror!MirrorNext
      OBVIOUS
    <2>1. CASE log' # log
      <3>1. PICK e \in 0..1 : Grows(e)
        BY <2>1, WhoGrows DEF Inv
      <3>2. e = 1
        BY <2>1, <3>1 DEF Grows, Inv, Types, RegTypes, Shape
      <3>3. Mirror!Grow(reg.sess) /\ reg.sess \in Sessions
        BY <3>1, <3>2 DEF Grows, browserVars, Mirror!Grow, Inv, Types, RegTypes, Shape
      <3> QED BY <3>3 DEF Mirror!MirrorNext
    <2>2. CASE log' = log /\ copy' = Nil
      BY <2>2 DEF Mirror!Forget, Mirror!MirrorNext
    <2>3. CASE log' = log /\ copy' # Nil
      <3>1. /\ detail' # Nil /\ count'.restarts = 0
            /\ copy' = [sess |-> detail'.sess, entries |-> detail'.entries]
        BY <2>3 DEF Inv, Types, RegTypes
      <3>2. /\ detail'.sess = 1 /\ detail'.seq <= log[1] /\ detail'.entries = First(detail'.seq)
            /\ detail'.seq \in Nat /\ log[1] \in Nat
        BY <2>3, <3>1, SessionsTyped
           DEF Inv, Numbered, InStep, Types, RegTypes, BrowserTypes, Details
      <3>3. detail'.seq \in 0..(log[1] - 0) /\ 0 \in 0..log[1]
        BY <3>2
      <3>4. detail'.entries = Mirror!Stretch(1, 0, detail'.seq)
        BY <3>2 DEF First, Mirror!Stretch
      <3>5. Mirror!IsStretch([sess |-> detail'.sess, entries |-> detail'.entries])
        BY <3>2, <3>3, <3>4 DEF Mirror!IsStretch
      <3>6. Mirror!Show
        BY <2>3, <3>1, <3>5 DEF Mirror!Show
      <3> QED BY <3>6 DEF Mirror!MirrorNext
    <2> QED BY <2>1, <2>2, <2>3
  <1> QED BY InvInit, InvStep, <1>1, <1>2, PTL DEF Spec, MirrorsOneSession, Mirror!MirrorSpec
=============================================================================
