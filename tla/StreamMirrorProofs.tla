-------------------------- MODULE StreamMirrorProofs --------------------------
(***************************************************************************)
(* LiveStream, for any number of sessions, connections, events, lines and  *)
(* faults: nothing that left a gap goes unnoticed, the dialogs offered are *)
(* those of the session that is shown, and the transcript is a stretch of  *)
(* one session's log.                                                      *)
(*                                                                         *)
(* The argument: the lines of a connection are a thread.  Each follows the *)
(* one before it, and the bridge's own counters follow the last.  A mirror *)
(* that is reading holds the end of the thread of its connection.          *)
(***************************************************************************)
EXTENDS LiveStreamProofs

\* The first n entries of session s.
Whole(s, n) == [i \in 1..n |-> <<s, i>>]

\* Where the transcript of an entry ends, and where the entry is in the stream.
At(e)     == IF e.entries = <<>> THEN 0 ELSE e.entries[Len(e.entries)][2]
Cursor(e) == [sess |-> e.sess, rev |-> e.rev, seq |-> e.seq, at |-> At(e)]

\* The next line y of a reader that has come to x.
Follows(x, y) ==
    /\ y.type = "event" =>
         /\ y.sess = x.sess /\ y.rev = x.rev /\ y.seq > x.seq
         /\ y.seq = x.seq + 1 => y.at = IF y.dialog = Nil THEN x.at + 1 ELSE x.at
    /\ y.type = "snapshot" => y.sess # x.sess \/ y.rev > x.rev

\* A reader that has come to x has nothing before it but what bridge b, with the
\* logs l, will still send.
Reaches(x, b, l) ==
    /\ x.sess = b.sess /\ x.rev = b.rev /\ x.seq <= b.seq
    /\ x.seq = b.seq => x.at = l[b.sess]

\* The lines of a connection are a thread.
Woven(s) == \A i \in 1..(Len(s) - 1) : s[i].type = "hello" \/ Follows(s[i], s[i + 1])
Threads  == \A c \in Conns : Woven(line[c])
Tied     == LET s == line[bridge.conn] IN
            Linked /\ s # <<>> => Reaches(s[Len(s)], bridge, log)

\* What lines say of the logs and of the dialogs is so.
Truthful(m, l, g) ==
    /\ m.at <= l[m.sess]
    /\ m.dialog # Nil => g[m.dialog] # Nil /\ g[m.dialog].sess = m.sess
Truths == \A c \in Conns : \A i \in 1..Len(line[c]) : Truthful(line[c][i], log, dialog)

\* The dialogs that are unanswered are those of the session that runs.
Asking == \A d \in Unanswered : dialog[d].sess = bridge.sess

Wire == Threads /\ Tied /\ Truths /\ Asking

\* The transcript of an entry is the end of its session's log up to At.
Shown(e, l) ==
    e.sess \in Sessions /\ e.entries = Newest(Whole(e.sess, At(e))) /\ At(e) <= l[e.sess]

\* The entry takes part in the thread of its connection.
Aligned ==
    LET s == line[entry.conn] IN
    entry # Nil /\ entry.attached /\ ~entry.awaiting =>
      /\ Shown(entry, log)
      /\ s # <<>> => Follows(Cursor(entry), s[1])
      /\ s = <<>> /\ Linked /\ entry.conn = bridge.conn => Reaches(Cursor(entry), bridge, log)

\* As long as its socket is not gone, it does, whatever was refused.
LiveAligned == entry # Nil /\ ~Gone(entry.conn) => Aligned

\* An attached entry shows its session's log and offers its dialogs.
Held == entry # Nil /\ entry.attached => Shown(entry, log)
Offered ==
    entry # Nil =>
      /\ ~entry.attached => entry.pendingUi = {} /\ entry.entries = <<>>
      /\ \A d \in entry.pendingUi : dialog[d] # Nil /\ dialog[d].sess = entry.sess

StreamInv == Inv /\ Wire /\ LiveAligned
HeardInv  == Inv /\ Wire /\ Aligned /\ Held /\ Offered

-----------------------------------------------------------------------------
(* Transcripts *)

LEMMA WholeTyped ==
  ASSUME NEW s \in Sessions, NEW n \in Nat
  PROVE  /\ Whole(s, n) \in Seq(Sessions \X Nat) /\ Len(Whole(s, n)) = n
         /\ \A i \in 1..n : Whole(s, n)[i] = <<s, i>>
  BY DEF Whole

\* The window of a transcript: its length and what is where in it.
LEMMA NewestWhole ==
  ASSUME NEW s \in Sessions, NEW n \in Nat
  PROVE  LET t == Newest(Whole(s, n)) IN
         /\ t \in Seq(Sessions \X Nat) /\ Len(t) = IF n <= Window THEN n ELSE Window
         /\ \A i \in 1..Len(t) : t[i] = <<s, n - Len(t) + i>>
  <1> DEFINE w == Whole(s, n)
  <1>1. w \in Seq(Sessions \X Nat) /\ Len(w) = n /\ \A i \in 1..n : w[i] = <<s, i>>
    BY WholeTyped
  <1> HIDE DEF w
  <1>2. CASE n <= Window
    BY <1>1, <1>2 DEF Newest, w
  <1>3. CASE ~(n <= Window)
    <2>1. Newest(w) = SubSeq(w, n - Window + 1, n)
      BY <1>1, <1>3 DEF Newest
    <2>2. /\ SubSeq(w, n - Window + 1, n) \in Seq(Sessions \X Nat)
          /\ Len(SubSeq(w, n - Window + 1, n)) = Window
          /\ \A i \in 1..Window : SubSeq(w, n - Window + 1, n)[i] = w[n - Window + 1 + i - 1]
      <3>1. \A i \in n - Window + 1 .. n : w[i] \in Sessions \X Nat
        BY <1>1, <1>3, Constants
      <3> QED BY <1>3, <3>1, SubSeqProperties, Constants
    <2>3. \A i \in 1..Window : n - Window + 1 + i - 1 = n - Window + i /\ n - Window + i \in 1..n
      BY <1>3, Constants
    <2> QED BY <1>1, <1>3, <2>1, <2>2, <2>3 DEF w
  <1> QED BY <1>2, <1>3

LEMMA EndsAt ==
  ASSUME NEW e, NEW s \in Sessions, NEW n \in Nat, e.entries = Newest(Whole(s, n))
  PROVE  At(e) = n
  <1> DEFINE t == Newest(Whole(s, n))
  <1>1. /\ t \in Seq(Sessions \X Nat) /\ Len(t) = IF n <= Window THEN n ELSE Window
        /\ \A i \in 1..Len(t) : t[i] = <<s, n - Len(t) + i>>
    BY NewestWhole
  <1> HIDE DEF t
  <1>2. CASE n = 0
    <2>1. t = <<>>
      BY <1>1, <1>2, Constants
    <2> QED BY <1>2, <2>1 DEF At, t
  <1>3. CASE n # 0
    <2>1. Len(t) \in 1..Len(t) /\ t # <<>>
      BY <1>1, <1>3, Constants
    <2>2. t[Len(t)] = <<s, n - Len(t) + Len(t)>>
      BY <1>1, <2>1, Zenon
    <2>3. n - Len(t) + Len(t) = n
      BY <2>1
    <2>4. t[Len(t)] = <<s, n>>
      BY <2>2, <2>3, Zenon
    <2> QED BY <2>1, <2>4 DEF At, t
  <1> QED BY <1>2, <1>3

\* The next entry of the session keeps the window a window.
LEMMA NewestGrows ==
  ASSUME NEW s \in Sessions, NEW n \in Nat
  PROVE  Newest(Append(Newest(Whole(s, n)), <<s, n + 1>>)) = Newest(Whole(s, n + 1))
  <1> DEFINE t == Newest(Whole(s, n))
             u == Newest(Whole(s, n + 1))
             a == Append(t, <<s, n + 1>>)
  <1>1. /\ t \in Seq(Sessions \X Nat) /\ Len(t) = IF n <= Window THEN n ELSE Window
        /\ \A i \in 1..Len(t) : t[i] = <<s, n - Len(t) + i>>
    BY NewestWhole
  <1>2. /\ u \in Seq(Sessions \X Nat) /\ Len(u) = IF n + 1 <= Window THEN n + 1 ELSE Window
        /\ \A i \in 1..Len(u) : u[i] = <<s, n + 1 - Len(u) + i>>
    <2> DEFINE k == n + 1
    <2>1. k \in Nat
      OBVIOUS
    <2> HIDE DEF k
    <2>2. LET v == Newest(Whole(s, k)) IN
          /\ v \in Seq(Sessions \X Nat) /\ Len(v) = IF k <= Window THEN k ELSE Window
          /\ \A i \in 1..Len(v) : v[i] = <<s, k - Len(v) + i>>
      BY <2>1, NewestWhole
    <2> QED BY <2>2 DEF k
  <1> HIDE DEF t, u
  <1>3. <<s, n + 1>> \in Sessions \X Nat
    OBVIOUS
  <1>4. /\ a \in Seq(Sessions \X Nat) /\ Len(a) = Len(t) + 1
        /\ \A i \in 1..Len(t) : a[i] = t[i]
        /\ a[Len(t) + 1] = <<s, n + 1>>
    BY <1>1, <1>3, AppendProperties
  <1> HIDE DEF a
  <1>5. ASSUME NEW i \in 1..Len(a) PROVE a[i] = <<s, n - Len(t) + i>>
    <2>1. CASE i = Len(t) + 1
      <3>1. n - Len(t) + i = n + 1
        BY <1>1, <2>1
      <3> QED BY <1>4, <2>1, <3>1
    <2>2. CASE i # Len(t) + 1
      <3>1. i \in 1..Len(t)
        BY <1>1, <1>4, <2>2
      <3> QED BY <1>1, <1>4, <3>1
    <2> QED BY <2>1, <2>2
  <1>6. CASE n + 1 <= Window
    <2>1. Newest(a) = a /\ Len(a) = Len(u)
      BY <1>1, <1>2, <1>4, <1>6, Constants DEF Newest
    <2>2. \A i \in 1..Len(a) : a[i] = u[i]
      <3>1. Len(t) = n /\ Len(u) = n + 1
        BY <1>1, <1>2, <1>6, Constants
      <3>2. ASSUME NEW i \in 1..Len(a) PROVE n - Len(t) + i = n + 1 - Len(u) + i
        BY <2>1, <3>1
      <3> QED BY <1>2, <1>5, <2>1, <3>2
    <2>3. a = u
      BY <1>2, <1>4, <2>1, <2>2, SeqEqual
    <2> QED BY <2>1, <2>3 DEF a, t, u
  <1>7. CASE ~(n + 1 <= Window)
    <2> DEFINE b == SubSeq(a, 2, Window + 1)
    <2>1. Len(t) = Window /\ Len(a) = Window + 1 /\ Len(u) = Window
      BY <1>1, <1>2, <1>4, <1>7, Constants
    <2>2. Newest(a) = b
      BY <2>1, Constants DEF Newest
    <2>3. \A i \in 2..(Window + 1) : a[i] \in Sessions \X Nat
      BY <1>4, <2>1, Constants
    <2>4. /\ b \in Seq(Sessions \X Nat) /\ Len(b) = Window
          /\ \A i \in 1..Window : b[i] = a[i + 1]
      BY <2>3, SubSeqProperties, Constants
    <2> HIDE DEF b
    <2>5. ASSUME NEW i \in 1..Window PROVE b[i] = u[i]
      <3>1. i + 1 \in 1..Len(a) /\ n - Len(t) + (i + 1) = n + 1 - Len(u) + i
        BY <2>1, Constants
      <3>2. b[i] = <<s, n - Len(t) + (i + 1)>>
        BY <1>5, <2>4, <3>1
      <3> QED BY <1>2, <2>1, <3>1, <3>2
    <2>6. b = u
      BY <1>2, <2>1, <2>4, <2>5, SeqEqual
    <2> QED BY <2>2, <2>6 DEF a, t, u
  <1> QED BY <1>6, <1>7

-----------------------------------------------------------------------------
(* Threads *)

LEMMA WovenTail ==
  ASSUME NEW s \in Seq(Message), s # <<>>, Woven(s)
  PROVE  Woven(Tail(s))
  BY HeadTailProperties DEF Woven

LEMMA WovenSub ==
  ASSUME NEW s \in Seq(Message), NEW n \in 0..Len(s), Woven(s)
  PROVE  Woven(SubSeq(s, 1, n))
  <1>1. /\ Len(SubSeq(s, 1, n)) = n /\ \A i \in 1..n : SubSeq(s, 1, n)[i] = s[i]
    OBVIOUS
  <1> QED BY <1>1 DEF Woven

LEMMA WovenJoin ==
  ASSUME NEW s \in Seq(Message), NEW t \in Seq(Message), Woven(s), Woven(t),
         s # <<>> /\ t # <<>> => Follows(s[Len(s)], t[1])
  PROVE  Woven(s \o t)
  <1> DEFINE u == s \o t
  <1>1. /\ Len(u) = Len(s) + Len(t) /\ Len(s) \in Nat /\ Len(t) \in Nat
        /\ \A i \in 1..Len(u) : u[i] = IF i <= Len(s) THEN s[i] ELSE t[i - Len(s)]
    BY ConcatProperties
  <1> HIDE DEF u
  <1>2. ASSUME NEW i \in 1..(Len(u) - 1) PROVE u[i].type = "hello" \/ Follows(u[i], u[i + 1])
    <2>1. CASE i < Len(s)
      BY <1>1, <1>2, <2>1 DEF Woven
    <2>2. CASE i = Len(s)
      <3>1. u[i] = s[Len(s)] /\ u[i + 1] = t[1] /\ s # <<>> /\ t # <<>>
        BY <1>1, <1>2, <2>2
      <3> QED BY <3>1
    <2>3. CASE i > Len(s)
      <3>1. /\ i - Len(s) \in 1..(Len(t) - 1) /\ u[i] = t[i - Len(s)]
            /\ u[i + 1] = t[i + 1 - Len(s)] /\ i + 1 - Len(s) = (i - Len(s)) + 1
        BY <1>1, <1>2, <2>3
      <3> QED BY <3>1 DEF Woven
    <2> QED BY <1>1, <2>1, <2>2, <2>3
  <1> QED BY <1>2 DEF Woven, u

-----------------------------------------------------------------------------
(* What a step does to the wire and to the entry *)

\* Logs grow, and a dialog stays one of its session.
Grows ==
    /\ \A s \in Sessions : log[s] <= log'[s]
    /\ \A d \in Dialogs : dialog[d] # Nil => dialog'[d] # Nil /\ dialog'[d].sess = dialog[d].sess

LEMMA TruthStays ==
  ASSUME Inv, Inv', Grows, NEW m \in Message, Truthful(m, log, dialog)
  PROVE  Truthful(m, log', dialog')
  <1>1. m.sess \in Sessions /\ m.at \in Nat /\ m.dialog \in Dialogs \cup {Nil}
    BY DEF Message
  <1>2. log[m.sess] \in Nat /\ log'[m.sess] \in Nat
    BY <1>1 DEF Inv, Types, BridgeTypes
  <1> QED BY <1>1, <1>2 DEF Truthful, Grows

LEMMA AtTyped ==
  ASSUME NEW e \in Entries
  PROVE  At(e) \in Nat
  <1>1. e.entries \in Seq(Sessions \X Nat)
    BY DEF Entries
  <1>2. CASE e.entries # <<>>
    <2>1. Len(e.entries) \in 1..Len(e.entries)
      BY <1>1, <1>2
    <2>2. e.entries[Len(e.entries)] \in Sessions \X Nat
      BY <1>1, <2>1
    <2> QED BY <1>2, <2>2 DEF At
  <1> QED BY <1>2 DEF At

LEMMA ShownStays ==
  ASSUME Inv, Inv', Grows, NEW e \in Entries, Shown(e, log)
  PROVE  Shown(e, log')
  <1>1. At(e) \in Nat /\ e.sess \in Sessions
    BY AtTyped DEF Shown
  <1>2. log[e.sess] \in Nat /\ log'[e.sess] \in Nat /\ log[e.sess] <= log'[e.sess]
    BY <1>1 DEF Inv, Types, BridgeTypes, Grows
  <1> QED BY <1>1, <1>2 DEF Shown

\* The dialogs and the transcript of an entry that is left alone.
LEMMA HeldStays ==
  ASSUME Inv, Inv', Grows, UNCHANGED entry
  PROVE  (Held => Held') /\ (Offered => Offered')
  <1>1. Held => Held'
    BY ShownStays DEF Held, Inv, Types, EntryTypes
  <1>2. Offered => Offered'
    <2> SUFFICES ASSUME Offered, entry # Nil, NEW d \in entry.pendingUi
                 PROVE  dialog'[d] # Nil /\ dialog'[d].sess = entry.sess
      BY DEF Offered
    <2>1. d \in Dialogs
      BY DEF Inv, Types, EntryTypes, Entries
    <2> QED BY <2>1 DEF Offered, Grows
  <1> QED BY <1>1, <1>2

\* A place in the stream: a line, or the cursor of an entry.
Place(x) == x.sess \in Sessions /\ x.rev \in Nat /\ x.seq \in Nat /\ x.at \in Nat

LEMMA Places ==
  /\ \A m \in Message : Place(m)
  /\ \A e \in Entries : e.sess \in Sessions => Place(Cursor(e))
  BY AtTyped DEF Place, Message, Entries, Cursor

LEMMA LastTyped ==
  ASSUME NEW s \in Seq(Message), s # <<>>
  PROVE  Len(s) \in 1..Len(s) /\ 1 \in 1..Len(s) /\ s[Len(s)] \in Message /\ s[1] \in Message
  OBVIOUS

\* Reading, and in the same socket: all a step may do to a mirror that goes on.
Stays ==
    entry' # Nil /\ ~entry'.awaiting
      => entry # Nil /\ entry'.conn = entry.conn /\ (Gone(entry.conn) => Gone(entry.conn)')

\* The bridge goes on without a word: it drops an event, or is rebuilt.
LEMMA SilentStep ==
  ASSUME Inv, Inv', Grows, UNCHANGED <<sock, entry, line>>, bridge'.conn = bridge.conn,
         bridge'.linked => bridge.linked, Asking => Asking',
         \A x : Place(x) /\ Linked /\ bridge'.linked /\ Reaches(x, bridge, log)
                  => Reaches(x, bridge', log')
  PROVE  (Wire => Wire') /\ (Aligned => Aligned') /\ Stays
  <1>1. line \in [Conns -> Seq(Message)] /\ line' = line
    BY Facts
  <1>2. Linked' => Linked /\ bridge'.linked
    BY DEF Linked
  <1>3. bridge.linked => bridge.conn \in Conns
    BY DEF Inv, Known
  <1>4. ASSUME Wire PROVE Wire'
    <2>1. Threads'
      BY <1>1, <1>4 DEF Wire, Threads
    <2>2. Tied'
      <3> SUFFICES ASSUME Linked', line[bridge.conn] # <<>>
                   PROVE  Reaches(line[bridge.conn][Len(line[bridge.conn])], bridge', log')
        BY <1>1 DEF Tied
      <3>1. line[bridge.conn] \in Seq(Message)
        BY <1>1, <1>2, <1>3 DEF Linked
      <3> QED BY <1>2, <1>4, <3>1, LastTyped, Places DEF Wire, Tied
    <2>3. Truths'
      <3> SUFFICES ASSUME NEW c \in Conns, NEW i \in 1..Len(line[c])
                   PROVE  Truthful(line[c][i], log', dialog')
        BY <1>1 DEF Truths
      <3>1. line[c][i] \in Message
        BY <1>1
      <3> QED BY <1>4, <3>1, TruthStays DEF Wire, Truths
    <2> QED BY <1>4, <2>1, <2>2, <2>3 DEF Wire
  <1>5. ASSUME Aligned PROVE Aligned'
    <2> SUFFICES ASSUME entry # Nil, entry.attached, ~entry.awaiting
                 PROVE  Aligned'
      BY DEF Aligned
    <2>1. entry \in Entries /\ Shown(entry, log) /\ Shown(entry, log')
      BY <1>5, ShownStays, Facts DEF Aligned
    <2>2. Place(Cursor(entry))
      BY <2>1, Places DEF Shown
    <2> QED BY <1>1, <1>2, <1>5, <2>1, <2>2 DEF Aligned
  <1>6. Stays
    BY DEF Stays, Gone
  <1> QED BY <1>4, <1>5, <1>6

\* The bridge sends lines that continue the thread.
LEMMA SendStep ==
  ASSUME Inv, Inv', Grows, UNCHANGED <<sock, entry>>, Linked, bridge'.conn = bridge.conn,
         Asking => Asking',
         NEW ms \in Seq(Message), ms # <<>>, line' = [line EXCEPT ![bridge.conn] = @ \o ms],
         Woven(ms), \A i \in 1..Len(ms) : Truthful(ms[i], log', dialog'),
         \A x : Place(x) /\ Reaches(x, bridge, log) => Follows(x, ms[1]),
         bridge'.linked => Reaches(ms[Len(ms)], bridge', log')
  PROVE  (Wire => Wire') /\ (Aligned => Aligned') /\ Stays
  <1> DEFINE k == bridge.conn
             s == line[k]
  <1>1. k \in Conns /\ line \in [Conns -> Seq(Message)] /\ s \in Seq(Message)
    BY Facts DEF Linked, Inv, Known
  <1>2. line'[k] = s \o ms /\ \A c \in Conns : c # k => line'[c] = line[c]
    BY <1>1
  <1>3. /\ s \o ms \in Seq(Message) /\ Len(s \o ms) = Len(s) + Len(ms)
        /\ Len(s) \in Nat /\ Len(ms) \in Nat \ {0}
        /\ \A i \in 1..Len(s \o ms) : (s \o ms)[i] = IF i <= Len(s) THEN s[i] ELSE ms[i - Len(s)]
    BY <1>1, ConcatProperties
  <1>4. (s \o ms)[Len(s \o ms)] = ms[Len(ms)] /\ s \o ms # <<>>
    BY <1>3
  <1> HIDE DEF s
  <1>5. ASSUME Wire PROVE Wire'
    <2>1. Threads'
      <3>1. s # <<>> => Follows(s[Len(s)], ms[1])
        BY <1>1, <1>5, LastTyped, Places DEF Wire, Tied, s
      <3>2. Woven(s)
        BY <1>1, <1>5 DEF Wire, Threads, s
      <3>3. Woven(s \o ms)
        BY <1>1, <3>1, <3>2, WovenJoin
      <3>4. ASSUME NEW c \in Conns PROVE Woven(line'[c])
        BY <1>2, <1>5, <3>3 DEF Wire, Threads
      <3> QED BY <3>4 DEF Threads
    <2>2. Tied'
      BY <1>2, <1>4 DEF Tied, Linked
    <2>3. Truths'
      <3> SUFFICES ASSUME NEW c \in Conns, NEW i \in 1..Len(line'[c])
                   PROVE  Truthful(line'[c][i], log', dialog')
        BY DEF Truths
      <3>1. ASSUME NEW j \in 1..Len(line[c]) PROVE Truthful(line[c][j], log', dialog')
        <4>1. line[c][j] \in Message
          BY <1>1
        <4> QED BY <1>5, <4>1, TruthStays DEF Wire, Truths
      <3>2. CASE c = k
        BY <1>2, <1>3, <3>1, <3>2 DEF s
      <3> QED BY <1>2, <3>1, <3>2
    <2> QED BY <1>5, <2>1, <2>2, <2>3 DEF Wire
  <1>6. ASSUME Aligned PROVE Aligned'
    <2> SUFFICES ASSUME entry # Nil, entry.attached, ~entry.awaiting
                 PROVE  Aligned'
      BY DEF Aligned
    <2>1. entry \in Entries /\ entry.conn \in Conns /\ Shown(entry, log) /\ Shown(entry, log')
      BY <1>6, ShownStays, Facts DEF Aligned
    <2>2. Place(Cursor(entry))
      BY <2>1, Places DEF Shown
    <2>3. CASE entry.conn = k /\ s = <<>>
      <3>1. Reaches(Cursor(entry), bridge, log)
        BY <1>6, <2>3 DEF Aligned, s
      <3>2. line'[k][1] = ms[1]
        <4>1. 1 \in 1..Len(s \o ms) /\ ~(1 <= Len(s)) /\ 1 - Len(s) = 1
          BY <1>3, <2>3
        <4>2. (s \o ms)[1] = ms[1 - Len(s)]
          BY <1>3, <4>1
        <4> QED BY <1>2, <4>1, <4>2
      <3> QED BY <1>2, <1>4, <2>1, <2>2, <2>3, <3>1, <3>2 DEF Aligned
    <2>4. CASE entry.conn = k /\ s # <<>>
      <3>1. line'[k][1] = s[1]
        <4>1. 1 \in 1..Len(s \o ms) /\ 1 <= Len(s)
          BY <1>1, <1>3, <2>4, LastTyped
        <4> QED BY <1>2, <1>3, <4>1
      <3> QED BY <1>2, <1>4, <1>6, <2>1, <2>4, <3>1 DEF Aligned, s
    <2>5. CASE entry.conn # k
      BY <1>2, <1>6, <2>1, <2>5 DEF Aligned
    <2> QED BY <2>3, <2>4, <2>5
  <1>7. Stays
    BY DEF Stays, Gone
  <1> QED BY <1>5, <1>6, <1>7

\* What every step keeps: the thread, an entry that takes part in it, and what it
\* shows.
Conserves ==
    Wire => /\ Wire' /\ Stays
            /\ Aligned => Aligned' /\ (Held => Held') /\ (Offered => Offered')

-----------------------------------------------------------------------------
(* The bridge *)

LEMMA OneLine ==
  ASSUME NEW m \in Message
  PROVE  /\ <<m>> \in Seq(Message) /\ <<m>> # <<>> /\ Len(<<m>>) = 1 /\ <<m>>[1] = m
         /\ Woven(<<m>>)
  BY DEF Woven

\* The bridge sends one line.
LEMMA SendOne ==
  ASSUME Inv, Inv', Grows, UNCHANGED <<sock, entry>>, Linked, bridge'.conn = bridge.conn,
         Asking => Asking',
         NEW m \in Message, Send(<<m>>), Truthful(m, log', dialog'),
         \A x : Place(x) /\ Reaches(x, bridge, log) => Follows(x, m),
         bridge'.linked => Reaches(m, bridge', log')
  PROVE  Conserves
  <1>1. line' = [line EXCEPT ![bridge.conn] = @ \o <<m>>]
    BY DEF Send
  <1>2. \A i \in 1..Len(<<m>>) : Truthful(<<m>>[i], log', dialog')
    BY OneLine
  <1>3. <<m>>[Len(<<m>>)] = m /\ <<m>>[1] = m
    BY OneLine
  <1> DEFINE ms == <<m>>
  <1>4. ms \in Seq(Message) /\ ms # <<>> /\ Woven(ms)
    BY OneLine
  <1> HIDE DEF ms
  <1>5. (Wire => Wire') /\ (Aligned => Aligned') /\ Stays
    BY <1>1, <1>2, <1>3, <1>4, SendStep DEF ms
  <1> QED BY <1>5, HeldStays DEF Conserves

LEMMA Silence ==
  ASSUME Inv, Inv', Grows, UNCHANGED <<sock, entry, line>>, bridge'.conn = bridge.conn,
         bridge'.linked => bridge.linked, Asking => Asking',
         \A x : Place(x) /\ Linked /\ bridge'.linked /\ Reaches(x, bridge, log)
                  => Reaches(x, bridge', log')
  PROVE  Conserves
  BY SilentStep, HeldStays DEF Conserves

LEMMA EmitConserves ==
  ASSUME Inv, Inv', Grows, Live, UNCHANGED <<sock, entry>>, Asking => Asking',
         NEW d \in Dialogs \cup {Nil}, NEW opens \in BOOLEAN,
         Emit(log'[bridge.sess], d, opens),
         log'[bridge.sess] = IF d = Nil THEN log[bridge.sess] + 1 ELSE log[bridge.sess],
         d # Nil => dialog'[d] # Nil /\ dialog'[d].sess = bridge.sess
  PROVE  Conserves
  <1> DEFINE at == log'[bridge.sess]
             m  == Line("event", bridge', at, d, opens)
  <1>1. /\ bridge \in Bridges /\ bridge' = [bridge EXCEPT !.seq = @ + 1]
        /\ at \in Nat /\ log[bridge.sess] \in Nat
    BY DEF Emit, Inv, Types, BridgeTypes, Bridges
  <1>2. /\ bridge'.sess = bridge.sess /\ bridge'.rev = bridge.rev /\ bridge'.seq = bridge.seq + 1
        /\ bridge'.conn = bridge.conn /\ bridge'.linked = bridge.linked
        /\ bridge.sess \in Sessions /\ bridge.rev \in Nat /\ bridge.seq \in Nat
    BY <1>1 DEF Bridges
  <1>3. /\ m.type = "event" /\ m.sess = bridge.sess /\ m.rev = bridge.rev
        /\ m.seq = bridge.seq + 1 /\ m.at = at /\ m.dialog = d
    BY <1>2 DEF Line
  <1>4. m \in Message
    <2>1. bridge'.sess \in Sessions /\ bridge'.rev \in Nat /\ bridge'.seq \in Nat
      BY <1>2
    <2>2. "event" \in {"hello", "snapshot", "event", "goodbye"}
      OBVIOUS
    <2> HIDE DEF at
    <2> QED BY <1>1, <2>1, <2>2, LineTyped
  <1>5. \/ Send(<<m>>)
        \/ line' = line
    BY DEF Emit
  <1>m. at = IF m.dialog = Nil THEN log[bridge.sess] + 1 ELSE log[bridge.sess]
    BY <1>3
  <1> HIDE DEF m, at
  <1>6. CASE Send(<<m>>)
    <2>1. Truthful(m, log', dialog')
      BY <1>1, <1>3 DEF Truthful, at
    <2>2. ASSUME NEW x, Place(x), Reaches(x, bridge, log) PROVE Follows(x, m)
      <3>1. x.seq \in Nat /\ x.at \in Nat /\ x.seq <= bridge.seq
            /\ x.sess = bridge.sess /\ x.rev = bridge.rev
            /\ (x.seq = bridge.seq => x.at = log[bridge.sess])
        BY <2>2 DEF Place, Reaches
      <3>2. m.seq > x.seq
        BY <1>2, <1>3, <3>1
      <3>3. ASSUME m.seq = x.seq + 1
            PROVE  m.at = IF m.dialog = Nil THEN x.at + 1 ELSE x.at
        <4>1. x.seq = bridge.seq
          BY <1>2, <1>3, <3>1, <3>3
        <4> QED BY <1>3, <1>m, <3>1, <4>1
      <3> QED BY <1>3, <3>1, <3>2, <3>3 DEF Follows
    <2>3. Reaches(m, bridge', log')
      BY <1>2, <1>3 DEF Reaches, at
    <2> QED BY <1>2, <1>4, <1>6, <2>1, <2>2, <2>3, SendOne DEF Live
  <1>7. CASE line' = line
    <2>1. ASSUME NEW x, Place(x), Reaches(x, bridge, log) PROVE Reaches(x, bridge', log')
      <3>1. x.seq \in Nat /\ x.seq <= bridge.seq /\ x.sess = bridge.sess /\ x.rev = bridge.rev
        BY <2>1 DEF Place, Reaches
      <3>2. x.seq <= bridge'.seq /\ x.seq # bridge'.seq
        BY <1>2, <3>1
      <3> QED BY <1>2, <3>1, <3>2 DEF Reaches
    <2> QED BY <1>2, <1>7, <2>1, Silence
  <1> QED BY <1>5, <1>6, <1>7

\* Nothing but the bridge and what it sends changes.
LEMMA GrowsIfSame ==
  ASSUME Inv, UNCHANGED log, UNCHANGED dialog \/ dialog' = EndDialogs
  PROVE  Grows
  <1>1. log \in [Sessions -> Nat] /\ \A n \in Nat : n <= n
    BY DEF Inv, Types, BridgeTypes
  <1>2. ASSUME NEW d \in Dialogs, dialog[d] # Nil
        PROVE  dialog'[d] # Nil /\ dialog'[d].sess = dialog[d].sess
    <2>1. dialog[d] \in [sess : Sessions, open : BOOLEAN]
      BY <1>2 DEF Inv, Types, BridgeTypes, Dialogue
    <2>2. CASE dialog' = EndDialogs
      <3>1. dialog'[d] = [dialog[d] EXCEPT !.open = FALSE]
        BY <1>2, <2>2 DEF EndDialogs
      <3>2. dialog'[d].sess = dialog[d].sess
        BY <2>1, <3>1
      <3>3. dialog'[d] \in Dialogue /\ dialog'[d] # Nil
        <4>1. dialog'[d] \in [sess : Sessions, open : BOOLEAN]
          BY <2>1, <3>1
        <4> QED BY <4>1, NilIsNoDialog DEF Dialogue
      <3> QED BY <3>2, <3>3
    <2> QED BY <1>2, <2>2
  <1> QED BY <1>1, <1>2 DEF Grows

LEMMA AskingStays ==
  ASSUME Inv, \/ UNCHANGED dialog /\ bridge'.sess = bridge.sess
              \/ dialog' = EndDialogs
  PROVE  Asking => Asking'
  <1>1. CASE UNCHANGED dialog /\ bridge'.sess = bridge.sess
    BY <1>1 DEF Asking, Unanswered
  <1>2. CASE dialog' = EndDialogs
    <2>1. ASSUME NEW d \in Dialogs, dialog'[d] # Nil PROVE ~dialog'[d].open
      <3>1. dialog'[d] = [dialog[d] EXCEPT !.open = FALSE] /\ dialog[d] # Nil
        BY <1>2, <2>1 DEF EndDialogs
      <3>2. dialog[d] \in [sess : Sessions, open : BOOLEAN]
        BY <3>1 DEF Inv, Types, BridgeTypes, Dialogue
      <3> QED BY <3>1, <3>2
    <2> QED BY <2>1 DEF Asking, Unanswered
  <1> QED BY <1>1, <1>2

LEMMA PublishConserves == ASSUME Inv, Inv', Publish PROVE Conserves
  <1>1. /\ bridge.sess \in Sessions /\ log \in [Sessions -> Nat] /\ bridge \in Bridges
        /\ log' = [log EXCEPT ![bridge.sess] = @ + 1] /\ dialog' = dialog
    BY DEF Publish, Inv, Types, BridgeTypes, Bridges
  <1>2. bridge' = [bridge EXCEPT !.seq = @ + 1]
    BY DEF Publish, Emit
  <1>3. bridge'.sess = bridge.sess
    BY <1>1, <1>2 DEF Bridges
  <1>4. Grows
    <2>1. ASSUME NEW s \in Sessions PROVE log[s] <= log'[s]
      <3>1. log[s] \in Nat /\ log'[s] = IF s = bridge.sess THEN log[s] + 1 ELSE log[s]
        BY <1>1
      <3> QED BY <3>1
    <2> QED BY <1>1, <2>1 DEF Grows
  <1>5. Asking => Asking'
    BY <1>1, <1>3, AskingStays
  <1>6. log'[bridge.sess] = log[bridge.sess] + 1
    BY <1>1
  <1>7. Emit(log'[bridge.sess], Nil, FALSE) /\ Live /\ UNCHANGED <<sock, entry>>
    BY DEF Publish, connVars
  <1> QED BY <1>4, <1>5, <1>6, <1>7, EmitConserves

LEMMA DialogConserves ==
  ASSUME Inv, Inv', NEW d \in Dialogs, OpenDialog(d) \/ CloseDialog(d)
  PROVE  Conserves
  <1>1. /\ bridge \in Bridges /\ dialog \in [Dialogs -> Dialogue] /\ log \in [Sessions -> Nat]
        /\ bridge.sess \in Sessions /\ log' = log /\ Live /\ UNCHANGED <<sock, entry>>
        /\ bridge' = [bridge EXCEPT !.seq = @ + 1]
    BY DEF OpenDialog, CloseDialog, Emit, connVars, Inv, Types, BridgeTypes, Bridges
  <1>2. bridge'.sess = bridge.sess
    BY <1>1 DEF Bridges
  <1>3. \A n \in Nat : n <= n
    OBVIOUS
  <1>4. d # Nil
    BY NilIsNoDialog
  <1>5. CASE OpenDialog(d)
    <2>1. /\ dialog[d] = Nil /\ Emit(log'[bridge.sess], d, TRUE)
          /\ dialog'[d] = [sess |-> bridge.sess, open |-> TRUE]
          /\ \A x \in Dialogs : x # d => dialog'[x] = dialog[x]
      BY <1>1, <1>5 DEF OpenDialog
    <2>2. dialog'[d] # Nil /\ dialog'[d].sess = bridge.sess
      <3>1. dialog'[d] \in [sess : Sessions, open : BOOLEAN]
        BY <1>1, <2>1
      <3>2. dialog'[d] # Nil
        BY <3>1, NilIsNoDialog
      <3> QED BY <2>1, <3>2
    <2>3. Grows
      BY <1>1, <1>3, <2>1 DEF Grows
    <2>4. Asking => Asking'
      BY <1>2, <2>1, <2>2 DEF Asking, Unanswered
    <2> QED BY <1>1, <1>4, <2>1, <2>2, <2>3, <2>4, EmitConserves
  <1>6. CASE CloseDialog(d)
    <2>1. /\ dialog[d] # Nil /\ dialog[d].open /\ Emit(log'[bridge.sess], d, FALSE)
          /\ dialog'[d] = [dialog[d] EXCEPT !.open = FALSE]
          /\ \A x \in Dialogs : x # d => dialog'[x] = dialog[x]
      BY <1>1, <1>6 DEF CloseDialog
    <2>2. dialog'[d] # Nil /\ dialog'[d].sess = dialog[d].sess /\ ~dialog'[d].open
      <3>1. dialog[d] \in [sess : Sessions, open : BOOLEAN]
        BY <1>1, <2>1 DEF Dialogue
      <3>2. dialog'[d] \in [sess : Sessions, open : BOOLEAN]
        BY <2>1, <3>1
      <3>3. dialog'[d].sess = dialog[d].sess /\ ~dialog'[d].open
        BY <2>1, <3>1
      <3> QED BY <3>2, <3>3, NilIsNoDialog
    <2>3. Grows
      BY <1>1, <1>3, <2>1, <2>2 DEF Grows
    <2>4. Asking => Asking'
      BY <1>2, <2>1, <2>2 DEF Asking, Unanswered
    <2>5. ASSUME Asking PROVE dialog[d].sess = bridge.sess
      BY <2>1, <2>5 DEF Asking, Unanswered
    <2>6. CASE Asking
      BY <1>1, <1>4, <2>1, <2>2, <2>3, <2>4, <2>5, <2>6, EmitConserves
    <2> QED BY <2>6 DEF Conserves, Wire
  <1> QED BY <1>5, <1>6

\* The bridge leaves its session, its connection, or both.
LEMMA LeaveConserves ==
  ASSUME Inv, Inv', SwitchInPlace \/ Rebuild \/ Exit \/ Drop \/ LoseResync
  PROVE  Conserves
  <1>1. /\ bridge \in Bridges /\ UNCHANGED <<sock, entry, log>>
        /\ UNCHANGED dialog \/ dialog' = EndDialogs
    BY DEF SwitchInPlace, Rebuild, Exit, Drop, LoseResync, bridgeVars, connVars, Inv, Types, BridgeTypes
  <1>2. Grows
    BY <1>1, GrowsIfSame
  <1>3. Asking => Asking'
    <2>1. bridge'.sess = bridge.sess \/ dialog' = EndDialogs
      BY <1>1 DEF SwitchInPlace, Rebuild, Exit, Drop, LoseResync, bridgeVars, Bridges
    <2> QED BY <1>1, <2>1, AskingStays
  <1>4. bridge'.conn = bridge.conn /\ (bridge'.linked => bridge.linked)
    BY <1>1 DEF SwitchInPlace, Rebuild, Exit, Drop, LoseResync, bridgeVars, Bridges, Live, Linked
  <1>5. CASE line' = line /\ ~SwitchInPlace
    <2>1. bridge'.linked => bridge' = bridge
      BY <1>1, <1>5 DEF Rebuild, Exit, Drop, LoseResync, bridgeVars, Bridges
    <2> QED BY <1>1, <1>2, <1>3, <1>4, <1>5, <2>1, Silence DEF Reaches
  <1>6. CASE Linked /\ Send(<<Plain("goodbye", bridge)>>) /\ ~bridge'.linked
    <2> DEFINE m == Plain("goodbye", bridge)
    <2>1. m \in Message
      BY PlainTyped DEF Inv, Types, BridgeTypes
    <2>2. m.type = "goodbye" /\ m.at = log[m.sess] /\ m.dialog = Nil /\ m.sess \in Sessions
      BY <1>1 DEF Plain, Line, Bridges
    <2>3. log[m.sess] \in Nat /\ log' = log
      BY <1>1, <2>2 DEF Inv, Types, BridgeTypes
    <2> HIDE DEF m
    <2>4. Truthful(m, log', dialog')
      BY <2>2, <2>3 DEF Truthful
    <2>5. \A x : Follows(x, m)
      BY <2>2 DEF Follows
    <2>6. Send(<<m>>)
      BY <1>6 DEF m
    <2> QED BY <1>1, <1>2, <1>3, <1>4, <1>6, <2>1, <2>4, <2>5, <2>6, SendOne
  <1>7. CASE SwitchInPlace
    <2> DEFINE m == Plain("snapshot", bridge')
    <2>1. bridge' = [bridge EXCEPT !.sess = @ + 1, !.rev = 1, !.seq = 0]
          /\ bridge'.sess \in Sessions /\ Send(<<m>>) /\ Linked
      BY <1>1, <1>7 DEF SwitchInPlace, Live, Plain, Line
    <2>2. bridge.sess \in Nat /\ bridge'.sess = bridge.sess + 1 /\ bridge'.seq \in Nat
      BY <1>1, <2>1, FirstSession DEF Bridges
    <2>3. /\ m.type = "snapshot" /\ m.sess = bridge'.sess /\ m.rev = bridge'.rev
          /\ m.seq = bridge'.seq /\ m.at = log'[bridge'.sess] /\ m.dialog = Nil
      BY <1>1 DEF Plain, Line
    <2>4. log'[bridge'.sess] \in Nat
      BY <2>1 DEF Inv, Types, BridgeTypes
    <2>5. m \in Message
      <3>1. BridgeTypes' /\ bridge' \in Bridges
        BY DEF Inv, Types, BridgeTypes
      <3>2. Plain("snapshot", bridge') = Line("snapshot", bridge', log'[bridge'.sess], Nil, FALSE)
        BY <1>1 DEF Plain
      <3>3. bridge'.sess \in Sessions /\ bridge'.rev \in Nat /\ bridge'.seq \in Nat
        BY <3>1 DEF Bridges
      <3> QED BY <2>4, <3>2, <3>3, LineTyped
    <2> HIDE DEF m
    <2>6. Truthful(m, log', dialog')
      BY <2>3, <2>4 DEF Truthful
    <2>7. \A x : Reaches(x, bridge, log) => Follows(x, m)
      BY <2>2, <2>3 DEF Reaches, Follows
    <2>8. Reaches(m, bridge', log')
      BY <2>2, <2>3 DEF Reaches
    <2> QED BY <1>1, <1>2, <1>3, <1>4, <2>1, <2>5, <2>6, <2>7, <2>8, SendOne
  <1>8. ~SwitchInPlace => \/ line' = line
                          \/ Linked /\ Send(<<Plain("goodbye", bridge)>>) /\ ~bridge'.linked
    BY <1>1 DEF Rebuild, Exit, Drop, LoseResync, Live, Bridges
  <1> QED BY <1>5, <1>6, <1>7, <1>8

\* The snapshot that answers a resync, and the unanswered dialogs behind it.
LEMMA AnswerConserves == ASSUME Inv, Inv', AnswerResync PROVE Conserves
  <1> DEFINE b       == [bridge EXCEPT !.rev = @ + 1]
             ds      == SetToSeq(Unanswered)
             n       == Len(ds)
             replays == [i \in 1..n |->
                           Line("event", [b EXCEPT !.seq = @ + i], log[b.sess], ds[i], TRUE)]
             ms      == <<Plain("snapshot", b)>> \o replays
  <1>1. /\ bridge \in Bridges /\ UNCHANGED <<sock, entry, log, dialog>> /\ Live
        /\ log[bridge.sess] \in Nat /\ bridge.rev \in Nat /\ bridge.seq \in Nat
        /\ bridge.sess \in Sessions
    BY DEF AnswerResync, connVars, Inv, Types, BridgeTypes, Bridges
  <1>2. bridge' = [b EXCEPT !.seq = @ + n] /\ Send(ms)
    BY DEF AnswerResync
  <1>3. b \in Bridges /\ b.sess = bridge.sess /\ b.rev = bridge.rev + 1 /\ b.seq = bridge.seq
    BY <1>1 DEF Bridges
  <1>4. ds \in Seq(Unanswered) /\ n \in Nat
    BY FiniteDialogs, FS_Subset, SetToSeqTyped DEF Unanswered
  <1>5. bridge'.sess = bridge.sess /\ bridge'.rev = bridge.rev + 1 /\ bridge'.seq = bridge.seq + n
        /\ bridge'.conn = bridge.conn
    <2> HIDE DEF n
    <2>1. b.conn = bridge.conn
      BY <1>1 DEF Bridges
    <2> HIDE DEF b
    <2> QED BY <1>2, <1>3, <1>4, <2>1 DEF Bridges
  <1>6. /\ Plain("snapshot", b) \in Message
        /\ Plain("snapshot", b).type = "snapshot" /\ Plain("snapshot", b).sess = bridge.sess
        /\ Plain("snapshot", b).rev = bridge.rev + 1 /\ Plain("snapshot", b).seq = bridge.seq
        /\ Plain("snapshot", b).at = log[bridge.sess] /\ Plain("snapshot", b).dialog = Nil
    <2> HIDE DEF b
    <2>1. Plain("snapshot", b) \in Message
      BY <1>3, PlainTyped DEF Inv, Types
    <2> QED BY <1>3, <2>1 DEF Plain, Line
  <1>7. ASSUME NEW i \in 1..n
        PROVE  /\ replays[i] \in Message /\ ds[i] \in Unanswered
               /\ replays[i].type = "event" /\ replays[i].sess = bridge.sess
               /\ replays[i].rev = bridge.rev + 1 /\ replays[i].seq = bridge.seq + i
               /\ replays[i].at = log[bridge.sess] /\ replays[i].dialog = ds[i]
    <2> DEFINE x == [b EXCEPT !.seq = @ + i]
               m == Line("event", x, log[b.sess], ds[i], TRUE)
    <2>1. ds[i] \in Unanswered /\ ds[i] \in Dialogs
      BY <1>4 DEF Unanswered
    <2>2. x.sess = bridge.sess /\ x.rev = bridge.rev + 1 /\ x.seq = bridge.seq + i
      <3> HIDE DEF b, n
      <3> QED BY <1>3, <1>4 DEF Bridges
    <2>3. x.sess \in Sessions /\ x.rev \in Nat /\ x.seq \in Nat /\ log[b.sess] \in Nat
      <3> HIDE DEF b, n, x
      <3> QED BY <1>1, <1>3, <1>4, <2>2
    <2>4. m \in Message
      <3> HIDE DEF x, b, ds
      <3> QED BY <2>1, <2>3, LineTyped
    <2>5. /\ m.type = "event" /\ m.sess = bridge.sess /\ m.rev = bridge.rev + 1
          /\ m.seq = bridge.seq + i /\ m.at = log[bridge.sess] /\ m.dialog = ds[i]
      <3> HIDE DEF x, b, ds
      <3> QED BY <1>3, <2>2 DEF Line
    <2>6. replays[i] = m
      OBVIOUS
    <2> HIDE DEF replays, m
    <2> QED BY <2>1, <2>4, <2>5, <2>6
  <1>8. replays \in Seq(Message) /\ Len(replays) = n
    <2>1. replays \in [1..n -> Message]
      <3>1. DOMAIN replays = 1..n /\ replays = [i \in 1..n |-> replays[i]]
        OBVIOUS
      <3> HIDE DEF replays, n
      <3> QED BY <1>7, <3>1
    <2> HIDE DEF replays, n
    <2> QED BY <1>4, <2>1
  <1> HIDE DEF replays, n, ds, b
  <1>9. /\ <<Plain("snapshot", b)>> \in Seq(Message) /\ Len(<<Plain("snapshot", b)>>) = 1
        /\ <<Plain("snapshot", b)>>[1] = Plain("snapshot", b)
    BY <1>6
  <1>10. /\ ms \in Seq(Message) /\ Len(ms) = n + 1 /\ ms[1] = Plain("snapshot", b)
         /\ \A i \in 1..n : ms[i + 1] = replays[i]
    <2>1. /\ ms \in Seq(Message) /\ Len(ms) = 1 + n
          /\ \A i \in 1..(1 + n) : ms[i] = IF i <= 1 THEN <<Plain("snapshot", b)>>[i]
                                           ELSE replays[i - 1]
      BY <1>8, <1>9, ConcatProperties
    <2> HIDE DEF ms
    <2>2. ASSUME NEW i \in 1..n PROVE i + 1 \in 1..(1 + n) /\ ~(i + 1 <= 1) /\ (i + 1) - 1 = i
      BY <1>4
    <2>3. 1 \in 1..(1 + n)
      BY <1>4
    <2>4. ASSUME NEW i \in 1..n PROVE ms[i + 1] = replays[i]
      <3>1. ms[i + 1] = replays[(i + 1) - 1]
        BY <2>1, <2>2
      <3> QED BY <2>2, <3>1
    <2> QED BY <1>4, <1>9, <2>1, <2>3, <2>4
  <1> HIDE DEF ms
  <1>11. ASSUME NEW j \in 1..(n + 1)
         PROVE  /\ ms[j].sess = bridge.sess /\ ms[j].rev = bridge.rev + 1
                /\ ms[j].seq = bridge.seq + (j - 1) /\ ms[j].at = log[bridge.sess]
                /\ ms[j].dialog = Nil \/ ms[j].dialog \in Unanswered
                /\ j # 1 => ms[j].dialog \in Unanswered
    <2>1. CASE j = 1
      BY <1>1, <1>6, <1>10, <2>1
    <2>2. CASE j # 1
      <3>1. j - 1 \in 1..n /\ (j - 1) + 1 = j
        BY <1>4, <2>2
      <3>2. ms[j] = replays[j - 1]
        BY <1>10, <3>1
      <3> QED BY <1>7, <3>1, <3>2
    <2> QED BY <2>1, <2>2
  <1>12. Woven(ms)
    <2> SUFFICES ASSUME NEW i \in 1..n PROVE Follows(ms[i], ms[i + 1])
      BY <1>4, <1>10 DEF Woven
    <2>1. i \in 1..(n + 1) /\ i + 1 \in 1..(n + 1) /\ i + 1 # 1
      BY <1>4
    <2>2. /\ ms[i].seq = bridge.seq + (i - 1) /\ ms[i + 1].seq = bridge.seq + (i + 1 - 1)
          /\ ms[i].sess = ms[i + 1].sess /\ ms[i].rev = ms[i + 1].rev
          /\ ms[i].at = ms[i + 1].at /\ ms[i + 1].dialog \in Unanswered
      BY <1>11, <2>1
    <2>3. ms[i + 1].seq > ms[i].seq
      BY <1>1, <2>2
    <2>4. ms[i + 1].dialog # Nil
      BY <2>2, NilIsNoDialog DEF Unanswered
    <2>5. ms[i + 1].type = "event"
      BY <1>7, <1>10
    <2> QED BY <2>2, <2>3, <2>4, <2>5 DEF Follows
  <1>13. ASSUME Wire, NEW j \in 1..Len(ms) PROVE Truthful(ms[j], log', dialog')
    <2>1. j \in 1..(n + 1)
      BY <1>10
    <2>2. ms[j].at <= log[ms[j].sess]
      BY <1>1, <1>11, <2>1
    <2>3. ASSUME ms[j].dialog # Nil
          PROVE  dialog[ms[j].dialog] # Nil /\ dialog[ms[j].dialog].sess = ms[j].sess
      BY <1>11, <1>13, <2>1, <2>3 DEF Wire, Asking, Unanswered
    <2> QED BY <1>1, <2>2, <2>3 DEF Truthful
  <1>14. ASSUME NEW x, Place(x), Reaches(x, bridge, log) PROVE Follows(x, ms[1])
    <2>1. bridge.rev + 1 > bridge.rev
      BY <1>1
    <2> QED BY <1>6, <1>10, <1>14, <2>1 DEF Reaches, Follows
  <1>15. Reaches(ms[Len(ms)], bridge', log')
    <2> DEFINE m == ms[n + 1]
    <2>1. m.sess = bridge.sess /\ m.rev = bridge.rev + 1 /\ m.at = log[bridge.sess]
          /\ m.seq = bridge.seq + n
      <3>1. n + 1 \in 1..(n + 1) /\ (n + 1) - 1 = n
        BY <1>4
      <3> QED BY <1>11, <3>1
    <2> HIDE DEF m
    <2>2. bridge.seq + n <= bridge.seq + n
      BY <1>1, <1>4
    <2>3. Reaches(m, bridge', log')
      BY <1>1, <1>5, <2>1, <2>2 DEF Reaches
    <2> QED BY <1>10, <2>3 DEF m
  <1>16. Grows
    BY <1>1, GrowsIfSame
  <1>17. Asking => Asking'
    BY <1>1, <1>5, AskingStays
  <1>18. ms # <<>> /\ line' = [line EXCEPT ![bridge.conn] = @ \o ms]
    BY <1>2, <1>4, <1>10 DEF Send
  <1>19. ASSUME Wire PROVE Wire' /\ (Aligned => Aligned') /\ Stays
    BY <1>1, <1>5, <1>10, <1>12, <1>13, <1>14, <1>15, <1>16, <1>17, <1>18, <1>19, SendStep DEF Live
  <1> QED BY <1>1, <1>16, <1>19, HeldStays DEF Conserves

\* A new connection: a thread of its own.
LEMMA ConnectConserves == ASSUME Inv, Inv', Connect PROVE Conserves
  <1> DEFINE c == bridge.conn + 1
             h == Plain("hello", bridge')
             m == Plain("snapshot", bridge')
  <1>1. /\ bridge \in Bridges /\ UNCHANGED <<entry, log, dialog>> /\ c \in Conns
        /\ bridge.conn \in Nat /\ bridge'.conn = c /\ bridge'.sess = bridge.sess
        /\ bridge' \in Bridges
    BY DEF Connect, Inv, Types, BridgeTypes, Bridges
  <1>2. line' = [line EXCEPT ![c] = <<h, m>>] /\ sock' = [sock EXCEPT ![c] = "open"]
    BY DEF Connect, Plain
  <1>3. /\ line'[c] = <<h, m>> /\ Len(line'[c]) = 2 /\ line'[c][1] = h /\ line'[c][2] = m
        /\ \A x \in Conns : x # c => line'[x] = line[x] /\ sock'[x] = sock[x]
    BY <1>1, <1>2, Facts
  <1>4. /\ h.type = "hello" /\ m.type = "snapshot"
        /\ h.sess = bridge'.sess /\ h.at = log[bridge.sess] /\ h.dialog = Nil
        /\ m.sess = bridge'.sess /\ m.rev = bridge'.rev /\ m.seq = bridge'.seq
        /\ m.at = log[bridge.sess] /\ m.dialog = Nil
    BY <1>1 DEF Plain, Line
  <1>5. log[bridge.sess] \in Nat /\ bridge'.seq \in Nat
    BY <1>1 DEF Inv, Types, BridgeTypes, Bridges
  <1> HIDE DEF h, m
  <1>6. Grows
    BY <1>1, GrowsIfSame
  <1>7. entry # Nil => entry.conn \in Conns /\ entry.conn # c
    <2>1. ASSUME entry # Nil PROVE entry.conn \in Nat /\ entry.conn <= bridge.conn
      BY <2>1, Facts DEF Conns
    <2> QED BY <1>1, <2>1, Facts
  <1>8. ASSUME Wire PROVE Wire'
    <2>1. Threads'
      <3>1. Woven(line'[c])
        <4>1. \A i \in 1..(Len(line'[c]) - 1) : i = 1
          BY <1>3
        <4> QED BY <1>3, <1>4, <4>1 DEF Woven
      <3> QED BY <1>3, <1>8, <3>1 DEF Wire, Threads
    <2>2. Tied'
      <3>1. Reaches(m, bridge', log')
        BY <1>1, <1>4, <1>5 DEF Reaches
      <3> QED BY <1>1, <1>3, <3>1 DEF Tied
    <2>3. Truths'
      <3> SUFFICES ASSUME NEW x \in Conns, NEW i \in 1..Len(line'[x])
                   PROVE  Truthful(line'[x][i], log', dialog')
        BY DEF Truths
      <3>1. CASE x = c
        <4>1. line'[x][i] = h \/ line'[x][i] = m
          BY <1>3, <3>1
        <4> QED BY <1>1, <1>4, <1>5, <4>1 DEF Truthful
      <3> QED BY <1>1, <1>3, <1>8, <3>1 DEF Wire, Truths
    <2>4. Asking'
      BY <1>1, <1>8, AskingStays DEF Wire
    <2> QED BY <2>1, <2>2, <2>3, <2>4 DEF Wire
  <1>9. Aligned => Aligned'
    BY <1>1, <1>3, <1>7 DEF Aligned
  <1>10. Stays
    BY <1>1, <1>3, <1>7 DEF Stays, Gone
  <1> QED BY <1>1, <1>6, <1>8, <1>9, <1>10, HeldStays DEF Conserves

-----------------------------------------------------------------------------
(* The dashboard *)

\* It takes lines from the front, drops all that a connection has, or loses the
\* last of them with the socket.
Reads ==
    /\ UNCHANGED bridgeVars
    /\ \A c \in Conns :
         /\ sock'[c] = "open" => sock[c] = "open"
         /\ \/ line'[c] = line[c]
            \/ line'[c] = <<>>
            \/ line[c] # <<>> /\ line'[c] = Tail(line[c])
            \/ sock'[c] # "open" /\ \E n \in 0..Len(line[c]) : line'[c] = SubSeq(line[c], 1, n)

\* What is left of a connection's lines.
LEMMA LineLeft ==
  ASSUME Inv, Reads, NEW c \in Conns
  PROVE  /\ Woven(line[c]) => Woven(line'[c])
         /\ \A i \in 1..Len(line'[c]) : \E j \in 1..Len(line[c]) : line'[c][i] = line[c][j]
         /\ line'[c] # <<>> /\ sock'[c] = "open" =>
              line[c] # <<>> /\ line'[c][Len(line'[c])] = line[c][Len(line[c])]
  <1> DEFINE s == line[c]
             t == line'[c]
  <1>1. s \in Seq(Message)
    BY Facts
  <1>2. \/ t = s
        \/ t = <<>>
        \/ s # <<>> /\ t = Tail(s)
        \/ sock'[c] # "open" /\ \E n \in 0..Len(s) : t = SubSeq(s, 1, n)
    BY DEF Reads
  <1> HIDE DEF s, t
  <1>3. CASE t = s
    BY <1>3 DEF s, t
  <1>4. CASE t = <<>>
    BY <1>4 DEF s, t, Woven
  <1>5. CASE s # <<>> /\ t = Tail(s)
    <2>1. Woven(s) => Woven(t)
      BY <1>1, <1>5, WovenTail
    <2>2. Len(t) = Len(s) - 1 /\ \A i \in 1..Len(t) : t[i] = s[i + 1]
      BY <1>1, <1>5
    <2>3. ASSUME NEW i \in 1..Len(t) PROVE i + 1 \in 1..Len(s)
      BY <1>1, <2>2
    <2>4. t # <<>> => Len(t) \in 1..Len(t) /\ Len(t) + 1 = Len(s)
      BY <1>1, <1>5, <2>2
    <2> QED BY <1>5, <2>1, <2>2, <2>3, <2>4 DEF s, t
  <1>6. CASE sock'[c] # "open" /\ \E n \in 0..Len(s) : t = SubSeq(s, 1, n)
    <2>1. PICK n \in 0..Len(s) : t = SubSeq(s, 1, n)
      BY <1>6
    <2>2. Woven(s) => Woven(t)
      BY <1>1, <2>1, WovenSub
    <2>3. Len(t) = n /\ \A i \in 1..n : i \in 1..Len(s) /\ t[i] = s[i]
      BY <1>1, <2>1
    <2> QED BY <1>6, <2>2, <2>3 DEF s, t
  <1> QED BY <1>2, <1>3, <1>4, <1>5, <1>6

LEMMA ReadGrows == ASSUME Inv, Reads PROVE Grows
  BY GrowsIfSame DEF Reads, bridgeVars

LEMMA ReadStep ==
  ASSUME Inv, Inv', Reads
  PROVE  (Wire => Wire') /\ (Linked' => Linked)
  <1>1. UNCHANGED <<bridge, log, dialog>>
    BY DEF Reads, bridgeVars
  <1>2. Linked' => Linked /\ bridge.conn \in Conns
    BY <1>1 DEF Reads, Linked, Inv, Known
  <1>3. ASSUME Wire PROVE Wire'
    <2>1. Threads'
      BY <1>3, LineLeft DEF Wire, Threads
    <2>2. Tied'
      BY <1>1, <1>2, <1>3, LineLeft DEF Wire, Tied, Linked
    <2>3. Truths'
      <3> SUFFICES ASSUME NEW c \in Conns, NEW i \in 1..Len(line'[c])
                   PROVE  Truthful(line'[c][i], log, dialog)
        BY <1>1 DEF Truths
      <3>1. PICK j \in 1..Len(line[c]) : line'[c][i] = line[c][j]
        BY LineLeft
      <3> QED BY <1>3, <3>1 DEF Wire, Truths
    <2>4. Asking'
      BY <1>1, <1>3 DEF Wire, Asking, Unanswered
    <2> QED BY <2>1, <2>2, <2>3, <2>4 DEF Wire
  <1> QED BY <1>2, <1>3

\* The entry goes on as it was, with its lines or with the first of them, or it
\* is detached.
LEMMA SameStep ==
  ASSUME Inv, Inv', Reads, entry' = entry \/ entry' = Nil,
         entry' # Nil =>
           /\ Gone(entry.conn) => Gone(entry.conn)'
           /\ \/ line'[entry.conn] = line[entry.conn]
              \/ /\ sock'[entry.conn] # "open"
                 /\ \E n \in 0..Len(line[entry.conn]) :
                      line'[entry.conn] = SubSeq(line[entry.conn], 1, n)
  PROVE  Conserves
  <1>1. (Wire => Wire') /\ (Linked' => Linked) /\ Grows
    BY ReadStep, ReadGrows
  <1>2. UNCHANGED <<bridge, log, dialog>>
    BY DEF Reads, bridgeVars
  <1>3. CASE entry' = Nil
    BY <1>1, <1>3 DEF Conserves, Stays, Aligned, Held, Offered
  <1>4. CASE entry' = entry /\ entry # Nil
    <2> DEFINE s == line[entry.conn]
               t == line'[entry.conn]
    <2>1. Stays
      BY <1>4 DEF Stays, Gone
    <2>2. s \in Seq(Message)
      BY <1>4, Facts
    <2>3. \/ t = s
          \/ sock'[entry.conn] # "open" /\ (t # <<>> => s # <<>> /\ t[1] = s[1])
      <3>1. ASSUME NEW n \in 0..Len(s), t = SubSeq(s, 1, n)
            PROVE  t # <<>> => s # <<>> /\ t[1] = s[1]
        <4>1. t # <<>> => 1 \in 1..n
          BY <2>2, <3>1
        <4> QED BY <2>2, <3>1, <4>1
      <3> QED BY <1>4, <3>1
    <2>4. Aligned => Aligned'
      <3>1. CASE t = s
        BY <1>1, <1>2, <1>4, <3>1 DEF Aligned
      <3>2. CASE sock'[entry.conn] # "open" /\ (t # <<>> => s # <<>> /\ t[1] = s[1])
        BY <1>2, <1>4, <3>2 DEF Aligned, Linked
      <3> QED BY <2>3, <3>1, <3>2
    <2> QED BY <1>1, <1>4, <2>1, <2>4, HeldStays DEF Conserves
  <1> QED BY <1>3, <1>4

\* The entry has come to the line that was taken.
LEMMA TakenAligned ==
  ASSUME Inv, Inv', Wire, Reads, UNCHANGED sock, NEW c \in Conns, line[c] # <<>>, Pop(c),
         Top(c).type # "hello", entry' # Nil, entry'.conn = c, Shown(entry', log),
         LET x == Cursor(entry') IN
           /\ x.sess = Top(c).sess /\ x.rev = Top(c).rev
           /\ x.seq = Top(c).seq /\ x.at = Top(c).at
  PROVE  Aligned'
  <1> DEFINE s == line[c]
             m == Top(c)
             x == Cursor(entry')
  <1>1. s \in Seq(Message) /\ line'[c] = Tail(s) /\ m = s[1]
    BY Facts DEF Pop, Top
  <1>2. UNCHANGED <<bridge, log, dialog>> /\ (Linked' => Linked)
    BY ReadStep DEF Reads, bridgeVars
  <1>3. x.sess = m.sess /\ x.rev = m.rev /\ x.seq = m.seq /\ x.at = m.at
    OBVIOUS
  <1>4. \A y : (Follows(m, y) => Follows(x, y)) /\ (Reaches(m, bridge, log) => Reaches(x, bridge, log))
    <2> HIDE DEF x, m
    <2> QED BY <1>3 DEF Follows, Reaches
  <1>5. ASSUME Tail(s) # <<>> PROVE Follows(x, Tail(s)[1])
    <2>1. 1 \in 1..(Len(s) - 1) /\ Tail(s)[1] = s[1 + 1]
      BY <1>1, <1>5
    <2>2. Follows(s[1], s[1 + 1])
      BY <1>1, <2>1 DEF Wire, Threads, Woven
    <2> HIDE DEF x, m, s
    <2> QED BY <1>1, <1>4, <2>1, <2>2
  <1>6. ASSUME Tail(s) = <<>>, Linked, c = bridge.conn PROVE Reaches(x, bridge, log)
    <2>1. Len(s) = 1
      <3>1. s # <<>>
        OBVIOUS
      <3> HIDE DEF s
      <3>2. Len(Tail(s)) = Len(s) - 1 /\ Len(s) \in Nat
        BY <1>1, <3>1, HeadTailProperties
      <3>3. Len(Tail(s)) = 0
        <4> DEFINE t == Tail(s)
        <4>1. t = <<>>
          BY <1>6
        <4> HIDE DEF t
        <4>2. Len(t) = 0
          BY <4>1
        <4> QED BY <4>2 DEF t
      <3> QED BY <3>2, <3>3
    <2>2. Reaches(s[1], bridge, log)
      BY <1>6, <2>1 DEF Wire, Tied
    <2> HIDE DEF x, m, s
    <2> QED BY <1>1, <1>4, <2>2
  <1> HIDE DEF s, m
  <1> QED BY <1>1, <1>2, <1>5, <1>6 DEF Aligned

\* Conserves, but for a mirror that goes on without the line that was refused.
Spares(p) ==
    Wire => /\ Wire' /\ Stays
            /\ Aligned /\ ~p => Aligned' /\ (Held => Held') /\ (Offered => Offered')

LEMMA PopReads ==
  ASSUME Inv, NEW c \in Conns, line[c] # <<>>, Pop(c), UNCHANGED bridgeVars,
         \A x \in Conns : sock'[x] = "open" => sock[x] = "open"
  PROVE  Reads /\ \A x \in Conns : x # c => line'[x] = line[x]
  BY Facts DEF Pop, Reads

LEMMA RejectSpares ==
  ASSUME Inv, Inv', NEW c \in Conns, line[c] # <<>>, Reject(c), UNCHANGED bridgeVars
  PROVE  Spares(Current(c) /\ Gone(c))
  <1>1. CASE Gone(c)
    <2>1. Pop(c) /\ UNCHANGED <<sock, entry>>
      BY <1>1 DEF Reject
    <2>2. Reads /\ \A x \in Conns : x # c => line'[x] = line[x]
      BY <2>1, PopReads
    <2>3. CASE Current(c)
      BY <1>1, <2>1, <2>2, <2>3, ReadStep DEF Spares, Stays, Gone
    <2>4. CASE ~Current(c)
      <3>1. entry # Nil => entry.conn \in Conns /\ entry.conn # c
        BY <2>4, Facts DEF Current
      <3>2. Conserves
        BY <2>1, <2>2, <3>1, SameStep DEF Gone
      <3> QED BY <3>2 DEF Conserves, Spares
    <2> QED BY <2>3, <2>4
  <1>2. CASE ~Gone(c)
    <2>1. /\ sock' = [sock EXCEPT ![c] = "ended"] /\ line' = [line EXCEPT ![c] = <<>>]
          /\ entry' = IF bound[c] /\ Current(c) THEN Nil ELSE entry
      BY <1>2 DEF Reject
    <2>2. \A x \in Conns : /\ x # c => sock'[x] = sock[x] /\ line'[x] = line[x]
                           /\ x = c => sock'[x] = "ended" /\ line'[x] = <<>>
      BY <2>1, Facts
    <2>3. Reads
      BY <2>2 DEF Reads
    <2>4. entry' = entry \/ entry' = Nil
      BY <2>1
    <2>5. ASSUME entry' # Nil PROVE entry.conn \in Conns /\ entry.conn # c
      BY <2>1, <2>5, Facts DEF Current
    <2>6. Conserves
      BY <2>2, <2>3, <2>4, <2>5, SameStep DEF Gone
    <2> QED BY <2>6 DEF Conserves, Spares
  <1> QED BY <1>1, <1>2

LEMMA RefuseSpares ==
  ASSUME Inv, Inv', NEW c \in Conns, Refuse(c)
  PROVE  Spares(Unheard(c))
  BY RejectSpares DEF Refuse, Unheard, Spares

LEMMA HelloConserves ==
  ASSUME Inv, Inv', NEW c \in Conns, Hello(c)
  PROVE  Conserves
  <1>1. line[c] # <<>> /\ UNCHANGED bridgeVars
    BY DEF Hello, Others
  <1>2. CASE entry = Nil
    <2>1. entry' = NewEntry(c) /\ Pop(c) /\ sock' = sock
      BY <1>2 DEF Hello
    <2>2. Reads
      BY <1>1, <2>1, PopReads
    <2>3. entry'.awaiting /\ ~entry'.attached /\ entry'.pendingUi = {} /\ entry'.entries = <<>>
      BY <2>1 DEF NewEntry
    <2> QED BY <2>2, <2>3, ReadStep DEF Conserves, Stays, Aligned, Held, Offered
  <1>3. CASE entry # Nil
    <2> DEFINE old == entry.conn
    <2>1. /\ entry' = TakenOver(c) /\ entry \in Entries /\ old \in Conns
          /\ sock' = [sock EXCEPT ![old] = Close(old)]
          /\ line' = [line EXCEPT ![c] = Tail(@), ![old] = <<>>]
      BY <1>3, Facts DEF Hello
    <2>2. /\ entry'.awaiting /\ entry'.attached = entry.attached
          /\ entry'.pendingUi = entry.pendingUi /\ entry'.sess = entry.sess
          /\ entry'.entries = entry.entries
      BY <2>1 DEF TakenOver, Entries
    <2>3. \A x \in Conns : sock'[x] = "open" => sock[x] = "open"
      BY <2>1, Facts DEF Close
    <2>4. \A x \in Conns : \/ line'[x] = line[x]
                           \/ line'[x] = <<>>
                           \/ x = c /\ line'[x] = Tail(line[x])
      <3> DEFINE rest == [line EXCEPT ![c] = Tail(@)]
      <3>1. /\ rest[c] = Tail(line[c]) /\ \A x \in Conns : x # c => rest[x] = line[x]
            /\ DOMAIN rest = Conns
        BY Facts
      <3>2. line' = [rest EXCEPT ![old] = <<>>]
        BY <2>1
      <3> HIDE DEF rest
      <3>3. \A x \in Conns : line'[x] \in {rest[x], <<>>}
        BY <2>1, <3>1, <3>2
      <3> QED BY <3>1, <3>3
    <2>5. Reads
      BY <1>1, <2>3, <2>4 DEF Reads
    <2>6. UNCHANGED <<log, dialog>>
      BY <1>1 DEF bridgeVars
    <2>7. Held => Held'
      BY <1>3, <2>2, <2>6 DEF Held, Shown, At
    <2>8. Offered => Offered'
      BY <1>3, <2>2, <2>6 DEF Offered
    <2> QED BY <2>2, <2>5, <2>7, <2>8, ReadStep DEF Conserves, Stays, Aligned
  <1> QED BY <1>2, <1>3

LEMMA SnapshotConserves ==
  ASSUME Inv, Inv', NEW c \in Conns, Snapshot(c)
  PROVE  Conserves
  <1> DEFINE m == Top(c)
  <1>1. /\ line[c] # <<>> /\ m \in Message /\ m.type = "snapshot" /\ UNCHANGED bridgeVars
        /\ m = line[c][1] /\ line[c] \in Seq(Message)
    BY Facts DEF Snapshot, Others, Top
  <1>2. CASE ~Current(c)
    <2>1. Spares(Current(c) /\ Gone(c))
      BY <1>1, <1>2, RejectSpares DEF Snapshot
    <2> QED BY <1>2, <2>1 DEF Spares, Conserves
  <1>3. CASE Current(c)
    <2>1. entry # Nil /\ entry \in Entries /\ entry.conn = c /\ Pop(c) /\ UNCHANGED sock
      BY <1>3, Facts DEF Snapshot, Current
    <2>2. Reads
      BY <1>1, <2>1, PopReads
    <2>3. UNCHANGED <<log, dialog>> /\ (Wire => Wire')
      BY <2>2, ReadStep DEF Reads, bridgeVars
    <2>4. CASE Newer(m)
      <3> DEFINE t == Newest([i \in 1..m.at |-> <<m.sess, i>>])
      <3>1. entry' = [entry EXCEPT !.attached = TRUE, !.awaiting = FALSE, !.stale = FALSE,
                                   !.rev = m.rev, !.seq = m.seq, !.sess = m.sess,
                                   !.entries = t, !.pendingUi = Kept(m)]
        BY <1>3, <2>4 DEF Snapshot
      <3>2. m.sess \in Sessions /\ m.at \in Nat /\ t = Newest(Whole(m.sess, m.at))
        BY <1>1 DEF Message, Whole
      <3> HIDE DEF m, t
      <3>3. /\ entry'.conn = c /\ entry'.attached /\ ~entry'.awaiting /\ entry'.sess = m.sess
            /\ entry'.rev = m.rev /\ entry'.seq = m.seq /\ entry'.entries = t
            /\ entry'.pendingUi = Kept(m)
        BY <2>1, <3>1 DEF Entries
      <3>4. At(entry') = m.at
        BY <3>2, <3>3, EndsAt
      <3>6. ASSUME Wire PROVE Shown(entry', log) /\ Shown(entry', log') /\ Aligned'
        <4>1. m.at <= log[m.sess]
          <5>1. 1 \in 1..Len(line[c])
            BY <1>1
          <5> QED BY <1>1, <3>6, <5>1 DEF Wire, Truths, Truthful
        <4>2. Shown(entry', log)
          BY <3>2, <3>3, <3>4, <4>1 DEF Shown
        <4>3. LET x == Cursor(entry') IN
                x.sess = m.sess /\ x.rev = m.rev /\ x.seq = m.seq /\ x.at = m.at
          BY <3>3, <3>4 DEF Cursor
        <4>4. Aligned'
          <5>1. CASE entry' # Nil
            BY <1>1, <2>1, <2>2, <3>3, <3>6, <4>2, <4>3, <5>1, TakenAligned DEF m
          <5>2. CASE entry' = Nil
            BY <5>2 DEF Aligned
          <5> QED BY <5>1, <5>2
        <4> QED BY <2>3, <4>2, <4>4
      <3>7. Offered => Offered'
        BY <2>1, <2>3, <3>3 DEF Offered, Kept
      <3>8. Stays
        BY <2>1, <3>3 DEF Stays, Gone
      <3> QED BY <2>3, <3>6, <3>7, <3>8 DEF Conserves, Held
    <2>5. CASE ~Newer(m)
      <3>1. entry' = entry
        BY <1>3, <2>5 DEF Snapshot
      <3>2. ASSUME Aligned PROVE ~(entry.attached /\ ~entry.awaiting)
        <4>1. ASSUME entry.attached, ~entry.awaiting PROVE Follows(Cursor(entry), m)
          BY <1>1, <2>1, <3>2, <4>1 DEF Aligned
        <4> HIDE DEF m
        <4> QED BY <1>1, <2>1, <2>5, <4>1 DEF Follows, Cursor, Newer
      <3>3. Aligned => Aligned'
        BY <3>1, <3>2 DEF Aligned
      <3>4. Stays
        BY <2>1, <3>1 DEF Stays, Gone
      <3> QED BY <2>2, <2>3, <3>1, <3>3, <3>4, HeldStays, ReadGrows DEF Conserves
    <2> QED BY <2>4, <2>5
  <1> QED BY <1>2, <1>3

\* What an event changes, when it comes in sequence.
LEMMA Applied ==
  ASSUME Inv, entry \in Entries, NEW m \in Message
  PROVE  LET e == Apply(m) IN
         /\ e.conn = entry.conn /\ e.sess = entry.sess /\ e.rev = entry.rev
         /\ e.attached = entry.attached /\ e.awaiting = entry.awaiting /\ e.seq = m.seq
         /\ e.entries = IF m.dialog = Nil THEN Newest(Append(entry.entries, <<m.sess, m.at>>))
                        ELSE entry.entries
         /\ e.pendingUi \subseteq entry.pendingUi \cup ({m.dialog} \ {Nil})
  <1> DEFINE es == IF m.dialog = Nil THEN Newest(Append(entry.entries, <<m.sess, m.at>>))
                   ELSE entry.entries
             ui == IF m.dialog = Nil THEN entry.pendingUi
                   ELSE IF m.opens THEN entry.pendingUi \cup {m.dialog}
                   ELSE entry.pendingUi \ {m.dialog}
  <1>1. Apply(m) = [entry EXCEPT !.seq = m.seq, !.stale = FALSE, !.entries = es, !.pendingUi = ui]
    BY DEF Apply
  <1>2. ui \subseteq entry.pendingUi \cup ({m.dialog} \ {Nil})
    OBVIOUS
  <1> HIDE DEF ui
  <1>3. Apply(m).pendingUi = ui
    BY <1>1 DEF Entries
  <1> HIDE DEF es
  <1>4. /\ Apply(m).conn = entry.conn /\ Apply(m).sess = entry.sess /\ Apply(m).rev = entry.rev
        /\ Apply(m).attached = entry.attached /\ Apply(m).awaiting = entry.awaiting
        /\ Apply(m).seq = m.seq /\ Apply(m).entries = es
    BY <1>1 DEF Entries
  <1> QED BY <1>2, <1>3, <1>4 DEF es

LEMMA ApplyConserves ==
  ASSUME Inv, Inv', NEW c \in Conns, line[c] # <<>>, entry # Nil, entry.conn = c, Pop(c),
         UNCHANGED <<sock, bridgeVars>>, Top(c).type = "event", entry.attached, ~entry.awaiting,
         InSequence(Top(c)), entry' = Apply(Top(c))
  PROVE  Conserves
  <1> DEFINE m == Top(c)
             n == At(entry)
             k == IF m.dialog = Nil THEN n + 1 ELSE n
  <1>1. /\ m \in Message /\ m = line[c][1] /\ line[c] \in Seq(Message) /\ entry \in Entries
        /\ m.type = "event" /\ m.seq = entry.seq + 1 /\ entry' = Apply(m)
    BY Facts DEF Top, InSequence
  <1>2. Reads
    BY PopReads
  <1>3. UNCHANGED <<log, dialog>> /\ (Wire => Wire')
    BY <1>2, ReadStep DEF Reads, bridgeVars
  <1>4. Stays
    <2>1. entry'.conn = entry.conn
      BY <1>1, Applied
    <2> QED BY <2>1 DEF Stays, Gone
  <1>5. ASSUME Wire, Aligned PROVE Aligned' /\ Held' /\ (Offered => Offered')
    <2> HIDE DEF m
    <2>1. /\ Shown(entry, log) /\ m.sess = entry.sess /\ m.rev = entry.rev
          /\ m.at = k
      <3>1. Shown(entry, log) /\ Follows(Cursor(entry), m)
        BY <1>1, <1>5 DEF Aligned
      <3> QED BY <1>1, <3>1 DEF Follows, Cursor
    <2>2. /\ entry'.conn = entry.conn /\ entry'.sess = entry.sess /\ entry'.rev = entry.rev
          /\ entry'.attached = entry.attached /\ entry'.awaiting = entry.awaiting
          /\ entry'.seq = m.seq
          /\ entry'.entries = IF m.dialog = Nil
                              THEN Newest(Append(entry.entries, <<m.sess, m.at>>))
                              ELSE entry.entries
          /\ entry'.pendingUi \subseteq entry.pendingUi \cup ({m.dialog} \ {Nil})
      <3>1. m \in Message /\ entry \in Entries /\ entry' = Apply(m)
        BY <1>1
      <3> QED BY ONLY Inv, <3>1, Applied
    <2>3. n \in Nat /\ entry.sess \in Sessions /\ entry.entries = Newest(Whole(entry.sess, n))
      BY <1>1, <2>1, AtTyped DEF Shown
    <2>4. k \in Nat /\ entry'.entries = Newest(Whole(entry.sess, k))
      <3>1. CASE m.dialog = Nil
        <4> HIDE DEF n
        <4>1. entry'.entries = Newest(Append(Newest(Whole(entry.sess, n)), <<entry.sess, n + 1>>))
          BY <2>1, <2>2, <2>3, <3>1
        <4>2. entry'.entries = Newest(Whole(entry.sess, n + 1))
          BY <2>3, <4>1, NewestGrows
        <4> QED BY <2>3, <3>1, <4>2
      <3>2. CASE m.dialog # Nil
        BY <2>2, <2>3, <3>2
      <3> QED BY <3>1, <3>2
    <2> HIDE DEF k, n
    <2>5. At(entry') = m.at
      BY <2>1, <2>3, <2>4, EndsAt
    <2>6. 1 \in 1..Len(line[c])
      BY <1>1
    <2>7. /\ m.at <= log[m.sess]
          /\ m.dialog # Nil => dialog[m.dialog] # Nil /\ dialog[m.dialog].sess = m.sess
      BY <1>1, <1>5, <2>6 DEF Wire, Truths, Truthful
    <2>8. Shown(entry', log)
      BY <2>1, <2>2, <2>3, <2>4, <2>5, <2>7 DEF Shown
    <2>9. LET x == Cursor(entry') IN
            x.sess = m.sess /\ x.rev = m.rev /\ x.seq = m.seq /\ x.at = m.at
      BY <2>1, <2>2, <2>5 DEF Cursor
    <2>10. Aligned'
      <3>1. CASE entry' # Nil
        BY <1>1, <1>2, <1>5, <2>2, <2>8, <2>9, <3>1, TakenAligned DEF m
      <3>2. CASE entry' = Nil
        BY <3>2 DEF Aligned
      <3> QED BY <3>1, <3>2
    <2>11. Offered => Offered'
      BY <1>3, <2>1, <2>2, <2>7 DEF Offered
    <2> QED BY <1>3, <2>8, <2>10, <2>11 DEF Held
  <1> QED BY <1>3, <1>4, <1>5 DEF Conserves

\* The entry waits for a snapshot, or is not attached.
LEMMA WaitConserves ==
  ASSUME Inv, Inv', Reads, entry # Nil, entry \in Entries,
         \/ entry' = entry
         \/ entry' = [entry EXCEPT !.awaiting = TRUE]
         \/ entry' = [entry EXCEPT !.awaiting = TRUE, !.timer = TRUE],
         ~entry'.attached \/ entry'.awaiting, \A c \in Conns : Gone(c) => Gone(c)'
  PROVE  Conserves
  <1>1. /\ entry'.conn = entry.conn /\ entry'.sess = entry.sess /\ entry'.entries = entry.entries
        /\ entry'.attached = entry.attached /\ entry'.pendingUi = entry.pendingUi
    BY DEF Entries
  <1>2. UNCHANGED <<log, dialog>> /\ (Wire => Wire')
    BY ReadStep DEF Reads, bridgeVars
  <1>3. Aligned' /\ (Held => Held') /\ (Offered => Offered')
    BY <1>1, <1>2 DEF Aligned, Held, Offered, Shown, At
  <1>4. Stays
    BY <1>1 DEF Stays, Entries
  <1> QED BY <1>2, <1>3, <1>4 DEF Conserves

LEMMA EventConserves == ASSUME Inv, Inv', NEW c \in Conns, Event(c) PROVE Conserves
  <1>1. line[c] # <<>> /\ Top(c).type = "event" /\ UNCHANGED bridgeVars
    BY DEF Event, Others
  <1>2. CASE ~Current(c)
    <2>1. Spares(Current(c) /\ Gone(c))
      BY <1>1, <1>2, RejectSpares DEF Event
    <2> QED BY <1>2, <2>1 DEF Spares, Conserves
  <1>3. CASE Current(c)
    <2>1. entry # Nil /\ entry \in Entries /\ entry.conn = c /\ Pop(c) /\ UNCHANGED sock
      BY <1>3, Facts DEF Event, Current
    <2>2. Reads /\ \A x \in Conns : Gone(x) => Gone(x)'
      BY <1>1, <2>1, PopReads DEF Gone
    <2>3. CASE (~entry.attached \/ entry.awaiting) /\ entry' = entry
      BY <2>1, <2>2, <2>3, WaitConserves
    <2>4. CASE entry' = [entry EXCEPT !.awaiting = TRUE]
      <3>1. entry'.awaiting
        BY <2>1, <2>4 DEF Entries
      <3> QED BY <2>1, <2>2, <2>4, <3>1, WaitConserves
    <2>5. CASE /\ entry.attached /\ ~entry.awaiting /\ InSequence(Top(c))
               /\ entry' = Apply(Top(c))
      BY <1>1, <2>1, <2>5, ApplyConserves
    <2> QED BY <1>3, <2>3, <2>4, <2>5 DEF Event
  <1> QED BY <1>2, <1>3

LEMMA GoodbyeConserves == ASSUME Inv, Inv', NEW c \in Conns, Goodbye(c) PROVE Conserves
  <1>1. line[c] # <<>> /\ Pop(c) /\ UNCHANGED bridgeVars
    BY DEF Goodbye, Others
  <1>2. \A x \in Conns : /\ sock'[x] = "open" => sock[x] = "open"
                         /\ Gone(x) => Gone(x)'
    BY Facts DEF Goodbye, Gone
  <1>3. Reads /\ \A x \in Conns : x # c => line'[x] = line[x]
    BY <1>1, <1>2, PopReads
  <1>4. entry' = entry \/ entry' = Nil
    BY DEF Goodbye
  <1>5. entry' # Nil => entry.conn \in Conns /\ entry.conn # c
    BY Facts DEF Goodbye, Current
  <1> QED BY <1>2, <1>3, <1>4, <1>5, SameStep

LEMMA CloseConserves == ASSUME Inv, Inv', NEW c \in Conns, CloseEvent(c) PROVE Conserves
  <1>1. \A x \in Conns : /\ sock'[x] = "open" => sock[x] = "open"
                         /\ Gone(x) => Gone(x)'
    BY Facts DEF CloseEvent, Gone
  <1>2. Reads
    BY <1>1 DEF CloseEvent, Others, Reads
  <1>3. CASE entry' = entry \/ entry' = Nil
    <2>1. entry' # Nil => entry.conn \in Conns /\ line' = line
      BY <1>3, Facts DEF CloseEvent
    <2> QED BY <1>1, <1>2, <1>3, <2>1, SameStep
  <1>4. CASE Current(c) /\ entry' = [entry EXCEPT !.awaiting = TRUE, !.timer = TRUE]
    <2>1. entry # Nil /\ entry \in Entries
      BY <1>4, Facts DEF Current
    <2>2. entry'.awaiting
      BY <1>4, <2>1 DEF Entries
    <2> QED BY <1>1, <1>2, <1>4, <2>1, <2>2, WaitConserves
  <1> QED BY <1>3, <1>4 DEF CloseEvent

LEMMA WatchdogConserves == ASSUME Inv, Inv', NEW c \in Conns, Watchdog(c) PROVE Conserves
  <1>1. PICK n \in 0..Len(line[c]) : line' = [line EXCEPT ![c] = SubSeq(@, 1, n)]
    BY DEF Watchdog
  <1>2. \A x \in Conns : /\ x # c => sock'[x] = sock[x] /\ line'[x] = line[x]
                         /\ x = c => sock'[x] = "destroyed" /\ line'[x] = SubSeq(line[x], 1, n)
    BY <1>1, Facts DEF Watchdog
  <1>3. Reads
    <2>1. UNCHANGED bridgeVars
      BY DEF Watchdog
    <2> QED BY <1>2, <2>1 DEF Reads
  <1>4. entry' = entry /\ (entry # Nil => entry.conn \in Conns)
    BY Facts DEF Watchdog
  <1>5. \A x \in Conns : /\ Gone(x) => Gone(x)'
                         /\ \/ line'[x] = line[x]
                            \/ /\ sock'[x] # "open"
                               /\ \E i \in 0..Len(line[x]) : line'[x] = SubSeq(line[x], 1, i)
    BY <1>2 DEF Gone
  <1> QED BY <1>3, <1>4, <1>5, SameStep

LEMMA TimersConserve ==
  ASSUME Inv, Inv', GraceEnds \/ RetryResync \/ Restart \/ UNCHANGED vars
  PROVE  Conserves
  <1>1. CASE Restart
    <2>1. \A c \in Conns : sock'[c] # "open" /\ line'[c] = <<>>
      BY <1>1, Facts DEF Restart
    <2>2. Reads /\ entry' = Nil
      BY <1>1, <2>1 DEF Reads, Restart
    <2> QED BY <2>2, SameStep
  <1>2. CASE GraceEnds \/ RetryResync \/ UNCHANGED vars
    <2>1. UNCHANGED <<sock, line, bridgeVars>> /\ (entry' = entry \/ entry' = Nil)
      BY <1>2 DEF GraceEnds, RetryResync, vars, connVars, Others
    <2>2. Reads
      BY <2>1 DEF Reads
    <2>3. \A c \in Conns : Gone(c) => Gone(c)'
      BY <2>1 DEF Gone
    <2> QED BY <2>1, <2>2, <2>3, Facts, SameStep
  <1> QED BY <1>1, <1>2

-----------------------------------------------------------------------------
(* The invariants *)

\* Every step conserves the thread and what hangs on it, but for a refusal that
\* nobody hears of.
LEMMA StepConserves ==
  ASSUME Inv, Inv', [Next]_vars
  PROVE  Spares(\E c \in Conns : Unheard(c))
  <1>1. CASE Conserves
    BY <1>1 DEF Conserves, Spares
  <1>2. ASSUME NEW c \in Conns, Refuse(c) PROVE Spares(\E x \in Conns : Unheard(x))
    <2>1. Spares(Unheard(c))
      BY <1>2, RefuseSpares
    <2> QED BY <2>1 DEF Spares
  <1>3. ASSUME NEW c \in Conns, Handle(c), ~Refuse(c) PROVE Conserves
    BY <1>3, HelloConserves, SnapshotConserves, EventConserves, GoodbyeConserves DEF Handle
  <1>4. CASE UNCHANGED vars
    BY <1>1, <1>4, TimersConserve
  <1> QED
    BY <1>1, <1>2, <1>3, <1>4, ConnectConserves, PublishConserves, AnswerConserves,
       LeaveConserves, DialogConserves, CloseConserves, WatchdogConserves, TimersConserve
       DEF Next

LEMMA WireInit == Init => Wire /\ Aligned /\ Held /\ Offered
  <1> SUFFICES ASSUME Init PROVE Wire /\ Aligned /\ Held /\ Offered
    OBVIOUS
  <1>1. \A c \in Conns : Len(line[c]) = 0
    BY DEF Init
  <1>2. Threads /\ Truths
    BY <1>1 DEF Threads, Woven, Truths
  <1>3. ~Linked /\ Unanswered = {} /\ entry = Nil
    BY DEF Init, Linked, Unanswered
  <1> QED BY <1>2, <1>3 DEF Wire, Tied, Asking, Aligned, Held, Offered

LEMMA StreamInvInit == Init => StreamInv /\ HeardInv
  BY InvInit, WireInit DEF StreamInv, HeardInv, LiveAligned

LEMMA StreamInvStep == StreamInv /\ [Next]_vars => StreamInv'
  <1> SUFFICES ASSUME StreamInv, [Next]_vars PROVE StreamInv'
    OBVIOUS
  <1>1. Inv /\ Inv' /\ Wire /\ LiveAligned
    BY InvStep DEF StreamInv
  <1>2. /\ Wire' /\ Stays
        /\ Aligned /\ ~(\E c \in Conns : Unheard(c)) => Aligned'
    BY <1>1, StepConserves DEF Spares
  <1>3. ASSUME entry' # Nil, ~Gone(entry.conn)' PROVE Aligned'
    <2>1. CASE entry'.awaiting
      BY <2>1 DEF Aligned
    <2>2. CASE ~entry'.awaiting
      <3>1. entry # Nil /\ entry'.conn = entry.conn /\ ~Gone(entry.conn)
        BY <1>2, <1>3, <2>2 DEF Stays, Gone
      <3>2. ~(\E c \in Conns : Unheard(c))
        BY <3>1 DEF Unheard, Current
      <3> QED BY <1>1, <1>2, <3>1, <3>2 DEF LiveAligned
    <2> QED BY <2>1, <2>2
  <1> QED BY <1>1, <1>2, <1>3 DEF StreamInv, LiveAligned

LEMMA HeardInvStep ==
  HeardInv /\ [Next /\ \A c \in Conns : ~Unheard(c)]_vars => HeardInv'
  <1> SUFFICES ASSUME HeardInv, [Next /\ \A c \in Conns : ~Unheard(c)]_vars PROVE HeardInv'
    OBVIOUS
  <1>1. Inv /\ Inv' /\ Wire /\ Aligned /\ Held /\ Offered
    BY InvStep DEF HeardInv
  <1>2. CASE UNCHANGED vars
    BY <1>1, <1>2, TimersConserve DEF Conserves, HeardInv
  <1>3. CASE Next /\ \A c \in Conns : ~Unheard(c)
    BY <1>1, <1>3, StepConserves DEF Spares, HeardInv
  <1> QED BY <1>2, <1>3

-----------------------------------------------------------------------------
(* Theorems *)

\* An entry that has applied every event that the bridge numbered shows the newest
\* transcript entry, whatever was lost, refused or closed: nothing that left a gap
\* goes unnoticed (applyEvent asks for a resync, registry.ts:293-311).
THEOREM GapsAreNoticed == Spec => []UpToDate
  <1>1. StreamInv => UpToDate
    <2> SUFFICES ASSUME StreamInv, entry # Nil, entry.attached, ~entry.awaiting,
                        entry.conn = bridge.conn, line[entry.conn] = <<>>, Linked,
                        entry.seq = bridge.seq
                 PROVE  entry.entries = Newest(Whole(entry.sess, log[entry.sess]))
      BY DEF UpToDate, Whole
    <2>1. Aligned
      BY DEF StreamInv, LiveAligned, Linked, Gone
    <2>2. Reaches(Cursor(entry), bridge, log) /\ Shown(entry, log)
      BY <2>1 DEF Aligned
    <2>3. At(entry) = log[entry.sess]
      BY <2>2 DEF Reaches, Cursor
    <2> QED BY <2>2, <2>3 DEF Shown
  <1> QED BY StreamInvInit, StreamInvStep, <1>1, PTL DEF Spec

LEMMA HeardAlways == HeardSpec => []HeardInv
  BY StreamInvInit, HeardInvStep, PTL DEF HeardSpec

\* When nothing of its connection is refused unheard, the dialogs that an entry
\* offers are dialogs of the session it shows (applySnapshot drops the others).
THEOREM DialogsFollowTheSession == HeardSpec => []DialogsOfSession
  <1>1. HeardInv => DialogsOfSession
    BY DEF HeardInv, Offered, DialogsOfSession
  <1> QED BY HeardAlways, <1>1, PTL

\* When nothing of its connection is refused unheard, an entry never holds the
\* events of two sessions.
THEOREM SessionsStayApart == HeardSpec => []NeverMerged
  <1>1. HeardInv => NeverMerged
    <2> SUFFICES ASSUME HeardInv, entry # Nil, NEW i \in DOMAIN entry.entries
                 PROVE  entry.entries[i][1] = entry.sess
      BY DEF NeverMerged
    <2>1. entry.attached /\ Shown(entry, log)
      BY DEF HeardInv, Offered, Held
    <2>2. At(entry) \in Nat /\ entry.sess \in Sessions
      BY <2>1, AtTyped, Facts DEF HeardInv, Shown
    <2> DEFINE n == At(entry)
               t == Newest(Whole(entry.sess, n))
    <2> HIDE DEF n
    <2>3. t \in Seq(Sessions \X Nat) /\ \A j \in 1..Len(t) : t[j] = <<entry.sess, n - Len(t) + j>>
      BY <2>2, NewestWhole DEF n
    <2>4. entry.entries = t
      BY <2>1 DEF Shown, n
    <2> HIDE DEF t
    <2>5. i \in 1..Len(t)
      BY <2>3, <2>4
    <2>6. t[i] = <<entry.sess, n - Len(t) + i>>
      BY <2>3, <2>5
    <2> QED BY <2>4, <2>6
  <1> QED BY HeardAlways, <1>1, PTL

\* The transcript of an entry is a stretch of its session's log.
LEMMA ShownIsStretch ==
  ASSUME NEW l \in [Sessions -> Nat], NEW e \in Entries, Shown(e, l)
  PROVE  \E first \in 0..l[e.sess] : \E n \in 0..(l[e.sess] - first) :
            e.entries = Mirror!Stretch(e.sess, first, n)
  <1> DEFINE s == e.sess
             n == At(e)
             t == Newest(Whole(s, n))
             k == Len(t)
  <1>1. n \in Nat /\ s \in Sessions /\ n <= l[s] /\ e.entries = t /\ l[s] \in Nat
    BY AtTyped DEF Shown
  <1> HIDE DEF n, s
  <1>2. /\ t \in Seq(Sessions \X Nat) /\ Len(t) = IF n <= Window THEN n ELSE Window
        /\ \A i \in 1..Len(t) : t[i] = <<s, n - Len(t) + i>>
    BY <1>1, NewestWhole
  <1> HIDE DEF t
  <1>3. k \in Nat /\ n - k \in 0..l[s] /\ k \in 0..(l[s] - (n - k))
    BY <1>1, <1>2, Constants
  <1>4. t = [i \in 1..k |-> t[i]]
    BY <1>2
  <1> HIDE DEF k
  <1>5. Mirror!Stretch(s, n - k, k) = [i \in 1..k |-> <<s, (n - k) + i>>]
    BY DEF Mirror!Stretch
  <1>6. \A i \in 1..k : t[i] = <<s, (n - k) + i>>
    BY <1>2 DEF k
  <1>7. t = Mirror!Stretch(s, n - k, k)
    BY <1>4, <1>5, <1>6
  <1>8. \E first \in 0..l[s] : \E c \in 0..(l[s] - first) : t = Mirror!Stretch(s, first, c)
    BY <1>3, <1>7
  <1> QED BY <1>1, <1>8 DEF s

LEMMA LogSteps ==
  ASSUME [Next]_vars, ~UNCHANGED log
  PROVE  Publish
  <1>1. ~(UNCHANGED vars)
    BY DEF vars, bridgeVars
  <1>2. \A c \in Conns : ~Handle(c)
    BY DEF Handle, Refuse, Hello, Snapshot, Event, Goodbye, Others, bridgeVars
  <1>3. ~(Connect \/ AnswerResync \/ LoseResync \/ SwitchInPlace \/ Rebuild \/ Exit \/ Drop)
    BY DEF Connect, AnswerResync, LoseResync, SwitchInPlace, Rebuild, Exit, Drop, bridgeVars
  <1>4. \A d \in Dialogs : ~(OpenDialog(d) \/ CloseDialog(d))
    BY DEF OpenDialog, CloseDialog
  <1>5. \A c \in Conns : ~(CloseEvent(c) \/ Watchdog(c))
    BY DEF CloseEvent, Watchdog, Others, bridgeVars
  <1>6. ~(GraceEnds \/ RetryResync \/ Restart)
    BY DEF GraceEnds, RetryResync, Restart, Others, bridgeVars
  <1> QED BY <1>1, <1>2, <1>3, <1>4, <1>5, <1>6 DEF Next

\* When nothing of its connection is refused unheard, the transcript that the
\* registry shows is, step by step, a stretch of one session's log.
THEOREM EntryImplementsTheMirror == HeardSpec => MirrorsOneSession
  <1> DEFINE copy == IF entry = Nil \/ ~entry.attached THEN Nil
                     ELSE [sess |-> entry.sess, entries |-> entry.entries]
  <1>1. Init => Mirror!MirrorInit
    BY DEF Init, Mirror!MirrorInit
  <1>2. HeardInv /\ HeardInv' /\ [Next /\ \A c \in Conns : ~Unheard(c)]_vars
          => [Mirror!MirrorNext]_<<log, copy>>
    <2> SUFFICES ASSUME HeardInv, HeardInv', [Next]_vars PROVE Mirror!MirrorNext
      OBVIOUS
    <2>1. CASE ~UNCHANGED log
      <3>1. Publish
        BY <2>1, LogSteps
      <3>2. bridge.sess \in Sessions
        BY DEF HeardInv, Inv, Types, BridgeTypes, Bridges
      <3>3. Mirror!Grow(bridge.sess)
        BY <3>1 DEF Publish, Mirror!Grow
      <3> QED BY <3>2, <3>3 DEF Mirror!MirrorNext
    <2>2. CASE UNCHANGED log /\ copy' = Nil
      BY <2>2 DEF Mirror!Forget, Mirror!MirrorNext
    <2>3. CASE UNCHANGED log /\ copy' # Nil
      <3>1. entry' # Nil /\ entry'.attached
        BY <2>3
      <3>2. Inv' /\ Shown(entry', log')
        BY <3>1 DEF HeardInv, Held
      <3>3. entry' \in Entries
        BY <3>1, <3>2 DEF Inv, Types, EntryTypes
      <3>4. \E first \in 0..log[entry'.sess] : \E n \in 0..(log[entry'.sess] - first) :
               entry'.entries = Mirror!Stretch(entry'.sess, first, n)
        <4>1. log' = log /\ log' \in [Sessions -> Nat]
          BY <2>3, <3>2 DEF Inv, Types, BridgeTypes
        <4> QED BY <3>2, <3>3, <4>1, ShownIsStretch
      <3>5. Mirror!IsStretch([sess |-> entry'.sess, entries |-> entry'.entries])
        BY <3>4 DEF Mirror!IsStretch
      <3>6. copy' = [sess |-> entry'.sess, entries |-> entry'.entries]
        BY <3>1
      <3>7. Mirror!Show
        BY <2>3, <3>5, <3>6 DEF Mirror!Show
      <3> QED BY <3>7 DEF Mirror!MirrorNext
    <2> QED BY <2>1, <2>2, <2>3
  <1> QED BY HeardAlways, <1>1, <1>2, PTL DEF HeardSpec, MirrorsOneSession, Mirror!MirrorSpec
=============================================================================
