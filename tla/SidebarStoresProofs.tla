------------------------ MODULE SidebarStoresProofs ------------------------
(***************************************************************************)
(* What is proved of SidebarStores for any sessions, groups, calls and     *)
(* faults: the answers are true, and what is shown is what is saved.       *)
(***************************************************************************)
EXTENDS SidebarStores, TLAPS

Answers == {"pending", "ok", "failed", "lost"}

\* A record of `calls'.
IsCall(r) ==
    /\ r = [entry |-> r.entry, previous |-> r.previous, content |-> r.content,
            answer |-> r.answer]
    /\ r.answer \in Answers

\* A map from sessions to entries, the content of meta.ts.
IsMap(m) == m = [s \in Sessions |-> m[s]]

Types ==
    /\ calls \in Seq({calls[c] : c \in DOMAIN calls})
    /\ \A c \in DOMAIN calls : IsCall(calls[c])
    /\ file = [content |-> file.content, by |-> file.by] /\ file.by \in Nat
    /\ load \in {"reading", "read", "loaded"}
    /\ broken \in BOOLEAN /\ astray \in BOOLEAN

\* Writes are done in the order of their calls, and none waits on a rejected
\* queue.
Queue ==
    /\ \A c, d \in DOMAIN calls :
          c < d /\ calls[c].answer = "pending" => calls[d].answer = "pending"
    /\ broken => Pending = {} /\ astray

\* The file is that of a call that was not refused, and of none before one that
\* was answered.
Saved ==
    /\ file.by # 0 => file.by \in DOMAIN calls /\ calls[file.by].answer \in {"ok", "lost"}
    /\ \A c \in DOMAIN calls : calls[c].answer = "ok" => c <= file.by

\* Only updates of meta.ts have an entry, and all its contents are maps.
Maps ==
    /\ \A c \in DOMAIN calls : calls[c].entry # Nil =>
          kind = "meta" /\ calls[c].entry \in Sessions
    /\ kind = "meta" =>
          /\ IsMap(mem) /\ IsMap(file.content)
          /\ load = "read" => IsMap(got)
          /\ \A c \in DOMAIN calls : IsMap(calls[c].content)

\* What the call c has found, and what the last call has left.
Before(c) == IF c - 1 \in Pending THEN calls[c - 1].content ELSE file.content
Latest == IF Pending = {} THEN file.content ELSE calls[Len(calls)].content

\* As long as nothing went astray, the memory is what the last call has left,
\* and taking back an update gives what it has found, unless a call before it failed.
InStep ==
    ~astray =>
        /\ load # "loaded" => Pending = {}
        /\ load = "read" => got = file.content
        /\ load = "loaded" => mem = Latest
        /\ \A c \in Pending \ shaken : calls[c].entry # Nil =>
              [calls[c].content EXCEPT ![calls[c].entry] = calls[c].previous] = Before(c)

Inv == Types /\ Queue /\ Saved /\ Maps /\ InStep

----------------------------------------------------------------------------

\* What Append makes of a sequence of anything.
LEMMA Appended ==
  ASSUME NEW s, NEW e, s \in Seq({s[c] : c \in DOMAIN s})
  PROVE  LET t == Append(s, e)
         IN /\ t \in Seq({t[c] : c \in DOMAIN t})
            /\ Len(s) \in Nat /\ DOMAIN s = 1..Len(s)
            /\ Len(t) = Len(s) + 1 /\ DOMAIN t = 1..(Len(s) + 1)
            /\ t[Len(s) + 1] = e
            /\ \A c \in 1..Len(s) : t[c] = s[c]
  <1> DEFINE S == {s[c] : c \in DOMAIN s} \cup {e}
             t == Append(s, e)
  <1>1. s \in Seq(S) /\ e \in S
    OBVIOUS
  <1>2. /\ t \in Seq(S) /\ Len(s) \in Nat /\ DOMAIN s = 1..Len(s)
        /\ Len(t) = Len(s) + 1 /\ DOMAIN t = 1..(Len(s) + 1)
        /\ t[Len(s) + 1] = e /\ \A c \in 1..Len(s) : t[c] = s[c]
    BY <1>1
  <1> HIDE DEF t
  <1>3. t \in Seq({t[c] : c \in DOMAIN t})
    BY <1>2
  <1> QED BY <1>2, <1>3 DEF t

\* Settling changes nothing but answers.
LEMMA Settled ==
  ASSUME Types, NEW C, NEW a \in Answers, calls' = Settle(C, a)
  PROVE  /\ calls' \in Seq({calls'[c] : c \in DOMAIN calls'})
         /\ DOMAIN calls = 1..Len(calls) /\ Len(calls) \in Nat
         /\ Len(calls') = Len(calls) /\ DOMAIN calls' = DOMAIN calls
         /\ \A c \in DOMAIN calls :
               /\ IsCall(calls'[c])
               /\ calls'[c].entry = calls[c].entry
               /\ calls'[c].previous = calls[c].previous
               /\ calls'[c].content = calls[c].content
               /\ calls'[c].answer = IF c \in C THEN a ELSE calls[c].answer
  <1>1. DOMAIN calls = 1..Len(calls) /\ Len(calls) \in Nat
    BY DEF Types
  <1>2. DOMAIN calls' = DOMAIN calls
    BY DEF Settle
  <1>3. \A c \in DOMAIN calls :
           calls'[c] = IF c \in C THEN [calls[c] EXCEPT !.answer = a] ELSE calls[c]
    BY DEF Settle
  <1>4. calls' \in Seq({calls'[c] : c \in DOMAIN calls'})
    <2>1. calls' = [c \in 1..Len(calls) |-> calls'[c]]
      BY <1>1, <1>2 DEF Settle
    <2> QED BY <1>1, <2>1
  <1>5. Len(calls') = Len(calls)
    BY <1>1, <1>2, <1>4
  <1>6. ASSUME NEW c \in DOMAIN calls
        PROVE  /\ IsCall(calls'[c])
               /\ calls'[c].entry = calls[c].entry
               /\ calls'[c].previous = calls[c].previous
               /\ calls'[c].content = calls[c].content
               /\ calls'[c].answer = IF c \in C THEN a ELSE calls[c].answer
    BY <1>3, <1>6 DEF Types, IsCall
  <1> QED BY <1>1, <1>2, <1>4, <1>5, <1>6

LEMMA InitInv == Init => Inv
  <1> SUFFICES ASSUME Init PROVE Inv
    OBVIOUS
  <1>1. DOMAIN calls = {} /\ Pending = {} /\ calls \in Seq({calls[c] : c \in DOMAIN calls})
    BY DEF Init, Pending
  <1>2. kind = "meta" => IsMap(mem) /\ IsMap(file.content)
    BY DEF Init, Empty, Earlier, IsMap
  <1>3. Types
    <2>1. file = [content |-> file.content, by |-> file.by] /\ file.by = 0
      BY DEF Init
    <2>2. load = "reading" /\ broken = FALSE /\ astray = FALSE
      BY DEF Init
    <2>3. \A c \in DOMAIN calls : IsCall(calls[c])
      BY <1>1
    <2>4. file.by \in Nat
      BY <2>1
    <2> QED BY <1>1, <2>1, <2>2, <2>3, <2>4, Zenon DEF Types
  <1>4. Queue /\ Saved
    BY <1>1 DEF Init, Queue, Saved
  <1>5. Maps
    BY <1>1, <1>2 DEF Init, Maps
  <1>6. InStep
    BY <1>1 DEF Init, InStep
  <1> QED BY <1>3, <1>4, <1>5, <1>6 DEF Inv

\* Every operation is a call on an entry of meta.ts or on no entry.
LEMMA CallStep ==
  ASSUME Inv, NEW entry, NEW content, Call(entry, content),
         \/ entry = Nil
         \/ /\ kind = "meta" /\ entry \in Sessions
            /\ content = [mem EXCEPT ![entry] = content[entry]],
         kind = "meta" => IsMap(content)
  PROVE  Inv'
  <1> DEFINE n == Len(calls) + 1
             new == [entry |-> entry, previous |-> IF entry = Nil THEN Nil ELSE mem[entry],
                     content |-> content, answer |-> IF broken THEN "failed" ELSE "pending"]
  <1>1. /\ calls' \in Seq({calls'[c] : c \in DOMAIN calls'})
        /\ Len(calls) \in Nat /\ DOMAIN calls = 1..Len(calls)
        /\ Len(calls') = n /\ DOMAIN calls' = 1..n
        /\ calls'[n] = new /\ \A c \in 1..Len(calls) : calls'[c] = calls[c]
    <2>1. calls \in Seq({calls[c] : c \in DOMAIN calls}) /\ calls' = Append(calls, new)
      BY DEF Inv, Types, Call
    <2> HIDE DEF new
    <2> QED BY <2>1, Appended
  <1>2. /\ UNCHANGED <<kind, load, got, broken, file, shaken, faults>>
        /\ mem' = content /\ astray' = (astray \/ load # "loaded")
    BY DEF Call
  <1>3. Pending' = IF broken THEN Pending ELSE Pending \cup {n}
    BY <1>1 DEF Pending
  <1>4. Types'
    BY <1>1, <1>2 DEF Inv, Types, IsCall, Answers
  <1>5. Queue'
    <2>1. broken => Pending' = {} /\ astray'
      BY <1>2, <1>3 DEF Inv, Queue
    <2>2. ASSUME NEW c \in DOMAIN calls', NEW d \in DOMAIN calls', c < d,
                 calls'[c].answer = "pending"
          PROVE  calls'[d].answer = "pending"
      <3>1. c \in DOMAIN calls /\ calls[c].answer = "pending"
        BY <1>1, <2>2
      <3>2. ~broken
        BY <3>1 DEF Inv, Queue, Pending
      <3> QED BY <1>1, <2>2, <3>1, <3>2 DEF Inv, Queue
    <2> QED BY <1>2, <2>1, <2>2 DEF Queue
  <1>6. Saved'
    <2>1. DOMAIN calls \subseteq DOMAIN calls'
      BY <1>1
    <2>2. file.by # 0 => calls'[file.by] = calls[file.by]
      BY <1>1 DEF Inv, Saved
    <2>3. new.answer # "ok"
      OBVIOUS
    <2>4. \A c \in DOMAIN calls' : c \in DOMAIN calls \/ c = n
      BY <1>1
    <2> HIDE DEF new
    <2> QED BY <1>1, <1>2, <2>1, <2>2, <2>3, <2>4 DEF Inv, Saved
  <1>7. Maps'
    BY <1>1, <1>2 DEF Inv, Maps
  <1>8. InStep'
    <2> SUFFICES ASSUME ~astray' PROVE InStep'
      BY DEF InStep
    <2>1. ~astray /\ load = "loaded" /\ ~broken /\ mem = Latest
      BY <1>2 DEF Inv, Queue, InStep, Types
    <2>2. Pending' = Pending \cup {n} /\ mem' = Latest'
      BY <1>1, <1>2, <1>3, <2>1 DEF Latest
    <2>3. ASSUME NEW k, k = n PROVE Before(k)' = mem
      <3>1. n - 1 = Len(calls)
        BY <1>1
      <3>2. CASE Pending = {}
        <4>1. k - 1 \notin Pending'
          <5>1. Pending' = {n}
            BY <2>2, <3>2
          <5>2. Len(calls) \in Nat /\ k = Len(calls) + 1
            BY <1>1, <2>3
          <5> QED BY <5>1, <5>2
        <4> QED BY <1>2, <2>1, <3>2, <4>1 DEF Before, Latest
      <3>3. CASE Pending # {}
        <4>1. Len(calls) \in Pending
          BY <1>1, <3>3 DEF Inv, Queue, Pending
        <4>2. k - 1 = Len(calls) /\ k - 1 \in Pending'
          BY <2>2, <2>3, <3>1, <4>1
        <4>3. calls'[Len(calls)] = calls[Len(calls)]
          BY <1>1, <4>1 DEF Pending
        <4> QED BY <2>1, <3>3, <4>2, <4>3 DEF Before, Latest
      <3> QED BY <3>2, <3>3
    <2>4. ASSUME NEW c \in Pending' \ shaken, calls'[c].entry # Nil
          PROVE  [calls'[c].content EXCEPT ![calls'[c].entry] = calls'[c].previous]
                   = Before(c)'
      <3>1. CASE c = n
        <4>1. kind = "meta" /\ entry \in Sessions /\ content = [mem EXCEPT ![entry] = content[entry]]
          BY <1>1, <2>4, <3>1
        <4>2. IsMap(mem)
          BY <4>1 DEF Inv, Maps
        <4>3. [content EXCEPT ![entry] = mem[entry]] = mem
          BY <4>1, <4>2 DEF IsMap
        <4>4. Before(c)' = mem
          BY <2>3, <3>1
        <4>5. calls'[c] = new /\ entry # Nil
          BY <1>1, <2>4, <3>1
        <4> QED BY <4>3, <4>4, <4>5
      <3>2. CASE c # n
        <4>1. c \in Pending /\ c \in 1..Len(calls)
          BY <1>1, <2>2, <3>2 DEF Pending
        <4>2. Before(c)' = Before(c)
          BY <1>1, <1>2, <2>2, <4>1 DEF Before, Pending
        <4> QED BY <1>1, <2>1, <2>4, <4>1, <4>2 DEF Inv, InStep
      <3> QED BY <3>1, <3>2
    <2> QED BY <1>2, <2>1, <2>2, <2>4 DEF InStep
  <1> QED BY <1>4, <1>5, <1>6, <1>7, <1>8 DEF Inv

LEMMA CallSteps ==
  ASSUME Inv,
         \/ Replace \/ ReplaceSections \/ RekeyOrder
         \/ CreateGroup \/ RenameGroup \/ RemoveGroup \/ MergeGroups
         \/ AddMember \/ RemoveMember \/ RekeyGroups
         \/ Update \/ RemoveEntry \/ RekeyMeta
  PROVE  Inv'
  <1>1. CASE Update
    <2>1. PICK s \in Sessions, e \in {Len(calls) + 1, Nil} :
             kind = "meta" /\ Call(s, [mem EXCEPT ![s] = e])
      BY <1>1 DEF Update
    <2> DEFINE content == [mem EXCEPT ![s] = e]
    <2>2. IsMap(mem)
      BY <2>1 DEF Inv, Maps
    <2>3. content = [mem EXCEPT ![s] = content[s]] /\ IsMap(content)
      BY <2>2 DEF IsMap
    <2> HIDE DEF content
    <2> QED BY <2>1, <2>3, CallStep DEF content
  <1>2. CASE RekeyMeta
    <2>1. PICK from \in Sessions, to \in Sessions :
             /\ kind = "meta"
             /\ Call(Nil, [mem EXCEPT ![from] = Nil, ![to] = IF @ = Nil THEN mem[from] ELSE @])
      BY <1>2 DEF RekeyMeta
    <2> DEFINE content == [mem EXCEPT ![from] = Nil, ![to] = IF @ = Nil THEN mem[from] ELSE @]
    <2>2. IsMap(mem)
      BY <2>1 DEF Inv, Maps
    <2>3. IsMap(content)
      BY <2>2 DEF IsMap
    <2> HIDE DEF content
    <2> QED BY <2>1, <2>3, CallStep DEF content
  <1>3. CASE RemoveEntry
    <2>1. PICK s \in Sessions : kind = "meta" /\ Call(Nil, [mem EXCEPT ![s] = Nil])
      BY <1>3 DEF RemoveEntry
    <2> DEFINE content == [mem EXCEPT ![s] = Nil]
    <2>2. IsMap(content)
      BY <2>1 DEF Inv, Maps, IsMap
    <2> HIDE DEF content
    <2> QED BY <2>1, <2>2, CallStep DEF content
  <1>4. CASE ~(Update \/ RemoveEntry \/ RekeyMeta)
    <2>1. kind # "meta" /\ \E content : Call(Nil, content)
      BY <1>4 DEF Replace, ReplaceSections, RekeyOrder, CreateGroup, RenameGroup, RemoveGroup, MergeGroups,
         AddMember, RemoveMember, RekeyGroups
    <2> QED BY <2>1, CallStep
  <1> QED BY <1>1, <1>2, <1>3, <1>4

LEMMA LoadSteps == Inv /\ (Read \/ Loaded \/ LoadFails) => Inv'
  <1> SUFFICES ASSUME Inv, Read \/ Loaded \/ LoadFails PROVE Inv'
    OBVIOUS
  <1>1. UNCHANGED <<kind, writeVars>> /\ Pending' = Pending
    BY DEF Read, Loaded, LoadFails, writeVars, Pending
  <1>2. Types'
    BY <1>1 DEF Inv, Types, Read, Loaded, LoadFails, writeVars, history
  <1>3. Queue' /\ Saved'
    BY <1>1 DEF Inv, Queue, Saved, Read, Loaded, LoadFails, writeVars, history
  <1>4. Maps'
    BY <1>1 DEF Inv, Maps, Read, Loaded, LoadFails, writeVars, Empty, IsMap
  <1>5. InStep'
    <2>1. Latest' = Latest /\ \A c : Before(c)' = Before(c)
      BY <1>1 DEF writeVars, Latest, Before
    <2> QED BY <1>1, <2>1 DEF Inv, InStep, Read, Loaded, LoadFails, writeVars, history, Latest
  <1> QED BY <1>2, <1>3, <1>4, <1>5 DEF Inv

LEMMA WriteStep == Inv /\ Write => Inv'
  <1> SUFFICES ASSUME Inv, Write PROVE Inv'
    OBVIOUS
  <1>1. PICK c \in Pending : First(c) /\ file' = Written(c) /\ calls' = Settle({c}, "ok")
    BY DEF Write
  <1>2. UNCHANGED <<kind, mem, load, got, broken, astray, shaken, faults>>
    BY DEF Write, memVars, history
  <1>3. c \in DOMAIN calls /\ calls[c].answer = "pending" /\ \A d \in Pending : c <= d
    BY <1>1 DEF Pending, First
  <1>4. /\ calls' \in Seq({calls'[d] : d \in DOMAIN calls'})
        /\ DOMAIN calls = 1..Len(calls) /\ Len(calls) \in Nat
        /\ Len(calls') = Len(calls) /\ DOMAIN calls' = DOMAIN calls
        /\ \A d \in DOMAIN calls :
              /\ IsCall(calls'[d])
              /\ calls'[d].entry = calls[d].entry
              /\ calls'[d].previous = calls[d].previous
              /\ calls'[d].content = calls[d].content
              /\ calls'[d].answer = IF d \in {c} THEN "ok" ELSE calls[d].answer
    BY <1>1, Settled DEF Inv, Answers
  <1>5. Pending' = Pending \ {c}
    BY <1>4 DEF Pending
  <1>6. file' = [content |-> calls[c].content, by |-> c]
    BY <1>1 DEF Written
  <1>7. Types'
    BY <1>2, <1>3, <1>4, <1>6 DEF Inv, Types
  <1>8. Queue'
    BY <1>2, <1>3, <1>4, <1>5 DEF Inv, Queue, Pending
  <1>9. Saved'
    <2>1. ASSUME NEW d \in DOMAIN calls, calls'[d].answer = "ok" PROVE d <= c
      <3>1. CASE d = c
        BY <1>4, <3>1
      <3>2. CASE d # c
        BY <1>3, <1>4, <2>1, <3>2 DEF Inv, Queue
      <3> QED BY <3>1, <3>2
    <2> QED BY <1>3, <1>4, <1>6, <2>1 DEF Saved
  <1>10. Maps'
    BY <1>2, <1>3, <1>4, <1>6 DEF Inv, Maps
  <1>11. InStep'
    <2> SUFFICES ASSUME ~astray PROVE InStep'
      BY <1>2 DEF InStep
    <2>1. load = "loaded" /\ mem = Latest
      BY <1>1 DEF Inv, InStep
    <2>2. Len(calls) \in Pending
      BY <1>3, <1>4 DEF Inv, Queue, Pending
    <2>3. mem' = Latest'
      <3>1. CASE Len(calls) = c
        <4>1. Pending' = {}
          BY <1>3, <1>4, <1>5, <3>1 DEF Pending
        <4> QED BY <1>2, <1>6, <2>1, <2>2, <3>1, <4>1 DEF Latest
      <3>2. CASE Len(calls) # c
        <4>1. Len(calls) \in Pending' /\ calls'[Len(calls)].content = calls[Len(calls)].content
          BY <1>4, <1>5, <2>2, <3>2 DEF Pending
        <4> QED BY <1>2, <1>4, <2>1, <2>2, <4>1 DEF Latest
      <3> QED BY <3>1, <3>2
    <2>4. ASSUME NEW d \in Pending' PROVE Before(d)' = Before(d)
      <3>1. d \in DOMAIN calls /\ d # c /\ c <= d
        BY <1>3, <1>5 DEF Pending
      <3>2. CASE d - 1 = c
        BY <1>1, <1>5, <1>6, <3>2 DEF Before
      <3>3. CASE d - 1 # c
        <4>1. d - 1 \in DOMAIN calls /\ d - 1 \in Pending
          BY <1>3, <1>4, <3>1, <3>3 DEF Inv, Queue, Pending
        <4> QED BY <1>4, <1>5, <3>3, <4>1 DEF Before
      <3> QED BY <3>2, <3>3
    <2>5. \A d \in Pending' : d \in Pending /\ d \in DOMAIN calls
      BY <1>5 DEF Pending
    <2> QED BY <1>2, <1>4, <2>1, <2>3, <2>4, <2>5 DEF Inv, InStep
  <1> QED BY <1>7, <1>8, <1>9, <1>10, <1>11 DEF Inv

LEMMA WriteFailsStep == Inv /\ WriteFails => Inv'
  <1> SUFFICES ASSUME Inv, WriteFails PROVE Inv'
    OBVIOUS
  <1>1. PICK c \in Pending :
           /\ First(c)
           /\ calls' = Settle(Rejected(c), "failed")
           /\ broken' = (kind # "meta")
           /\ mem' = IF kind = "meta" THEN Undone(c) ELSE mem
           /\ astray' = (astray \/ Unrepaired(c))
           /\ shaken' = shaken \cup (Pending \ {c})
    BY DEF WriteFails
  <1>2. UNCHANGED <<kind, load, got, file>>
    BY DEF WriteFails
  <1>3. c \in DOMAIN calls /\ calls[c].answer = "pending" /\ \A d \in Pending : c <= d
    BY <1>1 DEF Pending, First
  <1>4. /\ calls' \in Seq({calls'[d] : d \in DOMAIN calls'})
        /\ DOMAIN calls = 1..Len(calls) /\ Len(calls) \in Nat
        /\ Len(calls') = Len(calls) /\ DOMAIN calls' = DOMAIN calls
        /\ \A d \in DOMAIN calls :
              /\ IsCall(calls'[d])
              /\ calls'[d].entry = calls[d].entry
              /\ calls'[d].previous = calls[d].previous
              /\ calls'[d].content = calls[d].content
              /\ calls'[d].answer = IF d \in Rejected(c) THEN "failed" ELSE calls[d].answer
    BY <1>1, Settled DEF Inv, Answers
  <1>5. Pending' = Pending \ Rejected(c)
    BY <1>4 DEF Pending
  <1>6. Types'
    BY <1>1, <1>2, <1>4 DEF Inv, Types
  <1>7. Queue'
    <2>1. broken' => Pending' = {} /\ astray'
      BY <1>1, <1>3, <1>5 DEF Inv, Maps, Rejected, Unrepaired
    <2>2. ASSUME NEW d \in DOMAIN calls', NEW e \in DOMAIN calls', d < e,
                 calls'[d].answer = "pending"
          PROVE  calls'[e].answer = "pending"
      <3>1. d \in Pending /\ e \in Pending /\ c <= d
        BY <1>3, <1>4, <2>2 DEF Inv, Queue, Pending, Answers
      <3>2. d \notin Rejected(c) /\ e \notin Rejected(c)
        BY <1>3, <1>4, <2>2, <3>1 DEF Rejected
      <3> QED BY <1>4, <3>1, <3>2 DEF Pending
    <2> QED BY <2>1, <2>2 DEF Queue
  <1>8. Saved'
    <2>1. \A d \in DOMAIN calls : calls[d].answer \in {"ok", "lost"} => d \notin Rejected(c)
      BY <1>3 DEF Rejected, Pending
    <2> QED BY <1>2, <1>4, <2>1 DEF Inv, Saved
  <1>9. Maps'
    <2>1. kind = "meta" => IsMap(mem')
      BY <1>1 DEF Inv, Maps, Undone, IsMap
    <2> QED BY <1>2, <1>4, <2>1 DEF Inv, Maps
  <1>10. InStep'
    <2> SUFFICES ASSUME ~astray' PROVE InStep'
      BY DEF InStep
    <2>1. /\ ~astray /\ calls[c].entry # Nil /\ c \notin shaken
          /\ Pending = {c} \/ Superseded(c)
      BY <1>1 DEF Inv, Types, Unrepaired
    <2>2. kind = "meta" /\ calls[c].entry \in Sessions /\ load = "loaded" /\ mem = Latest
      BY <1>3, <2>1 DEF Inv, Maps, InStep
    <2>3. Len(calls) \in Pending /\ mem = calls[Len(calls)].content
      BY <1>3, <1>4, <2>2 DEF Inv, Queue, Pending, Latest
    <2>4. Pending' = Pending \ {c}
      BY <1>5, <2>2 DEF Rejected
    <2>5. CASE Pending = {c}
      <3>1. c = Len(calls) /\ mem = calls[c].content
        BY <2>3, <2>5
      <3>2. Before(c) = file.content
        BY <1>3, <1>4, <2>5 DEF Before
      <3>3. mem' = [mem EXCEPT ![calls[c].entry] = calls[c].previous]
        BY <1>1, <2>1, <2>2, <3>1 DEF Undone
      <3>4. mem' = file.content
        BY <2>1, <2>5, <3>1, <3>2, <3>3 DEF Inv, InStep
      <3> QED BY <1>2, <2>2, <2>4, <2>5, <3>4 DEF InStep, Latest
    <2>6. CASE Pending # {c}
      <3>1. Superseded(c)
        BY <2>1, <2>6
      <3>2. mem' = mem
        BY <1>1, <2>1, <2>2, <2>3, <3>1 DEF Undone, Superseded
      <3>3. Len(calls) # c
        BY <3>1 DEF Superseded
      <3>4. Latest' = Latest
        <4>1. Pending # {} /\ Pending' # {}
          BY <2>3, <2>4, <3>3
        <4>2. calls'[Len(calls')].content = calls[Len(calls)].content
          BY <1>4, <2>3 DEF Pending
        <4> QED BY <4>1, <4>2 DEF Latest
      <3>5. Pending' \ shaken' = {}
        BY <1>1, <2>4
      <3> QED BY <1>2, <2>2, <3>2, <3>4, <3>5 DEF InStep
    <2> QED BY <2>5, <2>6
  <1> QED BY <1>6, <1>7, <1>8, <1>9, <1>10 DEF Inv

LEMMA RestartStep == Inv /\ Restart => Inv'
  <1> SUFFICES ASSUME Inv, Restart PROVE Inv'
    OBVIOUS
  <1>1. /\ mem' = Empty(kind) /\ load' = "reading" /\ got' = Nil
        /\ calls' = Settle(Pending, "lost") /\ broken' = FALSE /\ astray' = FALSE
        /\ UNCHANGED kind
    BY DEF Restart
  <1>2. /\ calls' \in Seq({calls'[d] : d \in DOMAIN calls'})
        /\ DOMAIN calls = 1..Len(calls) /\ Len(calls) \in Nat
        /\ Len(calls') = Len(calls) /\ DOMAIN calls' = DOMAIN calls
        /\ \A d \in DOMAIN calls :
              /\ IsCall(calls'[d])
              /\ calls'[d].entry = calls[d].entry
              /\ calls'[d].previous = calls[d].previous
              /\ calls'[d].content = calls[d].content
              /\ calls'[d].answer = IF d \in Pending THEN "lost" ELSE calls[d].answer
    BY <1>1, Settled DEF Inv, Answers
  <1>3. Pending' = {}
    BY <1>2 DEF Pending
  <1>4. \/ file' = file
        \/ \E c \in DOMAIN calls :
              /\ calls[c].answer = "pending" /\ c \in Pending
              /\ file' = [content |-> calls[c].content, by |-> c]
              /\ \A d \in DOMAIN calls : calls[d].answer = "ok" => d <= c
    <2>1. CASE UNCHANGED file
      BY <2>1
    <2>2. ASSUME NEW c \in Pending, First(c), file' = Written(c)
          PROVE  /\ c \in DOMAIN calls
                 /\ calls[c].answer = "pending"
                 /\ file' = [content |-> calls[c].content, by |-> c]
                 /\ \A d \in DOMAIN calls : calls[d].answer = "ok" => d <= c
      BY <1>2, <2>2 DEF Inv, Queue, Pending, Written
    <2> QED BY <2>1, <2>2 DEF Restart
  <1>5. Types'
    <2>1. file' = [content |-> file'.content, by |-> file'.by] /\ file'.by \in Nat
      BY <1>2, <1>4 DEF Inv, Types
    <2> QED BY <1>1, <1>2, <2>1 DEF Types
  <1>6. Queue'
    BY <1>1, <1>2, <1>3 DEF Inv, Queue, Pending
  <1>7. Saved'
    <2>1. \A d \in DOMAIN calls :
             calls[d].answer \in {"ok", "lost"} => calls'[d].answer = calls[d].answer
      BY <1>2 DEF Pending
    <2>2. \A d \in DOMAIN calls : calls'[d].answer = "ok" => calls[d].answer = "ok"
      BY <1>2
    <2>3. CASE file' = file
      BY <1>2, <2>1, <2>2, <2>3 DEF Inv, Saved
    <2>4. ASSUME NEW c \in DOMAIN calls, c \in Pending,
                 file' = [content |-> calls[c].content, by |-> c],
                 \A d \in DOMAIN calls : calls[d].answer = "ok" => d <= c
          PROVE  Saved'
      BY <1>2, <2>2, <2>4 DEF Saved
    <2> QED BY <1>4, <2>3, <2>4
  <1>8. Maps'
    <2>1. kind = "meta" => IsMap(mem')
      BY <1>1 DEF Empty, IsMap
    <2> QED BY <1>1, <1>2, <1>4, <2>1 DEF Inv, Maps
  <1>9. InStep'
    BY <1>1, <1>3 DEF InStep
  <1> QED BY <1>5, <1>6, <1>7, <1>8, <1>9 DEF Inv

LEMMA StutterStep == Inv /\ UNCHANGED vars => Inv'
  <1> SUFFICES ASSUME Inv, UNCHANGED vars PROVE Inv'
    OBVIOUS
  <1>1. UNCHANGED <<kind, mem, load, got, calls, broken, file, astray, shaken, faults>>
    BY DEF vars, memVars, writeVars, history
  <1>2. Pending' = Pending /\ Latest' = Latest /\ \A c : Before(c)' = Before(c)
    BY <1>1 DEF Pending, Latest, Before
  <1>3. Types' /\ Queue' /\ Saved' /\ Maps'
    BY <1>1, <1>2 DEF Inv, Types, Queue, Saved, Maps
  <1>4. InStep'
    BY <1>1, <1>2 DEF Inv, InStep
  <1> QED BY <1>3, <1>4 DEF Inv

\* The invariant holds of every behaviour.
LEMMA Invariance == Spec => []Inv
  <1>1. Inv /\ [Next]_vars => Inv'
    BY CallSteps, LoadSteps, WriteStep, WriteFailsStep, RestartStep, StutterStep DEF Next
  <1> QED BY InitInv, <1>1, PTL DEF Spec

----------------------------------------------------------------------------

\* Whatever calls overlap, fail or are lost with the process: a change that was
\* answered is in the file or overwritten by a later one, and the file is never
\* that of a change reported as failed (persist() of the three stores).
THEOREM StoresAnswerTruly == Spec => []AnswersAreTrue
  <1>1. Inv => AnswersAreTrue
    BY DEF Inv, Saved, AnswersAreTrue
  <1> QED BY Invariance, <1>1, PTL

\* Unless something went astray, what the stores show when nothing is being
\* written is what they have saved: the rollback of an update() (meta.ts:147) takes
\* back what was not written, and nothing that a later call has changed.
THEOREM StoresShowSaved == Spec => []ShownIsSaved
  <1>1. Inv => ShownIsSaved
    BY DEF Inv, InStep, Latest, ShownIsSaved
  <1> QED BY Invariance, <1>1, PTL
============================================================================
