--------------------------- MODULE SidebarStores ---------------------------
(***************************************************************************)
(* The three stores behind the sidebar of live sessions: the manual order  *)
(* (src/backend/live-sessions/order.ts), the task groups (groups.ts) and   *)
(* the tags, pins and looks (meta.ts).  Each keeps a content in memory and *)
(* in one JSON file.  A behaviour is that of one of them, `kind'.          *)
(*                                                                         *)
(* start() marks the store loaded and only then reads the file, so that a  *)
(* call that comes during the read works on what is there.  Every call     *)
(* changes the memory at once, takes down the whole new content, and       *)
(* chains its write on writeQueue.                                         *)
(*                                                                         *)
(* A content is what normalising leaves of it, which reading it back from  *)
(* the file does not change.  Names and dates of groups are left out, the  *)
(* sections of the sidebar are one per group, and an entry of meta.ts is   *)
(* the number of the call that made it.                                    *)
(***************************************************************************)
EXTENDS Naturals, Sequences, SequencesExt

CONSTANTS
    Kinds,        \* a subset of {"order", "groups", "meta"}
    Sessions,     \* session ids
    Groups,       \* ids of groups
    MaxOrder,     \* MAX_ORDER_ENTRIES
    MaxCalls,     \* bound on the calls that change the store
    MaxFaults,    \* bound on failed reads and writes and restarts
    Nil

ASSUME KindsAreStores == Kinds \subseteq {"order", "groups", "meta"}
ASSUME StoreBounds == MaxOrder \in Nat /\ MaxCalls \in Nat /\ MaxFaults \in Nat

VARIABLES
    kind,     \* which store this is
    mem,      \* its content in memory
    load,     \* "reading", "read" (readFile has ended, start() not gone on), "loaded"
    got,      \* what readFile has returned
    calls,    \* the calls that changed the store, in their order
    broken,   \* writeQueue is a rejected promise
    file,     \* the file: its content and the number of the call that wrote it
    astray,   \* history: something came that the store does not repair
    shaken,   \* history: the calls that were pending when one before them failed
    faults

memVars == <<mem, load, got>>
writeVars == <<calls, broken, file>>
history == <<astray, shaken>>
vars == <<kind, memVars, writeVars, history, faults>>

----------------------------------------------------------------------------
(* The contents of the stores. *)

\* Lists without repetition, as normalizeOrder leaves them.
Lists(S) == {l \in BoundedSeq(S, MaxOrder) : IsInjective(l)}

Empty(k) ==
    CASE k = "order" -> [order |-> <<>>, sections |-> <<>>]
      [] k = "groups" -> [g \in Groups |-> Nil]
      [] k = "meta" -> [s \in Sessions |-> Nil]

\* What earlier runs of the dashboard may have left: nothing, or something
\* about one session.
Earlier(k) ==
    {Empty(k)} \cup
    CASE k = "order" -> {[Empty(k) EXCEPT !.order = <<s>>] : s \in Sessions}
      [] k = "groups" -> {[Empty(k) EXCEPT ![g] = <<s>>] : g \in Groups, s \in Sessions}
      [] k = "meta" -> {[Empty(k) EXCEPT ![s] = 0] : s \in Sessions}

\* The groups that exist.
Present == {g \in Groups : mem[g] # Nil}

Without(list, s) == SelectSeq(list, LAMBDA x : x # s)

\* The list with `to' in the place of `from', or without `from' if it has `to'.
Replaced(list, from, to) ==
    IF Contains(list, to) THEN Without(list, from)
    ELSE [i \in DOMAIN list |-> IF list[i] = from THEN to ELSE list[i]]

\* The order keeps the first place of the two.
Moved(list, from, to) ==
    FoldLeft(LAMBDA done, s :
                 LET id == IF s = from THEN to ELSE s
                 IN IF Contains(done, id) THEN done ELSE Append(done, id),
             <<>>, list)

----------------------------------------------------------------------------
(* The calls and their writes. *)

Pending == {c \in DOMAIN calls : calls[c].answer = "pending"}

\* The write that is under way: each waits for the one before it.
BugFirst(c) == c \in Pending
First(c) == c \in Pending /\ \A d \in Pending : c <= d

Settle(C, answer) ==
    [c \in DOMAIN calls |-> IF c \in C THEN [calls[c] EXCEPT !.answer = answer]
                            ELSE calls[c]]

Fault == faults < MaxFaults /\ faults' = faults + 1

\* A call changes the memory and chains its write; on a rejected writeQueue it
\* is rejected, and the change stays in memory.
Call(entry, content) ==
    /\ Len(calls) < MaxCalls
    /\ mem' = content
    /\ calls' = Append(calls,
                       [entry |-> entry,
                        previous |-> IF entry = Nil THEN Nil ELSE mem[entry],
                        content |-> content,
                        answer |-> IF broken THEN "failed" ELSE "pending"])
    /\ astray' = (astray \/ load # "loaded")
    /\ UNCHANGED <<kind, load, got, broken, file, shaken, faults>>

\* order.ts

Replace ==
    kind = "order" /\ \E l \in Lists(Sessions) : Call(Nil, [mem EXCEPT !.order = l])

ReplaceSections ==
    kind = "order" /\ \E l \in Lists(Groups) : Call(Nil, [mem EXCEPT !.sections = l])

RekeyOrder ==
    /\ kind = "order"
    /\ \E from, to \in Sessions :
          /\ from # to /\ Contains(mem.order, from)
          /\ Call(Nil, [mem EXCEPT !.order = Moved(@, from, to)])

\* groups.ts

CreateGroup ==
    kind = "groups" /\ \E g \in Groups \ Present : Call(Nil, [mem EXCEPT ![g] = <<>>])

RenameGroup == kind = "groups" /\ Present # {} /\ Call(Nil, mem)

RemoveGroup ==
    kind = "groups" /\ \E g \in Present : Call(Nil, [mem EXCEPT ![g] = Nil])

MergeGroups ==
    /\ kind = "groups"
    /\ \E g, target \in Present :
          /\ g # target
          /\ Call(Nil, [mem EXCEPT ![g] = Nil,
                          ![target] = @ \o SelectSeq(mem[g], LAMBDA s : ~Contains(mem[target], s))])

AddMember ==
    /\ kind = "groups"
    /\ \E g \in Present, s \in Sessions :
          Call(Nil, [h \in Groups |->
                       IF h \notin Present THEN Nil
                       ELSE IF h # g THEN Without(mem[h], s)
                       ELSE IF Contains(mem[g], s) THEN mem[g] ELSE Append(mem[g], s)])

RemoveMember ==
    /\ kind = "groups"
    /\ \E g \in Present, s \in Sessions : Call(Nil, [mem EXCEPT ![g] = Without(@, s)])

RekeyGroups ==
    /\ kind = "groups"
    /\ \E from, to \in Sessions :
          LET touched == {g \in Present : Contains(mem[g], from)}
          IN /\ from # to /\ touched # {}
             /\ Call(Nil, [g \in Groups |-> IF g \in touched THEN Replaced(mem[g], from, to)
                                            ELSE mem[g]])

\* meta.ts

\* An update makes an entry, or clears it when nothing is left of it.
Update ==
    /\ kind = "meta"
    /\ \E s \in Sessions, e \in {Len(calls) + 1, Nil} : Call(s, [mem EXCEPT ![s] = e])

RemoveEntry == kind = "meta" /\ \E s \in Sessions : Call(Nil, [mem EXCEPT ![s] = Nil])

RekeyMeta ==
    /\ kind = "meta"
    /\ \E from, to \in Sessions :
          /\ from # to /\ mem[from] # Nil
          /\ Call(Nil, [mem EXCEPT ![from] = Nil, ![to] = IF @ = Nil THEN mem[from] ELSE @])

----------------------------------------------------------------------------
(* The file. *)

Init ==
    /\ kind \in Kinds
    /\ mem = Empty(kind) /\ load = "reading" /\ got = Nil
    /\ calls = <<>> /\ broken = FALSE
    /\ \E content \in Earlier(kind) : file = [content |-> content, by |-> 0]
    /\ astray = FALSE /\ shaken = {} /\ faults = 0

Read ==
    /\ load = "reading"
    /\ load' = "read" /\ got' = file.content
    /\ UNCHANGED <<kind, mem, writeVars, history, faults>>

\* start() goes on and takes what was read, whatever is in memory by now.
Loaded ==
    /\ load = "read"
    /\ load' = "loaded" /\ mem' = got
    /\ UNCHANGED <<kind, got, writeVars, history, faults>>

\* The file cannot be read or parsed: the store is empty, but order.ts leaves
\* the sections as they are.
LoadFails ==
    /\ load = "reading" /\ Fault
    /\ load' = "loaded"
    /\ mem' = IF kind = "order" THEN [mem EXCEPT !.order = <<>>] ELSE Empty(kind)
    /\ astray' = TRUE
    /\ UNCHANGED <<kind, got, writeVars, shaken>>

\* The file that the write of call c leaves: the temporary file is renamed.
Written(c) == [content |-> calls[c].content, by |-> c]

Write ==
    /\ \E c \in Pending : First(c) /\ file' = Written(c) /\ calls' = Settle({c}, "ok")
    /\ UNCHANGED <<kind, memVars, broken, history, faults>>

\* In meta.ts the next write runs after a failed one; elsewhere the failure goes
\* on to every write that is chained behind it.
Rejected(c) == IF kind = "meta" THEN {c} ELSE Pending

\* A rejected update takes its entry back, unless it has been changed since.
\* Bug: also when it has been changed since.
BugUndone(c) == IF calls[c].entry = Nil THEN mem
                ELSE [mem EXCEPT ![calls[c].entry] = calls[c].previous]
Undone(c) ==
    LET s == calls[c].entry
    IN IF s # Nil /\ mem[s] = calls[c].content[s]
       THEN [mem EXCEPT ![s] = calls[c].previous] ELSE mem

\* The last call has left something else in the entry of c.
Superseded(c) == calls[Len(calls)].content[calls[c].entry] # calls[c].content[calls[c].entry]

\* What the failure of call c leaves in memory, or in a pending write, though it
\* is not saved: no update is taken back but one on its own, and one whose
\* entry a later call has changed need not be.  What an update takes its
\* entry back to is not saved itself if the call before it has failed meanwhile.
Unrepaired(c) ==
    \/ calls[c].entry = Nil
    \/ c \in shaken
    \/ Pending # {c} /\ ~Superseded(c)

WriteFails ==
    /\ Fault
    /\ \E c \in Pending :
          /\ First(c)
          /\ calls' = Settle(Rejected(c), "failed")
          /\ broken' = (kind # "meta")
          /\ mem' = IF kind = "meta" THEN Undone(c) ELSE mem
          /\ astray' = (astray \/ Unrepaired(c))
          /\ shaken' = shaken \cup (Pending \ {c})
    /\ UNCHANGED <<kind, load, got, file>>

\* The process ends and is started again.  A write that was under way may
\* have been done.
Restart ==
    /\ Fault
    /\ mem' = Empty(kind) /\ load' = "reading" /\ got' = Nil
    /\ calls' = Settle(Pending, "lost") /\ broken' = FALSE
    /\ \/ UNCHANGED file
       \/ \E c \in Pending : First(c) /\ file' = Written(c)
    /\ astray' = FALSE /\ shaken' = {}
    /\ UNCHANGED kind

Next ==
    \/ Replace \/ ReplaceSections \/ RekeyOrder
    \/ CreateGroup \/ RenameGroup \/ RemoveGroup \/ MergeGroups
    \/ AddMember \/ RemoveMember \/ RekeyGroups
    \/ Update \/ RemoveEntry \/ RekeyMeta
    \/ Read \/ Loaded \/ LoadFails \/ Write \/ WriteFails \/ Restart

Spec == Init /\ [][Next]_vars

----------------------------------------------------------------------------
(* Properties *)

\* What was answered is true, over overlapping calls, failures and restarts
\* (persist() of the three stores): a change that was answered is in the file,
\* or a later one is, and a change whose write was reported as failed is not
\* what the file was written for.
AnswersAreTrue ==
    /\ \A c \in DOMAIN calls : calls[c].answer = "ok" => c <= file.by
    /\ file.by # 0 => calls[file.by].answer \in {"ok", "lost"}

\* What the browser is shown is what is saved once nothing is being written
\* ("A failed write must not look saved", meta.ts:147): an update whose write fails is
\* taken back, but not what a later call has made of its entry.  Excepted are a
\* call before the file was loaded, a file that could not be loaded, and the
\* failures of Unrepaired.
ShownIsSaved ==
    load = "loaded" /\ Pending = {} /\ ~astray => mem = file.content
============================================================================
