--------------------------- MODULE ReplayJournal ---------------------------
(***************************************************************************)
(* The durable journal of remote-input ids                                 *)
(* (src/backend/machine-input-replay.ts), shared by every dashboard        *)
(* process of one user through a lock file and an atomically replaced      *)
(* file.                                                                   *)
(*                                                                         *)
(* reserve() is synchronous, so that nothing of its own process runs       *)
(* between its system calls; a crash, a power loss, a disk error or another*)
(* process may come between any two of them, and each is therefore a step. *)
(* A disk error is anything that makes one of the checks or calls throw:   *)
(* wrong modes and owners, links, a full disk.                             *)
(***************************************************************************)
EXTENDS Naturals, FiniteSets

CONSTANTS
    Processes,    \* dashboard processes
    Inputs,       \* hashes of (client, request)
    MaxIds,       \* MAX, the capacity of the journal
    Nobody,       \* no lock file
    Missing       \* no journal file

ASSUME ProcessAssumption == Nobody \notin Processes
ASSUME MissingAssumption == \A s \in SUBSET Inputs : Missing # s
ASSUME CapacityAssumption == MaxIds \in Nat

VARIABLES
    lock,       \* whose lock file is there
    file,       \* the journal file as processes see it
    versions,   \* what the disk may hold after a power loss
    pc,         \* where each process is
    seen,       \* its set `seen'
    expected,   \* its text `expected'
    poisoned,
    target,     \* the id it is reserving
    taken       \* how often reserve() returned true for each id

files == <<lock, file, versions>>
memory == <<pc, seen, expected, poisoned, target>>
vars == <<files, memory, taken>>

Contents == {Missing} \cup SUBSET Inputs

\* Inside reserve(), before the new file is in place.
Preparing == {"checked", "written"}
\* openMachineInputReplay has returned and close() was not called.
Open == {"ready", "renamed"} \cup Preparing

TypeOK ==
    /\ lock \in Processes \cup {Nobody}
    /\ file \in Contents /\ versions \in SUBSET Contents
    /\ pc \in [Processes -> {"down", "locked"} \cup Open]
    /\ seen \in [Processes -> SUBSET Inputs]
    /\ expected \in [Processes -> Contents]
    /\ poisoned \in [Processes -> BOOLEAN]
    /\ target \in [Processes -> Inputs]
    /\ taken \in [Inputs -> Nat]

Ids(content) == IF content = Missing THEN {} ELSE content

\* The journal starts without a file and without a lock.
Init ==
    /\ lock = Nobody /\ file = Missing /\ versions = {Missing}
    /\ pc = [p \in Processes |-> "down"]
    /\ seen = [p \in Processes |-> {}]
    /\ expected = [p \in Processes |-> Missing]
    /\ poisoned = [p \in Processes |-> FALSE]
    /\ target \in [Processes -> Inputs]
    /\ taken = [i \in Inputs |-> 0]

-----------------------------------------------------------------------------
(* Opening and closing *)

\* Bug: the lock file is opened without O_EXCL.
BugOpenLock(p) ==
    /\ pc[p] = "down"
    /\ lock' = p
    /\ pc' = [pc EXCEPT ![p] = "locked"]
    /\ UNCHANGED <<file, versions, seen, expected, poisoned, target, taken>>

\* openSync(lock, O_CREAT | O_EXCL): fails while any lock file is there.
OpenLock(p) ==
    /\ pc[p] = "down" /\ lock = Nobody
    /\ lock' = p
    /\ pc' = [pc EXCEPT ![p] = "locked"]
    /\ UNCHANGED <<file, versions, seen, expected, poisoned, target, taken>>

\* The rest of openMachineInputReplay.
OpenRead(p) ==
    /\ pc[p] = "locked"
    /\ pc' = [pc EXCEPT ![p] = "ready"]
    /\ seen' = [seen EXCEPT ![p] = Ids(file)]
    /\ expected' = [expected EXCEPT ![p] = file]
    /\ poisoned' = [poisoned EXCEPT ![p] = FALSE]
    /\ UNCHANGED <<files, target, taken>>

\* It throws: remote control stays off, and the lock is given back unless that
\* fails as well.
OpenFails(p) ==
    /\ pc[p] = "locked"
    /\ pc' = [pc EXCEPT ![p] = "down"]
    /\ lock' \in {Nobody, lock}
    /\ UNCHANGED <<file, versions, seen, expected, poisoned, target, taken>>

\* close(): its own lock is removed, unless that fails.
Close(p) ==
    /\ pc[p] = "ready"
    /\ pc' = [pc EXCEPT ![p] = "down"]
    /\ (lock = p /\ lock' = Nobody) \/ UNCHANGED lock
    /\ UNCHANGED <<file, versions, seen, expected, poisoned, target, taken>>

-----------------------------------------------------------------------------
(* reserve *)

\* The lock is this process's and the file is the one it wrote or read.
Untouched(p) == lock = p /\ file = expected[p]

\* Bug: what is hashed is the process and not the request.
BugReserve(p, i) ==
    /\ pc[p] = "ready" /\ ~poisoned[p]
    /\ i \notin seen[p] /\ Cardinality(seen[p]) < MaxIds
    /\ Untouched(p)
    /\ pc' = [pc EXCEPT ![p] = "checked"]
    /\ target' = [target EXCEPT ![p] = p]
    /\ UNCHANGED <<files, seen, expected, poisoned, taken>>

\* An id that is new, while there is room; the first check of the files.
Reserve(p, i) ==
    /\ pc[p] = "ready" /\ ~poisoned[p]
    /\ i \notin seen[p] /\ Cardinality(seen[p]) < MaxIds
    /\ Untouched(p)
    /\ pc' = [pc EXCEPT ![p] = "checked"]
    /\ target' = [target EXCEPT ![p] = i]
    /\ UNCHANGED <<files, seen, expected, poisoned, taken>>

\* The temporary file is written and synced, and the journal checked again.
WriteTemp(p) ==
    /\ pc[p] = "checked"
    /\ file = expected[p]
    /\ pc' = [pc EXCEPT ![p] = "written"]
    /\ UNCHANGED <<files, seen, expected, poisoned, target, taken>>

\* renameSync(temp, path): visible at once, on the disk some time later.
Rename(p) ==
    /\ pc[p] = "written"
    /\ pc' = [pc EXCEPT ![p] = "renamed"]
    /\ file' = seen[p] \cup {target[p]}
    /\ versions' = versions \cup {file'}
    /\ UNCHANGED <<lock, seen, expected, poisoned, target, taken>>

\* Bug: the directory is not synced.
BugSyncDirectory(p) ==
    /\ pc[p] = "renamed"
    /\ pc' = [pc EXCEPT ![p] = "ready"]
    /\ seen' = [seen EXCEPT ![p] = @ \cup {target[p]}]
    /\ expected' = [expected EXCEPT ![p] = seen[p] \cup {target[p]}]
    /\ taken' = [taken EXCEPT ![target[p]] = @ + 1]
    /\ UNCHANGED <<files, poisoned, target>>

\* fsync of the directory; reserve() returns true.
SyncDirectory(p) ==
    /\ pc[p] = "renamed"
    /\ pc' = [pc EXCEPT ![p] = "ready"]
    /\ versions' = {file}
    /\ seen' = [seen EXCEPT ![p] = @ \cup {target[p]}]
    /\ expected' = [expected EXCEPT ![p] = seen[p] \cup {target[p]}]
    /\ taken' = [taken EXCEPT ![target[p]] = @ + 1]
    /\ UNCHANGED <<lock, file, poisoned, target>>

\* Bug: an error is forgotten.
BugReserveFails(p) ==
    /\ pc[p] \in Preparing \cup {"renamed"}
    /\ pc' = [pc EXCEPT ![p] = "ready"]
    /\ UNCHANGED <<files, seen, expected, poisoned, target, taken>>

\* Its catch clause: whatever had been done, no later input is reserved.
ReserveFails(p) ==
    /\ \/ pc[p] \in Preparing \cup {"renamed"}
       \/ /\ pc[p] = "ready" /\ ~poisoned[p]
          /\ seen[p] # Inputs /\ Cardinality(seen[p]) < MaxIds
    /\ pc' = [pc EXCEPT ![p] = "ready"]
    /\ poisoned' = [poisoned EXCEPT ![p] = TRUE]
    /\ UNCHANGED <<files, seen, expected, target, taken>>

-----------------------------------------------------------------------------
(* The outside world *)

\* The process dies and leaves its lock and what it has written.
Crash(p) ==
    /\ pc[p] # "down"
    /\ pc' = [pc EXCEPT ![p] = "down"]
    /\ UNCHANGED <<files, seen, expected, poisoned, target, taken>>

\* The machine stops: what was not synced may be there afterwards, or not.
PowerLoss ==
    /\ pc' = [p \in Processes |-> "down"]
    /\ \E v \in versions : file' = v /\ versions' = {v}
    /\ lock' \in {lock, Nobody}
    /\ UNCHANGED <<seen, expected, poisoned, target, taken>>

\* The user removes a crashed owner's lock, after checking that it is gone.
RemoveStaleLock ==
    /\ lock # Nobody /\ pc[lock] = "down"
    /\ lock' = Nobody
    /\ UNCHANGED <<file, versions, memory, taken>>

Step(p) ==
    \/ OpenLock(p) \/ OpenRead(p) \/ OpenFails(p) \/ Close(p)
    \/ \E i \in Inputs : Reserve(p, i)
    \/ WriteTemp(p) \/ Rename(p) \/ SyncDirectory(p) \/ ReserveFails(p)
    \/ Crash(p)

Next == PowerLoss \/ RemoveStaleLock \/ (\E p \in Processes : Step(p))

Spec == Init /\ [][Next]_vars

-----------------------------------------------------------------------------
(* Properties *)

\* reserve() returns true at most once for an id, in whichever processes and
\* after whatever crashes: the journal implements the ledger of inputs.
Ledger == INSTANCE InputLedger WITH Inputs <- Inputs, taken <- taken
ReservesOnce == Ledger!LedgerSpec

\* An id that reserve() accepted is in the journal whatever a power loss leaves
\* of it: the input may be sent because it cannot be accepted again.
AcceptedIsDurable ==
    \A i \in Inputs : taken[i] > 0 => \A v \in versions : i \in Ids(v)

\* The files are never found changed by a process that may still reserve: the
\* checks around the rename only guard against other programs.
NeverFoundChanged ==
    \A p \in Processes :
        pc[p] \in {"ready"} \cup Preparing /\ ~poisoned[p] => Untouched(p)
=============================================================================
