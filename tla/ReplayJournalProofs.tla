------------------------ MODULE ReplayJournalProofs ------------------------
(***************************************************************************)
(* Proofs about ReplayJournal, for any number of processes and ids.        *)
(***************************************************************************)
EXTENDS ReplayJournal, TLAPS

\* The lock file keeps all processes but one out.
LockHeld == \A p \in Processes : pc[p] # "down" => lock = p

\* What a process that may still reserve remembers is what the file holds.
MemoryMatches ==
    \A p \in Processes :
        /\ pc[p] \in {"ready"} \cup Preparing /\ ~poisoned[p]
              => expected[p] = file /\ seen[p] = Ids(file)
        /\ pc[p] = "renamed" => file = seen[p] \cup {target[p]}

\* The id being reserved is new.
TargetIsNew ==
    \A p \in Processes :
        pc[p] \in Preparing \cup {"renamed"} => ~poisoned[p] /\ taken[target[p]] = 0

Inv ==
    /\ TypeOK /\ LockHeld /\ file \in versions
    /\ MemoryMatches /\ TargetIsNew /\ AcceptedIsDurable

LEMMA InvInit == Init => Inv
  <1> SUFFICES ASSUME Init PROVE Inv
    OBVIOUS
  <1>1. poisoned \in [Processes -> BOOLEAN]
    BY Zenon DEF Init
  <1> QED BY <1>1 DEF Init, Inv, TypeOK, LockHeld, MemoryMatches, TargetIsNew, AcceptedIsDurable,
          Contents, Open, Preparing

\* The processes that are not taking the step: they are down, for the one that
\* takes it holds the lock.
LEMMA OthersDown ==
    ASSUME Inv, NEW p \in Processes, pc[p] # "down"
    PROVE  \A q \in Processes \ {p} : pc[q] = "down"
  BY DEF Inv, LockHeld

LEMMA InvStep == Inv /\ [Next]_vars => Inv'
  <1> SUFFICES ASSUME Inv, [Next]_vars PROVE Inv'
    OBVIOUS
  <1> USE ProcessAssumption, MissingAssumption
  <1>1. ASSUME NEW p \in Processes, OpenLock(p) PROVE Inv'
    BY <1>1 DEF OpenLock, Inv, TypeOK, LockHeld, MemoryMatches, TargetIsNew, AcceptedIsDurable,
       Contents, Open, Preparing, Untouched
  <1>2. ASSUME NEW p \in Processes, OpenRead(p) PROVE Inv'
    BY <1>2, OthersDown DEF OpenRead, Inv, TypeOK, LockHeld, MemoryMatches, TargetIsNew,
       AcceptedIsDurable, Contents, Open, Preparing, Ids, files
  <1>3. ASSUME NEW p \in Processes, OpenFails(p) PROVE Inv'
    BY <1>3, OthersDown DEF OpenFails, Inv, TypeOK, LockHeld, MemoryMatches, TargetIsNew,
       AcceptedIsDurable, Contents, Open, Preparing
  <1>4. ASSUME NEW p \in Processes, Close(p) PROVE Inv'
    BY <1>4, OthersDown DEF Close, Inv, TypeOK, LockHeld, MemoryMatches, TargetIsNew,
       AcceptedIsDurable, Contents, Open, Preparing
  <1>5. ASSUME NEW p \in Processes, NEW i \in Inputs, Reserve(p, i) PROVE Inv'
    <2>1. taken[i] = 0
      BY <1>5 DEF Reserve, Inv, TypeOK, MemoryMatches, AcceptedIsDurable
    <2> QED BY <1>5, <2>1, OthersDown DEF Reserve, Inv, TypeOK, LockHeld, MemoryMatches,
            TargetIsNew, AcceptedIsDurable, Contents, Open, Preparing, files
  <1>6. ASSUME NEW p \in Processes, WriteTemp(p) PROVE Inv'
    BY <1>6, OthersDown DEF WriteTemp, Inv, TypeOK, LockHeld, MemoryMatches, TargetIsNew,
       AcceptedIsDurable, Contents, Open, Preparing, files
  <1>7. ASSUME NEW p \in Processes, Rename(p) PROVE Inv'
    <2>1. file' \in SUBSET Inputs /\ Ids(file') = seen[p] \cup {target[p]}
      BY <1>7 DEF Rename, Inv, TypeOK, Ids
    <2>2. seen[p] = Ids(file)
      BY <1>7 DEF Rename, Inv, MemoryMatches, TargetIsNew, Preparing
    <2>3. AcceptedIsDurable'
      <3>1. \A i \in Inputs : taken[i] > 0 => i \in Ids(file)
        BY DEF Inv, AcceptedIsDurable
      <3>2. versions' = versions \cup {file'} /\ taken' = taken
        BY <1>7 DEF Rename
      <3>3. \A v \in versions' : v \in versions \/ v = file'
        BY <3>2
      <3> SUFFICES ASSUME NEW i \in Inputs, taken[i] > 0, NEW v \in versions'
                   PROVE  i \in Ids(v)
        BY <3>2 DEF AcceptedIsDurable, Ids
      <3>4. CASE v \in versions
        BY <3>4 DEF Inv, AcceptedIsDurable
      <3>5. CASE v = file'
        BY <2>1, <2>2, <3>1, <3>5
      <3> QED BY <3>3, <3>4, <3>5
    <2> QED BY <1>7, <2>1, <2>3, OthersDown DEF Rename, Inv, TypeOK, LockHeld, MemoryMatches,
            TargetIsNew, Contents, Open, Preparing
  <1>8. ASSUME NEW p \in Processes, SyncDirectory(p) PROVE Inv'
    <2>1. file = seen[p] \cup {target[p]} /\ file \in SUBSET Inputs /\ target[p] \in Inputs
      BY <1>8 DEF SyncDirectory, Inv, TypeOK, MemoryMatches
    <2>2. Ids(file) = file
      BY <2>1 DEF Ids
    <2>3. AcceptedIsDurable'
      <3> SUFFICES ASSUME NEW i \in Inputs, taken'[i] > 0
                   PROVE  i \in Ids(file)
        BY <1>8 DEF SyncDirectory, AcceptedIsDurable, Ids
      <3>1. CASE i = target[p]
        BY <2>1, <2>2, <3>1
      <3>2. CASE i # target[p]
        BY <1>8, <3>2 DEF SyncDirectory, Inv, TypeOK, AcceptedIsDurable
      <3> QED BY <3>1, <3>2
    <2>4. TypeOK'
      BY <1>8, <2>1 DEF SyncDirectory, Inv, TypeOK, Contents, Open
    <2>5. MemoryMatches'
      BY <1>8, <2>1, <2>2, OthersDown DEF SyncDirectory, Inv, TypeOK, MemoryMatches, Preparing,
         Ids
    <2> QED BY <1>8, <2>3, <2>4, <2>5, OthersDown DEF SyncDirectory, Inv, TypeOK, LockHeld,
            TargetIsNew, Preparing
  <1>9. ASSUME NEW p \in Processes, ReserveFails(p) PROVE Inv'
    BY <1>9, OthersDown DEF ReserveFails, Inv, TypeOK, LockHeld, MemoryMatches, TargetIsNew,
       AcceptedIsDurable, Contents, Open, Preparing, files
  <1>10. ASSUME NEW p \in Processes, Crash(p) PROVE Inv'
    BY <1>10, OthersDown DEF Crash, Inv, TypeOK, LockHeld, MemoryMatches, TargetIsNew,
       AcceptedIsDurable, Contents, Open, Preparing, files
  <1>11. CASE PowerLoss
    BY <1>11 DEF PowerLoss, Inv, TypeOK, LockHeld, MemoryMatches, TargetIsNew,
       AcceptedIsDurable, Contents, Open, Preparing
  <1>12. CASE RemoveStaleLock
    BY <1>12 DEF RemoveStaleLock, Inv, TypeOK, LockHeld, MemoryMatches, TargetIsNew,
       AcceptedIsDurable, Contents, Open, Preparing, memory
  <1>13. CASE UNCHANGED vars
    BY <1>13 DEF vars, files, memory, Inv, TypeOK, LockHeld, MemoryMatches, TargetIsNew,
       AcceptedIsDurable
  <1> QED
    BY <1>1, <1>2, <1>3, <1>4, <1>5, <1>6, <1>7, <1>8, <1>9, <1>10, <1>11, <1>12, <1>13
       DEF Next, Step

\* Every variable of the journal keeps its type.
THEOREM JournalTypes == Spec => []TypeOK
  <1>1. Inv => TypeOK
    BY DEF Inv
  <1> QED BY InvInit, InvStep, <1>1, PTL DEF Spec

\* What reserve() accepted survives every crash and power loss.
THEOREM AcceptedSurvives == Spec => []AcceptedIsDurable
  <1>1. Inv => AcceptedIsDurable
    BY DEF Inv
  <1> QED BY InvInit, InvStep, <1>1, PTL DEF Spec

\* Only programs other than the dashboard can make the checks in reserve() fail.
THEOREM JournalUntouched == Spec => []NeverFoundChanged
  <1>1. Inv => NeverFoundChanged
    BY DEF Inv, NeverFoundChanged, LockHeld, MemoryMatches, Untouched, Preparing
  <1> QED BY InvInit, InvStep, <1>1, PTL DEF Spec

\* reserve() accepts an id at most once, in all processes and over all crashes.
THEOREM JournalIsLedger == Spec => ReservesOnce
  <1>1. Init => Ledger!LedgerInit
    BY DEF Init, Ledger!LedgerInit
  <1>2. Inv /\ [Next]_vars => [Ledger!LedgerNext]_taken
    <2> SUFFICES ASSUME Inv, [Next]_vars PROVE [Ledger!LedgerNext]_taken
      OBVIOUS
    <2>1. ASSUME NEW p \in Processes, SyncDirectory(p) PROVE Ledger!LedgerNext
      <3>1. target[p] \in Inputs /\ taken[target[p]] = 0
        BY <2>1 DEF SyncDirectory, Inv, TypeOK, TargetIsNew
      <3>2. Ledger!Take(target[p])
        BY <2>1, <3>1 DEF SyncDirectory, Ledger!Take
      <3> QED BY <3>1, <3>2 DEF Ledger!LedgerNext
    <2>2. ASSUME ~(\E p \in Processes : SyncDirectory(p)) PROVE taken' = taken
      BY <2>2 DEF Next, Step, OpenLock, OpenRead, OpenFails, Close, Reserve, WriteTemp, Rename,
         ReserveFails, Crash, PowerLoss, RemoveStaleLock, vars
    <2> QED BY <2>1, <2>2
  <1> QED BY InvInit, InvStep, <1>1, <1>2, PTL DEF Spec, ReservesOnce, Ledger!LedgerSpec
=============================================================================
