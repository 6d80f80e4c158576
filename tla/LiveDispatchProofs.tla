------------------------- MODULE LiveDispatchProofs -------------------------
(***************************************************************************)
(* Proofs about LiveDispatch, for every value of its constants.            *)
(***************************************************************************)
EXTENDS LiveDispatch, TLAPS

-----------------------------------------------------------------------------
(* Type correctness *)

\* The generation counts the reconnects and the session switches.
GenerationCounts == connects >= 1 /\ generation = (connects - 1) + switches

TypeInv == TypeOK /\ GenerationCounts

\* The variables that chaining commands changes keep their types.
LEMMA ChainTypes ==
    ASSUME TypeOK, NEW n \in 0..2, NEW i \in Info, Chain(n, i)
    PROVE  /\ issued' \in 0..MaxCommands
           /\ info' \in [Commands -> Info]
           /\ st' \in [Commands -> {"unused", "queued", "inflight"} \cup Settled]
           /\ tail' \in 0..MaxCommands
           /\ sentAt' = sentAt
  <1> USE BoundsAssumption
  <1>1. issued' \in 0..MaxCommands /\ tail' \in 0..MaxCommands
    BY DEF Chain, TypeOK
  <1>2. info' \in [Commands -> Info]
    <2> SUFFICES ASSUME NEW c \in (issued + 1)..(issued + n), c \in Commands
                 PROVE  [i EXCEPT !.after = IF c = issued + 1 THEN tail ELSE c - 1]
                            \in Info
      BY DEF Chain, TypeOK
    <2>1. (IF c = issued + 1 THEN tail ELSE c - 1) \in 0..MaxCommands
      BY DEF TypeOK, Commands
    <2> QED BY <2>1 DEF Info
  <1>3. st' \in [Commands -> {"unused", "queued", "inflight"} \cup Settled]
    BY DEF Chain, TypeOK
  <1> QED BY <1>1, <1>2, <1>3 DEF Chain

LEMMA TicketType ==
    ASSUME TypeOK, NEW k \in Kinds, NEW cl \in Clients \cup {Nil},
           NEW l \in 0..MaxCommands
    PROVE  Ticket(k, cl, l) \in Info
  BY BoundsAssumption DEF Ticket, Info, TypeOK

LEMMA DispatchTypes ==
    ASSUME TypeInv, NEW k \in Kinds, NEW cl \in Clients \cup {Nil},
           NEW l \in 0..MaxCommands, Dispatch(k, cl, l)
    PROVE  TypeInv'
  <1>1. Ticket(k, cl, l) \in Info
    BY TicketType DEF TypeInv
  <1>2. Chain(1, Ticket(k, cl, l)) /\ UNCHANGED <<connVars, leaseVars, op, bridgeVars>>
    BY DEF Dispatch
  <1> QED BY <1>1, <1>2, ChainTypes
          DEF TypeInv, TypeOK, GenerationCounts, connVars, leaseVars, bridgeVars

LEMMA RejectTypes ==
    ASSUME TypeOK, RejectPending
    PROVE  st' \in [Commands -> {"unused", "queued", "inflight"} \cup Settled]
  BY DEF TypeOK, RejectPending, Settled

LEMMA ClearTypes ==
    ASSUME ClearLease
    PROVE  /\ owner' \in Clients \cup {Nil} /\ claim' \in 0..MaxCommands
           /\ lapsed' \in BOOLEAN /\ leaseTimer' \in BOOLEAN
  <1>1. lapsed' \in BOOLEAN /\ leaseTimer' \in BOOLEAN
    BY Zenon DEF ClearLease
  <1> QED BY <1>1, BoundsAssumption DEF ClearLease

LEMMA TellTypes ==
    ASSUME TypeOK, NEW l \in 0..MaxCommands, Tell(l)
    PROVE  /\ owner' \in Clients \cup {Nil} /\ claim' \in 0..MaxCommands
           /\ lapsed' \in BOOLEAN /\ leaseTimer' \in BOOLEAN
  <1>1. CASE ClearLease
    BY <1>1, ClearTypes
  <1>2. CASE UNCHANGED leaseVars
    BY <1>2 DEF leaseVars, TypeOK
  <1>3. CASE claim' = l /\ lapsed' = FALSE /\ leaseTimer' = TRUE /\ UNCHANGED owner
    <2>1. lapsed' \in BOOLEAN /\ leaseTimer' \in BOOLEAN
      BY <1>3, Zenon
    <2> QED BY <1>3, <2>1 DEF TypeOK
  <1> QED BY <1>1, <1>2, <1>3 DEF Tell

LEMMA DetachTypes == TypeInv /\ DetachEffects => TypeInv'
  <1> SUFFICES ASSUME TypeInv, DetachEffects PROVE TypeInv'
    OBVIOUS
  <1>1. present' \in BOOLEAN /\ grace' \in BOOLEAN
    BY Zenon DEF DetachEffects
  <1> QED BY <1>1, RejectTypes, ClearTypes
          DEF DetachEffects, TypeInv, TypeOK, GenerationCounts, bridgeVars

LEMMA TypeInit == Init => TypeInv
  <1> SUFFICES ASSUME Init PROVE TypeInv
    OBVIOUS
  <1>1. /\ present \in BOOLEAN /\ attached \in BOOLEAN /\ awaitingResync \in BOOLEAN
        /\ grace \in BOOLEAN /\ lapsed \in BOOLEAN /\ leaseTimer \in BOOLEAN
    BY Zenon DEF Init
  <1>2. Blank \in Info
    BY BoundsAssumption DEF Blank, Info, Kinds
  <1> QED BY <1>1, <1>2, BoundsAssumption
     DEF Init, TypeInv, TypeOK, GenerationCounts, OpState, Settled

LEMMA TypeStep == TypeInv /\ [Next]_vars => TypeInv'
  <1> SUFFICES ASSUME TypeInv, [Next]_vars PROVE TypeInv'
    OBVIOUS
  <1> USE BoundsAssumption
  <1>1. CASE Reconnect
    <2>1. grace' \in BOOLEAN /\ awaitingResync' \in BOOLEAN
      BY <1>1, Zenon DEF Reconnect
    <2> QED BY <1>1, <2>1, RejectTypes DEF Reconnect, Bump, TypeInv, TypeOK,
            GenerationCounts, leaseVars, bridgeVars
  <1>2. CASE SocketFails
    BY <1>2 DEF SocketFails, TypeInv, TypeOK, GenerationCounts, chainVars, leaseVars,
       bridgeVars
  <1>3. CASE Disconnect
    <2>1. CASE DetachEffects
      BY <2>1, DetachTypes
    <2>2. CASE ~DetachEffects
      BY <1>3, <2>2, RejectTypes DEF Disconnect, TypeInv, TypeOK, GenerationCounts,
         leaseVars, bridgeVars
    <2> QED BY <2>1, <2>2
  <1>4. CASE GraceExpires \/ Goodbye
    BY <1>4, DetachTypes DEF GraceExpires, Goodbye
  <1>5. ASSUME NEW s \in Sessions, ApplySnapshot(s) PROVE TypeInv'
    <2>1. generation' \in 0..(MaxConnects + MaxSwitches) /\ GenerationCounts'
      BY <1>5 DEF ApplySnapshot, Bump, TypeInv, TypeOK, GenerationCounts
    <2>2. PICK n \in 0..2 :
            Chain(n, [Ticket("plain", Nil, 0) EXCEPT !.session = s,
                                                     !.gen = generation'])
      BY <1>5 DEF ApplySnapshot
    <2>3. [Ticket("plain", Nil, 0) EXCEPT !.session = s, !.gen = generation'] \in Info
      <3>1. Ticket("plain", Nil, 0) \in Info
        BY TicketType DEF TypeInv, Kinds
      <3> QED BY <2>1, <3>1 DEF Info
    <2>4. /\ attached' \in BOOLEAN /\ awaitingResync' \in BOOLEAN
          /\ lapsed' \in BOOLEAN /\ leaseTimer' \in BOOLEAN
      BY <1>5, Zenon DEF ApplySnapshot
    <2>5. /\ session' \in Sessions \cup {Nil} /\ switches' \in 0..MaxSwitches
          /\ owner' \in Clients \cup {Nil} /\ claim' \in 0..MaxCommands
      BY <1>5 DEF ApplySnapshot, TypeInv, TypeOK
    <2>6. UNCHANGED <<present, link, connects, grace, op, held, executed>>
      BY <1>5 DEF ApplySnapshot, bridgeVars
    <2> QED BY <2>1, <2>2, <2>3, <2>4, <2>5, <2>6, ChainTypes DEF TypeInv, TypeOK
  <1>6. CASE SequenceGap
    BY <1>6 DEF SequenceGap, TypeInv, TypeOK, GenerationCounts, chainVars, leaseVars,
       bridgeVars
  <1>7. ASSUME NEW c \in Commands, CommandResult(c) PROVE TypeInv'
    BY <1>7 DEF CommandResult, TypeInv, TypeOK, GenerationCounts, Settled, Commands,
       connVars, leaseVars
  <1>8. ASSUME NEW c \in Commands, BridgeGrants(c) PROVE TypeInv'
    <2>1. c \in 0..MaxCommands
      BY DEF Commands
    <2> QED BY <1>8, <2>1, TellTypes DEF BridgeGrants, TypeInv, TypeOK, GenerationCounts,
       Commands, connVars, chainVars, leaseVars
  <1>9. CASE BridgeLeaseEnds
    <2>1. 0 \in 0..MaxCommands
      OBVIOUS
    <2> QED BY <1>9, <2>1, TellTypes DEF BridgeLeaseEnds, TypeInv, TypeOK, GenerationCounts,
       connVars, chainVars, leaseVars
  <1>10. CASE BrowserCommand
    BY <1>10, DispatchTypes DEF BrowserCommand, Kinds
  <1>11. ASSUME NEW cl \in Clients,
                Claim(cl) \/ Renew(cl) \/ Release(cl)
         PROVE  TypeInv'
    <2>1. claim \in 0..MaxCommands /\ 0 \in 0..MaxCommands
      BY DEF TypeInv, TypeOK
    <2> QED BY <1>11, <2>1, DispatchTypes DEF Claim, Renew, Release, Kinds
  <1>12. ASSUME NEW cl \in Clients, ReleaseRefused(cl) PROVE TypeInv'
    BY <1>12, ClearTypes DEF ReleaseRefused, TypeInv, TypeOK, GenerationCounts,
       connVars, chainVars, bridgeVars
  <1>13. ASSUME NEW cl \in Clients, RemoteInput(cl) PROVE TypeInv'
    <2>1. Ticket("input", cl, claim) \in Info
      BY TicketType DEF TypeInv, TypeOK, Kinds
    <2> QED BY <1>13, <2>1, ChainTypes DEF RemoteInput, TypeInv, TypeOK,
            GenerationCounts, connVars, leaseVars, bridgeVars
  <1>14. ASSUME NEW o \in Operations, OpRequest(o) PROVE TypeInv'
    BY <1>14 DEF OpRequest, TypeInv, TypeOK, OpState, GenerationCounts, connVars,
       chainVars, leaseVars, bridgeVars
  <1>15. ASSUME NEW c \in Commands, Start(c) PROVE TypeInv'
    BY <1>15 DEF Start, TypeInv, TypeOK, Settled, GenerationCounts, connVars, leaseVars,
       bridgeVars
  <1>16. ASSUME NEW c \in Commands, Resume(c) PROVE TypeInv'
    <2>1. info[c].by \in Clients \cup {Nil} /\ c \in 0..MaxCommands
      BY DEF TypeInv, TypeOK, Info, Commands
    <2>2. st' \in [Commands -> {"unused", "queued", "inflight"} \cup Settled]
      BY <1>16 DEF Resume, TypeInv, TypeOK, Settled
    <2>3. /\ owner' \in Clients \cup {Nil} /\ claim' \in 0..MaxCommands
          /\ lapsed' \in BOOLEAN /\ leaseTimer' \in BOOLEAN
      <3>1. CASE ResumeClaim(c)
        <4>1. lapsed' \in BOOLEAN /\ leaseTimer' \in BOOLEAN
          BY <3>1, Zenon DEF ResumeClaim
        <4> QED BY <3>1, <4>1, <2>1 DEF ResumeClaim
      <3>2. CASE ResumeRenew
        <4>1. lapsed' \in BOOLEAN /\ leaseTimer' \in BOOLEAN
          BY <3>2, Zenon DEF ResumeRenew
        <4> QED BY <3>2, <4>1 DEF ResumeRenew, TypeInv, TypeOK
      <3>3. CASE ClearLease
        BY <3>3, ClearTypes
      <3>4. CASE UNCHANGED leaseVars
        BY <3>4 DEF leaseVars, TypeInv, TypeOK
      <3> QED BY <1>16, <3>1, <3>2, <3>3, <3>4 DEF Resume
    <2> QED BY <1>16, <2>2, <2>3 DEF Resume, TypeInv, TypeOK, GenerationCounts, connVars,
            bridgeVars
  <1>17. ASSUME NEW o \in Operations, OpWake(o) \/ OpEnd(o) PROVE TypeInv'
    BY <1>17 DEF OpWake, OpEnd, TypeInv, TypeOK, OpState, GenerationCounts, connVars,
       chainVars, leaseVars, bridgeVars
  <1>18. CASE LeaseExpires
    BY <1>18, ClearTypes DEF LeaseExpires, TypeInv, TypeOK, GenerationCounts, connVars,
       chainVars, bridgeVars
  <1>19. CASE LeaseLapses
    BY <1>19 DEF LeaseLapses, TypeInv, TypeOK, GenerationCounts, connVars, chainVars,
       bridgeVars
  <1>20. ASSUME NEW c \in Commands, CommandTimeout(c) PROVE TypeInv'
    BY <1>20 DEF CommandTimeout, TypeInv, TypeOK, Settled, GenerationCounts, connVars,
       leaseVars, bridgeVars
  <1>21. CASE UNCHANGED vars
    BY <1>21 DEF vars, TypeInv, TypeOK, GenerationCounts, connVars, chainVars, leaseVars,
       bridgeVars
  <1> QED
    BY <1>1, <1>2, <1>3, <1>4, <1>5, <1>6, <1>7, <1>8, <1>9, <1>10, <1>11, <1>12,
       <1>13, <1>14, <1>15, <1>16, <1>17, <1>18, <1>19, <1>20, <1>21
       DEF Next, BridgeStep, ClientStep, Microtask, TimerStep

\* Every variable of an entry keeps its type in every behaviour.
THEOREM TypeCorrect == Spec => []TypeOK
  <1>1. TypeInv => TypeOK
    BY DEF TypeInv
  <1> QED BY TypeInit, TypeStep, <1>1, PTL DEF Spec

-----------------------------------------------------------------------------
(* How a step changes the chain *)

\* A command moves forward only, and starts only when its turn has come.
Moves ==
    \A c \in Commands :
        \/ st'[c] = st[c]
        \/ st[c] \in {"inflight"} \cup Settled /\ st'[c] \in Settled
        \/ CanStart(c) /\ st'[c] \in {"inflight", "rejected"}

\* A step either chains commands to the tail, with what holds at that moment ...
ChainedStep ==
    \E n \in 0..2, i \in Info :
        /\ Chain(n, i) /\ connects' = connects /\ op' = op
        /\ i.conn = connects /\ i.gen = generation' /\ i.session = session'
        /\ n # 0 => session' \notin Exclusive /\ session' # Nil
        /\ i.kind = "claim" => i.by \in Clients

\* ... or moves commands forward and perhaps cuts the tail.
MovedStep ==
    /\ UNCHANGED <<issued, info>> /\ Moves
    /\ \/ connects' = connects /\ tail' = tail
       \/ connects' = connects + 1 /\ tail' = 0 /\ op' = op

\* The connection and the session stay the same within a generation.
GenerationStep ==
    \/ generation' > generation
    \/ /\ generation' = generation /\ connects' = connects
       /\ session' = session \/ session = Nil

ChainShape == (ChainedStep \/ MovedStep) /\ GenerationStep

LEMMA QuietShape ==
    ASSUME TypeInv,
           UNCHANGED <<issued, info, st, tail, connects, generation, session>>
    PROVE  ChainShape
  BY DEF ChainShape, MovedStep, Moves, GenerationStep

LEMMA RejectShape ==
    ASSUME TypeInv, RejectPending
    PROVE  Moves
  BY DEF RejectPending, Moves, Settled, TypeInv, TypeOK

LEMMA DetachShape == TypeInv /\ DetachEffects => ChainShape
  BY RejectShape DEF DetachEffects, ChainShape, MovedStep, GenerationStep

LEMMA DispatchShape ==
    ASSUME TypeInv, attached => session # Nil, NEW k \in Kinds,
           NEW cl \in Clients \cup {Nil}, NEW l \in 0..MaxCommands, Available,
           Chain(1, Ticket(k, cl, l)), UNCHANGED <<connVars, op>>,
           k = "claim" => cl \in Clients
    PROVE  ChainShape
  <1>1. Ticket(k, cl, l) \in Info
    BY TicketType DEF TypeInv
  <1>2. session # Nil /\ session \notin Exclusive
    BY DEF Available
  <1>3. ChainedStep
    <2> DEFINE i == Ticket(k, cl, l)
    <2>1. /\ i.conn = connects /\ i.gen = generation /\ i.session = session
          /\ i.kind = k /\ i.by = cl
      BY DEF Ticket
    <2>2. generation' = generation /\ session' = session /\ connects' = connects
      BY DEF connVars
    <2> QED BY <1>1, <1>2, <2>1, <2>2 DEF ChainedStep
  <1> QED BY <1>3 DEF ChainShape, GenerationStep, connVars

\* An attached entry has a session.
AttachedHasSession == attached => session # Nil

LEMMA SessionInit == Init => AttachedHasSession
  BY DEF Init, AttachedHasSession

LEMMA SessionStep == TypeInv /\ AttachedHasSession /\ [Next]_vars => AttachedHasSession'
  <1> SUFFICES ASSUME TypeInv, AttachedHasSession, [Next]_vars
               PROVE  AttachedHasSession'
    OBVIOUS
  <1>1. (attached' = attached /\ session' = session)
          \/ (\E s \in Sessions : ApplySnapshot(s))
    BY DEF Next, BridgeStep, ClientStep, Microtask, TimerStep, Reconnect, SocketFails,
       Disconnect, DetachEffects, GraceExpires, Goodbye, SequenceGap, CommandResult,
       BridgeGrants, BridgeLeaseEnds, BrowserCommand, Claim, Renew, Release, Dispatch,
       ReleaseRefused, RemoteInput, OpRequest, Start, Resume, OpWake, OpEnd,
       LeaseExpires, LeaseLapses, CommandTimeout, vars, connVars
  <1>2. ASSUME NEW s \in Sessions, ApplySnapshot(s) PROVE session' # Nil
    BY <1>2, NilAssumption DEF ApplySnapshot
  <1> QED BY <1>1, <1>2 DEF AttachedHasSession

LEMMA StepShape == TypeInv /\ AttachedHasSession /\ [Next]_vars => ChainShape
  <1> SUFFICES ASSUME TypeInv, AttachedHasSession, [Next]_vars PROVE ChainShape
    OBVIOUS
  <1>1. CASE Reconnect
    <2>1. generation' > generation
      BY <1>1 DEF Reconnect, Bump, TypeInv, TypeOK
    <2> QED BY <1>1, <2>1, RejectShape DEF Reconnect, ChainShape, MovedStep, GenerationStep
  <1>2. CASE SocketFails \/ SequenceGap \/ LeaseExpires \/ LeaseLapses \/ BridgeLeaseEnds
    BY <1>2, QuietShape DEF SocketFails, SequenceGap, LeaseExpires, LeaseLapses,
       BridgeLeaseEnds, connVars, chainVars
  <1>3. CASE Disconnect
    <2>1. CASE DetachEffects
      BY <2>1, DetachShape
    <2>2. CASE ~DetachEffects
      BY <1>3, <2>2, RejectShape DEF Disconnect, ChainShape, MovedStep, GenerationStep
    <2> QED BY <2>1, <2>2
  <1>4. CASE GraceExpires \/ Goodbye
    BY <1>4, DetachShape DEF GraceExpires, Goodbye
  <1>5. ASSUME NEW s \in Sessions, ApplySnapshot(s) PROVE ChainShape
    <2> DEFINE i == [Ticket("plain", Nil, 0) EXCEPT !.session = s, !.gen = generation']
    <2>1. PICK n \in 0..2 : Chain(n, i) /\ (n # 0 => s \notin Exclusive)
      BY <1>5 DEF ApplySnapshot
    <2>2. generation' \in 0..(MaxConnects + MaxSwitches)
      BY <1>5, TypeStep DEF TypeInv, TypeOK
    <2>3. i \in Info
      <3>1. Ticket("plain", Nil, 0) \in Info
        BY TicketType, BoundsAssumption DEF TypeInv, Kinds
      <3> QED BY <2>2, <3>1 DEF Info
    <2>4. i.conn = connects /\ i.gen = generation' /\ i.session = s /\ i.kind = "plain"
      BY DEF Ticket
    <2>5. session' = s /\ connects' = connects /\ op' = op /\ s # Nil
      BY <1>5, NilAssumption DEF ApplySnapshot
    <2>6. ChainedStep
      <3> HIDE DEF i
      <3> QED BY <2>1, <2>3, <2>4, <2>5 DEF ChainedStep
    <2>7. GenerationStep
      BY <1>5 DEF ApplySnapshot, GenerationStep, Bump, TypeInv, TypeOK
    <2> QED BY <2>6, <2>7 DEF ChainShape
  <1>6. ASSUME NEW c \in Commands, CommandResult(c) \/ CommandTimeout(c)
        PROVE  ChainShape
    <2>1. Moves
      BY <1>6 DEF CommandResult, CommandTimeout, Moves, Settled, TypeInv, TypeOK
    <2> QED BY <1>6, <2>1 DEF CommandResult, CommandTimeout, ChainShape, MovedStep,
            GenerationStep, connVars
  <1>7. ASSUME NEW c \in Commands, BridgeGrants(c) PROVE ChainShape
    BY <1>7, QuietShape DEF BridgeGrants, connVars, chainVars
  <1>8. CASE BrowserCommand
    BY <1>8, DispatchShape, BoundsAssumption
       DEF BrowserCommand, Dispatch, Kinds, AttachedHasSession
  <1>9. ASSUME NEW cl \in Clients, Claim(cl) \/ Renew(cl) \/ Release(cl)
        PROVE  ChainShape
    <2>1. claim \in 0..MaxCommands /\ 0 \in 0..MaxCommands
      BY BoundsAssumption DEF TypeInv, TypeOK
    <2> QED BY <1>9, <2>1, DispatchShape
            DEF Claim, Renew, Release, Dispatch, Kinds, AttachedHasSession
  <1>10. ASSUME NEW cl \in Clients, ReleaseRefused(cl) PROVE ChainShape
    BY <1>10, QuietShape DEF ReleaseRefused, connVars, chainVars
  <1>11. ASSUME NEW cl \in Clients, RemoteInput(cl) PROVE ChainShape
    <2>1. Available
      BY <1>11 DEF RemoteInput, RemoteCheck, Ticket, Available
    <2> QED BY <1>11, <2>1, DispatchShape
            DEF RemoteInput, Kinds, AttachedHasSession, TypeInv, TypeOK
  <1>12. ASSUME NEW o \in Operations, OpRequest(o) \/ OpWake(o) \/ OpEnd(o)
         PROVE  ChainShape
    BY <1>12, QuietShape DEF OpRequest, OpWake, OpEnd, connVars, chainVars
  <1>13. ASSUME NEW c \in Commands, Start(c) PROVE ChainShape
    <2>1. Moves
      BY <1>13 DEF Start, Moves, TypeInv, TypeOK
    <2> QED BY <1>13, <2>1 DEF Start, ChainShape, MovedStep, GenerationStep, connVars
  <1>14. ASSUME NEW c \in Commands, Resume(c) PROVE ChainShape
    <2>1. Moves
      BY <1>14 DEF Resume, CanResume, Moves, Settled, TypeInv, TypeOK
    <2> QED BY <1>14, <2>1 DEF Resume, ChainShape, MovedStep, GenerationStep, connVars
  <1>15. CASE UNCHANGED vars
    BY <1>15, QuietShape DEF vars, connVars, chainVars
  <1> QED
    BY <1>1, <1>2, <1>3, <1>4, <1>5, <1>6, <1>7, <1>8, <1>9, <1>10, <1>11, <1>12,
       <1>13, <1>14, <1>15 DEF Next, BridgeStep, ClientStep, Microtask, TimerStep

-----------------------------------------------------------------------------
(* The order of the chain *)

\* The chain of the current connection ends in the tail, and each command waits
\* for a later one than any earlier command of its own connection.
ChainInv ==
    /\ tail <= issued
    /\ tail # 0 => info[tail].conn = connects
    /\ \A c \in Commands : c > issued => st[c] = "unused"
    /\ \A c \in 1..issued :
          /\ info[c].conn <= connects
          /\ info[c].conn = connects => c <= tail
          /\ info[c].after < c
          /\ info[c].after # 0 => info[info[c].after].conn = info[c].conn
    /\ \A b, c \in 1..issued :
          b < c /\ info[b].conn = info[c].conn => b <= info[c].after

OrderInv == ChainInv /\ InOrder

LEMMA IssuedAreCommands == TypeOK => \A c \in 1..issued : c \in Commands
  BY BoundsAssumption DEF TypeOK, Commands

LEMMA OrderInit == Init => OrderInv
  BY BoundsAssumption DEF Init, OrderInv, ChainInv, InOrder, Commands

\* What Chain does, command by command.
LEMMA ChainEffect ==
    ASSUME TypeOK, NEW n \in 0..2, NEW i \in Info, Chain(n, i)
    PROVE  /\ issued' = issued + n /\ issued + n <= MaxCommands
           /\ tail' = IF n = 0 THEN tail ELSE issued + n
           /\ \A c \in Commands :
                 IF c \in (issued + 1)..(issued + n)
                 THEN /\ st'[c] = "queued"
                      /\ info'[c].kind = i.kind /\ info'[c].by = i.by
                      /\ info'[c].lease = i.lease /\ info'[c].session = i.session
                      /\ info'[c].gen = i.gen /\ info'[c].conn = i.conn
                      /\ info'[c].after = IF c = issued + 1 THEN tail ELSE c - 1
                 ELSE st'[c] = st[c] /\ info'[c] = info[c]
  BY DEF Chain, Info

LEMMA OrderStep ==
    TypeInv /\ TypeInv' /\ OrderInv /\ ChainShape => OrderInv'
  <1> SUFFICES ASSUME TypeInv, TypeInv', OrderInv, ChainShape PROVE OrderInv'
    OBVIOUS
  <1> USE BoundsAssumption
  <1>0. /\ issued \in Nat /\ issued <= MaxCommands /\ tail \in Nat /\ connects \in Nat
        /\ \A c \in Commands : info[c].after \in Nat /\ info[c].conn \in Nat
    BY DEF TypeInv, TypeOK, Info
  <1>1. CASE ChainedStep
    <2>1. PICK n \in 0..2, i \in Info :
            /\ Chain(n, i) /\ connects' = connects
            /\ i.conn = connects
      BY <1>1 DEF ChainedStep
    <2>2. /\ issued' = issued + n /\ issued + n <= MaxCommands
          /\ tail' = IF n = 0 THEN tail ELSE issued + n
          /\ \A c \in Commands :
                IF c \in (issued + 1)..(issued + n)
                THEN /\ st'[c] = "queued" /\ info'[c].conn = connects
                     /\ info'[c].after = IF c = issued + 1 THEN tail ELSE c - 1
                ELSE st'[c] = st[c] /\ info'[c] = info[c]
      BY <2>1, ChainEffect DEF TypeInv
    <2>3. \A c \in 1..issued : c \in Commands /\ st'[c] = st[c] /\ info'[c] = info[c]
      BY <1>0, <2>2 DEF Commands
    <2>4. \A c \in (issued + 1)..(issued + n) :
            /\ c \in Commands /\ st'[c] = "queued" /\ info'[c].conn = connects
            /\ info'[c].after = IF c = issued + 1 THEN tail ELSE c - 1
      BY <1>0, <2>2 DEF Commands
    <2>5. InOrder'
      BY <1>0, <2>2, <2>3, <2>4 DEF InOrder, OrderInv
    <2>6. tail' <= issued' /\ (tail' # 0 => info'[tail'].conn = connects')
      BY <1>0, <2>1, <2>2, <2>3, <2>4 DEF ChainInv, OrderInv
    <2>7. \A c \in Commands : c > issued' => st'[c] = "unused"
      BY <1>0, <2>2 DEF ChainInv, OrderInv, Commands
    <2>8. \A c \in 1..issued' :
            /\ info'[c].conn <= connects'
            /\ info'[c].conn = connects' => c <= tail'
            /\ info'[c].after < c
            /\ info'[c].after # 0 => info'[info'[c].after].conn = info'[c].conn
      <3> SUFFICES ASSUME NEW c \in 1..issued'
                   PROVE  /\ info'[c].conn <= connects'
                          /\ info'[c].conn = connects' => c <= tail'
                          /\ info'[c].after < c
                          /\ info'[c].after # 0 =>
                               info'[info'[c].after].conn = info'[c].conn
        OBVIOUS
      <3>1. CASE c \in 1..issued
        BY <1>0, <2>1, <2>2, <2>3, <3>1 DEF ChainInv, OrderInv
      <3>2. CASE c \in (issued + 1)..(issued + n)
        BY <1>0, <2>1, <2>2, <2>3, <2>4, <3>2 DEF ChainInv, OrderInv
      <3> QED BY <1>0, <2>2, <3>1, <3>2
    <2>9. \A b, c \in 1..issued' :
            b < c /\ info'[b].conn = info'[c].conn => b <= info'[c].after
      BY <1>0, <2>2, <2>3, <2>4 DEF ChainInv, OrderInv
    <2> QED BY <2>5, <2>6, <2>7, <2>8, <2>9 DEF ChainInv, OrderInv
  <1>2. CASE MovedStep
    <2>1. issued' = issued /\ info' = info /\ Moves
      BY <1>2 DEF MovedStep
    <2>2. \A c \in 1..issued : c \in Commands
      BY IssuedAreCommands DEF TypeInv
    <2>3. ChainInv'
      <3>1. \A c \in Commands : c > issued => st'[c] = "unused"
        BY <2>1 DEF ChainInv, OrderInv, Moves, CanStart, Settled
      <3>2. tail' <= issued /\ (tail' # 0 => info[tail'].conn = connects')
        BY <1>0, <1>2 DEF MovedStep, ChainInv, OrderInv
      <3>3. \A c \in 1..issued : /\ info[c].conn <= connects'
                                 /\ info[c].conn = connects' => c <= tail'
        BY <1>0, <1>2, <2>2 DEF MovedStep, ChainInv, OrderInv
      <3> QED BY <2>1, <3>1, <3>2, <3>3 DEF ChainInv, OrderInv
    <2>4. InOrder'
      <3> SUFFICES ASSUME NEW c \in 1..issued, NEW d \in 1..issued, c < d,
                          info[c].conn = info[d].conn, st'[d] # "queued"
                   PROVE  st'[c] \in Settled
        BY <2>1 DEF InOrder
      <3>1. st[c] \in Settled
        <4>1. CASE st[d] # "queued"
          BY <4>1 DEF InOrder, OrderInv
        <4>2. CASE CanStart(d)
          <5> DEFINE a == info[d].after
          <5>1. c <= a /\ a < d /\ a \in 1..issued /\ info[a].conn = info[d].conn
            BY <1>0, <2>2 DEF ChainInv, OrderInv
          <5>2. st[a] \in Settled
            BY <4>2, <5>1 DEF CanStart, PromiseSettled
          <5> HIDE DEF a
          <5>3. CASE c < a
            BY <5>1, <5>2, <5>3 DEF InOrder, OrderInv, Settled
          <5> QED BY <5>1, <5>2, <5>3
        <4> QED BY <2>1, <2>2, <4>1, <4>2 DEF Moves, Settled
      <3> QED BY <2>1, <2>2, <3>1 DEF Moves, CanStart, Settled
    <2> QED BY <2>3, <2>4 DEF OrderInv
  <1> QED BY <1>1, <1>2 DEF ChainShape

\* The invariants that the remaining theorems share.
BaseInv == TypeInv /\ AttachedHasSession /\ OrderInv

LEMMA BaseInit == Init => BaseInv
  BY TypeInit, SessionInit, OrderInit DEF BaseInv

LEMMA BaseStep == BaseInv /\ [Next]_vars => BaseInv'
  BY TypeStep, SessionStep, StepShape, OrderStep DEF BaseInv

\* Every command waits for those issued before it on its own connection: the
\* promise chain of dispatch keeps the order whatever reconnects happen.
THEOREM ChainInOrder == Spec => []InOrder
  <1>1. BaseInv => InOrder
    BY DEF BaseInv, OrderInv
  <1> QED BY BaseInit, BaseStep, <1>1, PTL DEF Spec

-----------------------------------------------------------------------------
(* Generations and remote inputs *)

GenInv ==
    /\ session = Nil => issued = 0
    /\ \A c \in 1..issued : info[c].gen <= generation
    /\ GenerationPins

LEMMA GenInit == Init => GenInv
  BY DEF Init, GenInv, GenerationPins

LEMMA SessionKept == [Next]_vars => session' = session \/ session' # Nil
  <1> SUFFICES ASSUME [Next]_vars PROVE session' = session \/ session' # Nil
    OBVIOUS
  <1>1. session' = session \/ (\E s \in Sessions : ApplySnapshot(s))
    BY DEF Next, BridgeStep, ClientStep, Microtask, TimerStep, Reconnect, SocketFails,
       Disconnect, DetachEffects, GraceExpires, Goodbye, SequenceGap, CommandResult,
       BridgeGrants, BridgeLeaseEnds, BrowserCommand, Claim, Renew, Release, Dispatch,
       ReleaseRefused, RemoteInput, OpRequest, Start, Resume, OpWake, OpEnd,
       LeaseExpires, LeaseLapses, CommandTimeout, vars, connVars
  <1>2. ASSUME NEW s \in Sessions, ApplySnapshot(s) PROVE session' # Nil
    BY <1>2, NilAssumption DEF ApplySnapshot
  <1> QED BY <1>1, <1>2

LEMMA GenStep == BaseInv /\ BaseInv' /\ GenInv /\ [Next]_vars => GenInv'
  <1> SUFFICES ASSUME BaseInv, BaseInv', GenInv, [Next]_vars PROVE GenInv'
    OBVIOUS
  <1> USE BoundsAssumption
  <1>0. /\ issued \in Nat /\ generation \in Nat /\ generation' \in Nat
        /\ \A c \in Commands : info[c].gen \in Nat
        /\ \A c \in 1..issued : c \in Commands
    BY DEF BaseInv, TypeInv, TypeOK, Info, Commands
  <1>1. ChainShape
    BY StepShape DEF BaseInv
  <1>2. CASE ChainedStep
    <2>1. PICK n \in 0..2, i \in Info :
            /\ Chain(n, i) /\ connects' = connects
            /\ i.conn = connects /\ i.gen = generation' /\ i.session = session'
            /\ n # 0 => session' # Nil
      BY <1>2 DEF ChainedStep
    <2>2. issued' = issued + n /\ issued + n <= MaxCommands
      BY <2>1, ChainEffect DEF BaseInv, TypeInv
    <2>3. \A c \in 1..issued : info'[c] = info[c]
      BY <1>0, <2>1, <2>2, ChainEffect DEF BaseInv, TypeInv
    <2>4. \A c \in (issued + 1)..(issued + n) :
            /\ info'[c].conn = connects /\ info'[c].gen = generation'
            /\ info'[c].session = session'
      BY <1>0, <2>1, <2>2, ChainEffect DEF BaseInv, TypeInv, Commands
    <2>5. session' = Nil => issued' = 0
      BY <1>0, <2>1, <2>2, SessionKept DEF GenInv
    <2>6. ASSUME NEW c \in 1..issued'
          PROVE  /\ info'[c].gen <= generation'
                 /\ info'[c].gen = generation' => /\ info'[c].conn = connects'
                                                 /\ info'[c].session = session'
      <3>1. CASE c \in 1..issued
        BY <1>0, <1>1, <2>3, <3>1 DEF ChainShape, GenerationStep, GenInv, GenerationPins
      <3>2. CASE c \in (issued + 1)..(issued + n)
        BY <1>0, <2>1, <2>4, <3>2
      <3> QED BY <1>0, <2>2, <3>1, <3>2
    <2> QED BY <2>5, <2>6 DEF GenInv, GenerationPins
  <1>3. CASE MovedStep
    <2>1. issued' = issued /\ info' = info
      BY <1>3 DEF MovedStep
    <2>2. session' = Nil => issued' = 0
      BY <2>1, SessionKept DEF GenInv
    <2> QED BY <1>0, <1>1, <2>1, <2>2
            DEF ChainShape, GenerationStep, GenInv, GenerationPins
  <1> QED BY <1>1, <1>2, <1>3 DEF ChainShape

\* What was accepted in the current generation was accepted for the current
\* connection and session: the comparison of generations in sendRemoteInput
\* detects every reconnect and every switch.
THEOREM GenerationsPin == Spec => []GenerationPins
  <1>1. GenInv => GenerationPins
    BY DEF GenInv
  <1> QED BY BaseInit, BaseStep, GenInit, GenStep, <1>1, PTL DEF Spec

\* Nothing is sent before it is issued.
FenceInv ==
    /\ \A c \in Commands : c > issued => ~Sent(c)
    /\ RemoteInputFenced

LEMMA FenceInit == Init => FenceInv
  BY DEF Init, FenceInv, Sent, RemoteInputFenced

LEMMA SentStep == [Next]_vars => sentAt' = sentAt \/ (\E c \in Commands : Start(c))
  BY DEF Next, BridgeStep, ClientStep, Microtask, TimerStep, Reconnect, SocketFails,
     Disconnect, DetachEffects, GraceExpires, Goodbye, SequenceGap, CommandResult,
     BridgeGrants, BridgeLeaseEnds, BrowserCommand, Claim, Renew, Release, Dispatch,
     ReleaseRefused, RemoteInput, OpRequest, Resume, OpWake, OpEnd, ApplySnapshot, Chain,
     LeaseExpires, LeaseLapses, CommandTimeout, vars, chainVars

LEMMA FenceStep ==
    BaseInv /\ BaseInv' /\ GenInv /\ FenceInv /\ [Next]_vars => FenceInv'
  <1> SUFFICES ASSUME BaseInv, BaseInv', GenInv, FenceInv, [Next]_vars PROVE FenceInv'
    OBVIOUS
  <1> USE BoundsAssumption
  <1>0. issued \in Nat /\ issued <= MaxCommands
    BY DEF BaseInv, TypeInv, TypeOK
  <1>1. CASE sentAt' = sentAt
    <2>1. issued' >= issued /\ \A c \in 1..issued : info'[c] = info[c]
      <3>1. CASE ChainedStep
        <4>1. PICK n \in 0..2, i \in Info : Chain(n, i)
          BY <3>1 DEF ChainedStep
        <4> QED BY <1>0, <4>1, ChainEffect DEF BaseInv, TypeInv, Commands
      <3>2. CASE MovedStep
        BY <1>0, <3>2 DEF MovedStep
      <3> QED BY <3>1, <3>2, StepShape DEF BaseInv, ChainShape
    <2>2. issued' \in Nat
      BY DEF BaseInv, TypeInv, TypeOK
    <2> QED BY <1>0, <1>1, <2>1, <2>2 DEF FenceInv, RemoteInputFenced, Sent, Commands
  <1>2. ASSUME NEW c \in Commands, Start(c) PROVE FenceInv'
    <2>1. issued' = issued /\ info' = info /\ c <= issued
      BY <1>0, <1>2 DEF Start, CanStart, BaseInv, OrderInv, ChainInv, Commands
    <2>2. CASE sentAt' = sentAt
      BY <2>1, <2>2 DEF FenceInv, RemoteInputFenced, Sent
    <2>3. CASE sentAt' # sentAt
      <3>1. /\ sentAt' = [sentAt EXCEPT ![c] = [conn |-> connects, session |-> session]]
            /\ info[c].kind = "input" => RemoteCheck(info[c])
        BY <1>2, <2>3 DEF Start
      <3>2. info[c].kind = "input" =>
              info[c].conn = connects /\ info[c].session = session
        BY <1>0, <2>1, <3>1 DEF RemoteCheck, GenInv, GenerationPins, Commands
      <3>3. sentAt \in [Commands -> [conn : 0..MaxConnects, session : Sessions \cup {Nil}]]
        BY DEF BaseInv, TypeInv, TypeOK
      <3>4. \A d \in Commands \ {c} : sentAt'[d] = sentAt[d]
        BY <3>1, <3>3
      <3>5. sentAt'[c] = [conn |-> connects, session |-> session]
        BY <3>1, <3>3
      <3> QED BY <1>0, <2>1, <3>2, <3>4, <3>5
              DEF FenceInv, RemoteInputFenced, Sent, Commands
    <2> QED BY <2>2, <2>3
  <1> QED BY <1>1, <1>2, SentStep

\* A remote input is sent only to the connection and the session for which
\* sendRemoteInput accepted it.
THEOREM RemoteInputsFenced == Spec => []RemoteInputFenced
  <1>1. FenceInv => RemoteInputFenced
    BY DEF FenceInv
  <1> QED BY BaseInit, BaseStep, GenInit, GenStep, FenceInit, FenceStep, <1>1, PTL DEF Spec

-----------------------------------------------------------------------------
(* Exclusive operations *)

\* What withExclusiveSession relies on: while its id is in exclusiveSessionIds,
\* the commands of its session are those up to the tail it captured, and older
\* connections' ones.
OpInv ==
    \A o \in Operations :
        op[o].phase \in {"waiting", "running"} =>
            /\ op[o].conn <= connects
            /\ op[o].tail <= issued
            /\ op[o].tail # 0 => info[op[o].tail].conn = op[o].conn
            /\ op[o].phase = "running" => PromiseSettled(op[o].tail)
            /\ \A c \in 1..issued :
                 info[c].session = op[o].session /\ info[c].conn >= op[o].conn
                     => info[c].conn = op[o].conn /\ c <= op[o].tail

LEMMA OpInit == Init => OpInv
  BY DEF Init, OpInv

LEMMA OpMoves ==
    [Next]_vars => \/ op' = op
                   \/ /\ \E o \in Operations : OpRequest(o) \/ OpWake(o) \/ OpEnd(o)
                      /\ UNCHANGED <<issued, info, st, tail, connects, session>>
  BY DEF Next, BridgeStep, ClientStep, Microtask, TimerStep, Reconnect, SocketFails,
     Disconnect, DetachEffects, GraceExpires, Goodbye, SequenceGap, CommandResult,
     BridgeGrants, BridgeLeaseEnds, BrowserCommand, Claim, Renew, Release, Dispatch,
     ReleaseRefused, RemoteInput, OpRequest, Start, Resume, OpWake, OpEnd, ApplySnapshot,
     LeaseExpires, LeaseLapses, CommandTimeout, vars, connVars, chainVars

LEMMA OpStep == BaseInv /\ BaseInv' /\ OpInv /\ [Next]_vars => OpInv'
  <1> SUFFICES ASSUME BaseInv, BaseInv', OpInv, [Next]_vars PROVE OpInv'
    OBVIOUS
  <1> USE BoundsAssumption
  <1>0. /\ issued \in Nat /\ issued <= MaxCommands /\ connects \in Nat /\ tail \in Nat
        /\ \A o \in Operations : op[o].tail \in Nat /\ op[o].conn \in Nat
        /\ \A c \in Commands : info[c].conn \in Nat
        /\ \A c \in 1..issued : c \in Commands
    BY DEF BaseInv, TypeInv, TypeOK, Info, OpState, Commands
  <1>1. CASE op' = op
    <2> SUFFICES ASSUME NEW o \in Operations, op[o].phase \in {"waiting", "running"}
                 PROVE  /\ op[o].conn <= connects'
                        /\ op[o].tail <= issued'
                        /\ op[o].tail # 0 => info'[op[o].tail].conn = op[o].conn
                        /\ op[o].phase = "running" => PromiseSettled(op[o].tail)'
                        /\ \A c \in 1..issued' :
                             info'[c].session = op[o].session /\ info'[c].conn >= op[o].conn
                                 => info'[c].conn = op[o].conn /\ c <= op[o].tail
      BY <1>1 DEF OpInv, PromiseSettled
    <2>1. /\ op[o].conn <= connects /\ op[o].tail <= issued
          /\ op[o].tail # 0 => op[o].tail \in 1..issued
      BY <1>0 DEF OpInv
    <2>2. CASE ChainedStep
      <3>1. PICK n \in 0..2, i \in Info :
              /\ Chain(n, i) /\ connects' = connects
              /\ i.session = session'
              /\ n # 0 => session' \notin Exclusive
        BY <2>2 DEF ChainedStep
      <3>2. issued' = issued + n /\ issued + n <= MaxCommands
        BY <3>1, ChainEffect DEF BaseInv, TypeInv
      <3>3. \A c \in 1..issued : info'[c] = info[c] /\ st'[c] = st[c]
        BY <1>0, <3>1, <3>2, ChainEffect DEF BaseInv, TypeInv
      <3>4. \A c \in (issued + 1)..(issued + n) : info'[c].session = session'
        BY <1>0, <3>1, <3>2, ChainEffect DEF BaseInv, TypeInv, Commands
      <3>5. n # 0 => session' # op[o].session
        BY <3>1 DEF Exclusive
      <3>6. op[o].phase = "running" => PromiseSettled(op[o].tail)'
        BY <1>1, <2>1, <3>3 DEF OpInv, PromiseSettled
      <3>7. ASSUME NEW c \in 1..issued',
                   info'[c].session = op[o].session, info'[c].conn >= op[o].conn
            PROVE  info'[c].conn = op[o].conn /\ c <= op[o].tail
        <4>1. c \in 1..issued
          BY <1>0, <3>2, <3>4, <3>5, <3>7
        <4> QED BY <3>3, <3>7, <4>1 DEF OpInv
      <3> QED BY <1>0, <2>1, <3>1, <3>2, <3>3, <3>6, <3>7 DEF OpInv
    <2>3. CASE MovedStep
      <3>1. issued' = issued /\ info' = info /\ Moves /\ connects' >= connects
        BY <1>0, <2>3 DEF MovedStep
      <3>2. op[o].phase = "running" => PromiseSettled(op[o].tail)'
        BY <1>0, <1>1, <2>1, <3>1 DEF OpInv, PromiseSettled, Moves, CanStart, Settled
      <3>3. connects' \in Nat
        BY DEF BaseInv, TypeInv, TypeOK
      <3> QED BY <1>0, <2>1, <3>1, <3>2, <3>3 DEF OpInv
    <2> QED BY <2>2, <2>3, StepShape DEF BaseInv, ChainShape
  <1>2. ASSUME NEW o \in Operations, OpRequest(o) \/ OpWake(o) \/ OpEnd(o),
               UNCHANGED <<issued, info, st, tail, connects, session>>
        PROVE  OpInv'
    <2> SUFFICES ASSUME NEW p \in Operations, op'[p].phase \in {"waiting", "running"}
                 PROVE  /\ op'[p].conn <= connects
                        /\ op'[p].tail <= issued
                        /\ op'[p].tail # 0 => info[op'[p].tail].conn = op'[p].conn
                        /\ op'[p].phase = "running" =>
                             (op'[p].tail # 0 => st[op'[p].tail] \in Settled)
                        /\ \A c \in 1..issued :
                             info[c].session = op'[p].session /\ info[c].conn >= op'[p].conn
                                 => info[c].conn = op'[p].conn /\ c <= op'[p].tail
      BY <1>2 DEF OpInv, PromiseSettled
    <2>1. CASE p # o
      <3>1. op'[p] = op[p]
        BY <1>2, <2>1 DEF OpRequest, OpWake, OpEnd, BaseInv, TypeInv, TypeOK
      <3> QED BY <3>1 DEF OpInv, PromiseSettled
    <2>2. CASE p = o /\ OpRequest(o)
      <3>1. op'[p] = [phase |-> "waiting", session |-> session, tail |-> tail,
                      conn |-> connects]
        BY <2>2 DEF OpRequest, BaseInv, TypeInv, TypeOK
      <3> QED BY <1>0, <3>1 DEF BaseInv, OrderInv, ChainInv
    <2>3. CASE p = o /\ OpWake(o)
      <3>1. /\ op'[p].session = op[p].session /\ op'[p].tail = op[p].tail
            /\ op'[p].conn = op[p].conn /\ op[p].phase = "waiting"
            /\ op[p].tail # 0 => st[op[p].tail] \in Settled
        BY <2>3 DEF OpWake, CanWake, PromiseSettled, BaseInv, TypeInv, TypeOK, OpState
      <3> QED BY <3>1 DEF OpInv
    <2>4. CASE p = o /\ OpEnd(o)
      BY <2>4 DEF OpEnd, BaseInv, TypeInv, TypeOK, OpState
    <2> QED BY <1>2, <2>1, <2>2, <2>3, <2>4
  <1> QED BY <1>1, <1>2, OpMoves

LEMMA FenceFollows == BaseInv /\ OpInv => ExclusiveFence
  <1> SUFFICES ASSUME BaseInv, OpInv, NEW o \in Operations, NEW c \in Commands,
                      op[o].phase = "running", st[c] = "inflight",
                      info[c].session = op[o].session, ~(info[c].conn < op[o].conn)
               PROVE  FALSE
    BY DEF ExclusiveFence
  <1> DEFINE t == op[o].tail
  <1>1. /\ issued \in Nat /\ t \in Nat /\ info[c].conn \in Nat /\ op[o].conn \in Nat
    BY BoundsAssumption DEF BaseInv, TypeInv, TypeOK, Info, OpState
  <1>2. c \in 1..issued
    BY <1>1, BoundsAssumption DEF BaseInv, OrderInv, ChainInv, Commands
  <1>3. info[c].conn = op[o].conn /\ c <= t /\ t <= issued
    BY <1>1, <1>2 DEF OpInv
  <1>4. t \in 1..issued /\ info[t].conn = info[c].conn /\ st[t] \in Settled
    BY <1>1, <1>2, <1>3 DEF OpInv, PromiseSettled
  <1> HIDE DEF t
  <1>5. CASE c < t
    BY <1>2, <1>4, <1>5 DEF BaseInv, OrderInv, InOrder, Settled
  <1> QED BY <1>2, <1>3, <1>4, <1>5 DEF Settled

\* While withExclusiveSession runs its operation, no command for the session is
\* pending, except one left over from an older connection.
THEOREM ExclusiveOperationsFenced == Spec => []ExclusiveFence
  <1> QED BY BaseInit, BaseStep, OpInit, OpStep, FenceFollows, PTL DEF Spec

-----------------------------------------------------------------------------
(* The lease and the detached entry *)

LeaseInv ==
    /\ \A c \in Commands : info[c].kind = "claim" => info[c].by \in Clients
    /\ ClaimHasOwner

LEMMA LeaseInit == Init => LeaseInv
  BY DEF Init, LeaseInv, ClaimHasOwner, Blank

LEMMA ClaimersStep ==
    BaseInv /\ [Next]_vars /\ (\A c \in Commands : info[c].kind = "claim" => info[c].by \in Clients)
        => (\A c \in Commands : info'[c].kind = "claim" => info'[c].by \in Clients)
  <1> SUFFICES ASSUME BaseInv, [Next]_vars, NEW c \in Commands,
                      info[c].kind = "claim" => info[c].by \in Clients
               PROVE  info'[c].kind = "claim" => info'[c].by \in Clients
    OBVIOUS
  <1>1. CASE ChainedStep
    <2>1. PICK n \in 0..2, i \in Info :
            Chain(n, i) /\ (i.kind = "claim" => i.by \in Clients)
      BY <1>1 DEF ChainedStep
    <2> QED BY <2>1, ChainEffect DEF BaseInv, TypeInv
  <1> QED BY <1>1, StepShape DEF BaseInv, ChainShape, MovedStep

\* The ways in which a step changes the lease.
LeaseShape ==
    \/ UNCHANGED leaseVars
    \/ ClearLease
    \/ LeaseLapses
    \/ \E s \in Sessions : ApplySnapshot(s)
    \/ \E l \in Commands : Tell(l)
    \/ /\ leaseTimer' = TRUE
       /\ \/ ResumeRenew
          \/ \E c \in Commands : info[c].kind = "claim" /\ ResumeClaim(c)

LEMMA LeaseStepShape == [Next]_vars => LeaseShape
  <1> SUFFICES ASSUME [Next]_vars PROVE LeaseShape
    OBVIOUS
  <1>1. CASE UNCHANGED leaseVars
    BY <1>1 DEF LeaseShape
  <1>2. ASSUME NEW c \in Commands, Resume(c) PROVE LeaseShape
    BY <1>2 DEF Resume, LeaseShape, ResumeRenew, ResumeClaim
  <1>3. CASE BridgeLeaseEnds
    BY <1>3 DEF BridgeLeaseEnds, Tell, LeaseShape
  <1>4. ASSUME NEW c \in Commands, BridgeGrants(c) PROVE LeaseShape
    BY <1>4 DEF BridgeGrants, LeaseShape
  <1>5. CASE \/ GraceExpires \/ Goodbye \/ LeaseExpires \/ LeaseLapses \/ Disconnect
             \/ (\E s \in Sessions : ApplySnapshot(s))
             \/ (\E cl \in Clients : ReleaseRefused(cl))
    BY <1>5 DEF GraceExpires, Goodbye, LeaseExpires, Disconnect, ReleaseRefused,
       DetachEffects, LeaseShape
  <1> QED
    BY <1>1, <1>2, <1>3, <1>4, <1>5
       DEF Next, BridgeStep, ClientStep, Microtask, TimerStep, Reconnect, SocketFails,
       SequenceGap, CommandResult, BrowserCommand, Claim, Renew, Release, Dispatch,
       RemoteInput, OpRequest, Start, OpWake, OpEnd, CommandTimeout, vars

LEMMA LeaseStep == BaseInv /\ LeaseInv /\ [Next]_vars => LeaseInv'
  <1> SUFFICES ASSUME BaseInv, LeaseInv, [Next]_vars PROVE LeaseInv'
    OBVIOUS
  <1>0. \A c \in Commands : info'[c].kind = "claim" => info'[c].by \in Clients
    BY ClaimersStep DEF LeaseInv
  <1>1. CASE UNCHANGED leaseVars
    BY <1>0, <1>1 DEF LeaseInv, ClaimHasOwner, leaseVars
  <1>2. CASE ClearLease
    BY <1>0, <1>2 DEF LeaseInv, ClaimHasOwner, ClearLease
  <1>3. CASE LeaseLapses
    BY <1>0, <1>3 DEF LeaseInv, ClaimHasOwner, LeaseLapses
  <1>4. ASSUME NEW s \in Sessions, ApplySnapshot(s) PROVE LeaseInv'
    BY <1>0, <1>4, Zenon DEF LeaseInv, ClaimHasOwner, ApplySnapshot
  <1>5. ASSUME NEW l \in Commands, Tell(l) PROVE LeaseInv'
    BY <1>0, <1>1, <1>2, <1>5 DEF LeaseInv, ClaimHasOwner, Tell
  <1>6. CASE leaseTimer' = TRUE /\ ResumeRenew
    BY <1>0, <1>6 DEF LeaseInv, ClaimHasOwner, ResumeRenew
  <1>7. ASSUME NEW c \in Commands, info[c].kind = "claim", ResumeClaim(c),
               leaseTimer' = TRUE
        PROVE  LeaseInv'
    BY <1>0, <1>7, NilAssumption DEF LeaseInv, ClaimHasOwner, ResumeClaim
  <1> QED BY <1>1, <1>2, <1>3, <1>4, <1>5, <1>6, <1>7, LeaseStepShape DEF LeaseShape

\* A claim that the dashboard shows can be released by somebody and is ended by
\* the lease timer.
THEOREM ClaimsHaveOwners == Spec => []ClaimHasOwner
  <1>1. LeaseInv => ClaimHasOwner
    BY DEF LeaseInv
  <1> QED BY BaseInit, BaseStep, LeaseInit, LeaseStep, <1>1, PTL DEF Spec

\* Once the entry is detached its transport is closed, so that nothing becomes
\* pending again, and no claim is left to be resumed.
DetachInv ==
    ~present => /\ link = "closed" /\ DetachedIsClean
                /\ \A c \in Commands : st[c] # "resolved"

LEMMA DrainedSettled ==
    ASSUME TypeOK, Drained
    PROVE  \A c \in Commands : st[c] # "resolved"
  <1> SUFFICES ASSUME NEW c \in Commands, st[c] = "resolved" PROVE FALSE
    OBVIOUS
  <1>1. PICK d \in Commands : st[d] = "queued" /\ info[d].after = c
    BY DEF Drained, CanResume
  <1>2. CanStart(d)
    BY <1>1 DEF CanStart, PromiseSettled, Settled
  <1> QED BY <1>2 DEF Drained

LEMMA DetachInit == Init => DetachInv
  BY DEF Init, DetachInv

LEMMA DetachEntry ==
    ASSUME TypeOK, Drained, DetachEffects
    PROVE  DetachInv'
  <1>1. \A c \in Commands : st'[c] # "resolved" /\ st'[c] # "inflight"
    BY DrainedSettled DEF DetachEffects, RejectPending
  <1>2. ~grace' /\ ~leaseTimer' /\ owner' = Nil /\ claim' = 0 /\ link' = "closed"
    BY DEF DetachEffects, ClearLease
  <1> QED BY <1>1, <1>2 DEF DetachInv, DetachedIsClean, InFlight

LEMMA DetachStep == BaseInv /\ DetachInv /\ [Next]_vars => DetachInv'
  <1> SUFFICES ASSUME BaseInv, DetachInv, [Next]_vars PROVE DetachInv'
    OBVIOUS
  <1>0. TypeOK
    BY DEF BaseInv, TypeInv
  <1>1. CASE GraceExpires \/ Goodbye \/ (Disconnect /\ DetachEffects)
    BY <1>0, <1>1, DetachEntry DEF GraceExpires, Goodbye, Disconnect
  <1>2. CASE present /\ ~(GraceExpires \/ Goodbye \/ (Disconnect /\ DetachEffects))
    <2>1. present' = present
      BY <1>2 DEF Next, BridgeStep, ClientStep, Microtask, TimerStep, Reconnect,
         SocketFails, Disconnect, SequenceGap, CommandResult, BridgeGrants,
         BridgeLeaseEnds, BrowserCommand, Claim, Renew, Release, Dispatch,
         ReleaseRefused, RemoteInput, OpRequest, Start, Resume, OpWake, OpEnd,
         ApplySnapshot, LeaseExpires, LeaseLapses, CommandTimeout, vars, connVars
    <2> QED BY <1>2, <2>1 DEF DetachInv
  <1>3. CASE ~present
    <2>1. /\ link = "closed" /\ owner = Nil /\ claim = 0 /\ ~leaseTimer /\ ~grace
          /\ \A c \in Commands : st[c] # "inflight" /\ st[c] # "resolved"
      BY <1>3 DEF DetachInv, DetachedIsClean, InFlight
    <2>2. ASSUME NEW c \in Commands, Start(c) PROVE DetachInv'
      <3>1. st' = [st EXCEPT ![c] = "rejected"]
        BY <2>1, <2>2 DEF Start
      <3>2. \A d \in Commands : st'[d] # "inflight" /\ st'[d] # "resolved"
        BY <1>0, <2>1, <3>1 DEF TypeOK
      <3> QED BY <2>1, <2>2, <3>2
              DEF Start, DetachInv, DetachedIsClean, InFlight, connVars, leaseVars
    <2>3. ASSUME NEW c \in Commands, Resume(c) PROVE DetachInv'
      <3>1. \A d \in Commands : st'[d] # "inflight" /\ st'[d] # "resolved"
        BY <1>0, <2>1, <2>3 DEF Resume, TypeOK
      <3>2. owner' = Nil /\ claim' = 0 /\ ~leaseTimer'
        BY <2>1, <2>3 DEF Resume, ClearLease, leaseVars
      <3> QED BY <2>1, <2>3, <3>1, <3>2
              DEF Resume, DetachInv, DetachedIsClean, InFlight, connVars
    <2>4. ASSUME NEW o \in Operations, OpWake(o) \/ OpEnd(o) PROVE DetachInv'
      BY <2>1, <2>4 DEF OpWake, OpEnd, DetachInv, DetachedIsClean, InFlight, connVars,
         chainVars, leaseVars
    <2>5. CASE UNCHANGED vars
      BY <2>1, <2>5 DEF DetachInv, DetachedIsClean, InFlight, vars, connVars,
         chainVars, leaseVars
    <2> QED
      BY <1>1, <1>3, <2>1, <2>2, <2>3, <2>4, <2>5
         DEF Next, BridgeStep, ClientStep, Microtask, TimerStep, Reconnect, SocketFails,
         Disconnect, GraceExpires, Goodbye, SequenceGap, CommandResult, BridgeGrants,
         BridgeLeaseEnds, BrowserCommand, Claim, Renew, Release, Dispatch, Available,
         ReleaseRefused, RemoteInput, RemoteCheck, OpRequest, ApplySnapshot,
         LeaseExpires, LeaseLapses, CommandTimeout
  <1> QED BY <1>1, <1>2, <1>3

\* After detach nothing is pending, nobody holds the lease and no timer is armed,
\* although the queued commands and their callers still run to their end.
THEOREM DetachedStaysClean == Spec => []DetachedIsClean
  <1>1. BaseInv /\ DetachInv => DetachedIsClean
    BY DEF DetachInv, DetachedIsClean
  <1> QED BY BaseInit, BaseStep, DetachInit, DetachStep, <1>1, PTL DEF Spec

-----------------------------------------------------------------------------
(* Claims and the lease of the bridge *)

\* What the dashboard shows was granted by the bridge, which grants each claim
\* once.  While a granted claim is about to be shown, nothing else is, and the
\* bridge no longer holds a claim that it would replace.
GrantInv ==
    /\ held \in executed \cup {0} /\ claim \in executed \cup {0}
    /\ \A c, d \in Commands : st[c] = "resolved" /\ st[d] = "resolved" => c = d
    /\ \A c \in Commands :
         st[c] = "resolved" /\ info[c].kind = "claim"
             => c \in executed /\ (claim \in {0, c} \/ held # claim)

LEMMA GrantInit == Init => GrantInv
  BY DEF Init, GrantInv

LEMMA ChainResolved ==
    ASSUME NEW n \in 0..2, NEW i, Chain(n, i), NEW c \in Commands, st'[c] = "resolved"
    PROVE  st[c] = "resolved" /\ info'[c] = info[c]
  BY DEF Chain

\* Only a result of the bridge resolves a command.
LEMMA ResolvedStep ==
    ASSUME BaseInv, [Next]_vars, NEW c \in Commands, st'[c] = "resolved"
    PROVE  info'[c] = info[c] /\ (st[c] = "resolved" \/ CommandResult(c))
  <1> USE DEF BaseInv, TypeInv
  <1>1. CASE ChainedStep
    BY <1>1, ChainResolved DEF ChainedStep
  <1>2. CASE MovedStep
    <2>1. info'[c] = info[c]
      BY <1>2 DEF MovedStep
    <2>2. ASSUME NEW d \in Commands, CommandResult(d)
          PROVE  st[c] = "resolved" \/ CommandResult(c)
      BY <2>2 DEF CommandResult, TypeOK
    <2>3. ASSUME NEW d \in Commands, CommandTimeout(d) \/ Start(d) \/ Resume(d)
          PROVE  st[c] = "resolved"
      BY <2>3 DEF CommandTimeout, Start, Resume, TypeOK
    <2>4. CASE RejectPending
      BY <2>4, <2>1 DEF RejectPending
    <2>5. CASE UNCHANGED st
      BY <2>5, <2>1
    <2>6. ASSUME NEW n \in 0..2, NEW i, Chain(n, i) PROVE st[c] = "resolved"
      BY <2>6, ChainResolved
    <2>7. \/ UNCHANGED st \/ RejectPending
          \/ \E d \in Commands : CommandResult(d) \/ CommandTimeout(d) \/ Start(d) \/ Resume(d)
          \/ \E n \in 0..2 : \E i : Chain(n, i)
      <3>1. ASSUME NEW s \in Sessions, ApplySnapshot(s)
            PROVE  \E n \in 0..2 : \E i : Chain(n, i)
        BY <3>1 DEF ApplySnapshot
      <3>2. ASSUME NEW k, NEW cl, NEW l, Dispatch(k, cl, l)
            PROVE  \E n \in 0..2 : \E i : Chain(n, i)
        BY <3>2 DEF Dispatch
      <3>3. ASSUME NEW cl \in Clients, RemoteInput(cl)
            PROVE  \E n \in 0..2 : \E i : Chain(n, i)
        BY <3>3 DEF RemoteInput
      <3> QED
        BY <3>1, <3>2, <3>3
           DEF Next, BridgeStep, ClientStep, Microtask, TimerStep, Reconnect, SocketFails,
               Disconnect, DetachEffects, GraceExpires, Goodbye, SequenceGap, BridgeGrants,
               BridgeLeaseEnds, BrowserCommand, Claim, Renew, Release, ReleaseRefused,
               OpRequest, OpWake, OpEnd, LeaseExpires, LeaseLapses, vars, chainVars
    <2> QED BY <2>2, <2>3, <2>4, <2>5, <2>6, <2>7, <2>1
  <1> QED BY <1>1, <1>2, StepShape DEF ChainShape

\* The steps that grant or show a claim.
LEMMA GrantShape ==
    [Next]_vars =>
        \/ UNCHANGED <<held, executed>> /\ claim' \in {0, claim}
        \/ \E c \in Commands : CommandResult(c) \/ BridgeGrants(c) \/ Resume(c)
        \/ BridgeLeaseEnds
        \/ \E s \in Sessions : ApplySnapshot(s)
  BY DEF Next, BridgeStep, ClientStep, Microtask, TimerStep, Reconnect, SocketFails,
     Disconnect, DetachEffects, ClearLease, GraceExpires, Goodbye, SequenceGap,
     BrowserCommand, Claim, Renew, Release, Dispatch, ReleaseRefused, RemoteInput,
     OpRequest, Start, OpWake, OpEnd, LeaseExpires, LeaseLapses, CommandTimeout, vars,
     leaseVars, bridgeVars

LEMMA GrantStep == BaseInv /\ GrantInv /\ [Next]_vars => GrantInv'
  <1> SUFFICES ASSUME BaseInv, GrantInv, [Next]_vars PROVE GrantInv'
    OBVIOUS
  <1>0. TypeOK
    BY DEF BaseInv, TypeInv
  <1>1. ASSUME NEW c \in Commands, CommandResult(c) PROVE GrantInv'
    <2>1. \A d \in Commands : st'[d] = "resolved" => d = c
      BY <1>0, <1>1, DrainedSettled DEF CommandResult, TypeOK
    <2>2. info' = info /\ claim' = claim
      BY <1>1 DEF CommandResult, leaseVars
    <2>3. held' \in executed' \cup {0} /\ claim' \in executed' \cup {0}
      BY <1>1, <2>2 DEF CommandResult, GrantInv
    <2>4. st'[c] = "resolved" /\ info[c].kind = "claim" => c \in executed' /\ held' = c
      BY <1>0, <1>1 DEF CommandResult, TypeOK
    <2> QED BY <2>1, <2>2, <2>3, <2>4 DEF GrantInv
  <1>2. CASE ~\E c \in Commands : CommandResult(c)
    <2>0. \A c \in Commands : st'[c] = "resolved" => st[c] = "resolved" /\ info'[c] = info[c]
      BY <1>2, ResolvedStep
    <2>1. CASE UNCHANGED <<held, executed>> /\ claim' \in {0, claim}
      BY <2>0, <2>1 DEF GrantInv
    <2>2. ASSUME NEW c \in Commands, BridgeGrants(c) PROVE GrantInv'
      <3>1. held = 0 /\ held' = c /\ c \notin executed /\ executed' = executed \cup {c}
        BY <2>2 DEF BridgeGrants
      <3>2. claim' = claim \/ (Drained /\ claim' \in {0, c})
        BY <2>2 DEF BridgeGrants, Tell, ClearLease, leaseVars
      <3>3. CASE claim' = claim
        BY <2>0, <3>1, <3>3 DEF GrantInv
      <3>4. CASE Drained /\ claim' \in {0, c}
        BY <1>0, <2>0, <3>1, <3>4, DrainedSettled DEF GrantInv
      <3> QED BY <3>2, <3>3, <3>4
    <2>3. CASE BridgeLeaseEnds
      <3>1. held' = 0 /\ executed' = executed /\ claim' \in {0, claim}
        BY <2>3 DEF BridgeLeaseEnds, Tell, ClearLease, leaseVars
      <3> QED BY <2>0, <3>1 DEF GrantInv
    <2>4. ASSUME NEW s \in Sessions, ApplySnapshot(s) PROVE GrantInv'
      <3>1. Drained /\ claim' \in {0, held} /\ held' = held /\ executed' = executed
        BY <2>4 DEF ApplySnapshot, bridgeVars
      <3> QED BY <1>0, <2>0, <3>1, DrainedSettled DEF GrantInv
    <2>5. ASSUME NEW c \in Commands, Resume(c) PROVE GrantInv'
      <3>1. UNCHANGED <<info, held, executed>> /\ st' = [st EXCEPT ![c] = "done"]
        BY <2>5 DEF Resume, bridgeVars
      <3>2. \/ claim' \in {0, claim}
            \/ claim' = c /\ st[c] = "resolved" /\ info[c].kind = "claim"
        BY <2>5 DEF Resume, ResumeClaim, ResumeRenew, ClearLease, leaseVars
      <3>3. CASE claim' \in {0, claim}
        BY <2>0, <3>1, <3>3 DEF GrantInv
      <3>4. CASE claim' = c /\ st[c] = "resolved" /\ info[c].kind = "claim"
        <4>1. \A d \in Commands : st'[d] # "resolved"
          BY <1>0, <2>0, <3>1, <3>4 DEF GrantInv, TypeOK
        <4> QED BY <3>1, <3>4, <4>1 DEF GrantInv
      <3> QED BY <3>2, <3>3, <3>4
    <2> QED BY <1>2, <2>1, <2>2, <2>3, <2>4, <2>5, GrantShape
  <1> QED BY <1>1, <1>2

\* A claim that is shown gives way to another only when the bridge no longer
\* honours it, although it may be granted, told and resumed in any order.
THEOREM ClaimsAreNotDisplaced == Spec => ClaimNotDisplaced
  <1>1. BaseInv /\ GrantInv /\ [Next]_vars
          => [claim # 0 /\ claim' \notin {0, claim} => held # claim]_vars
    <2> SUFFICES ASSUME BaseInv, GrantInv, [Next]_vars, claim # 0,
                        claim' \notin {0, claim}
                 PROVE  held # claim
      OBVIOUS
    <2>1. CASE UNCHANGED <<held, executed>> /\ claim' \in {0, claim}
      BY <2>1
    <2>2. ASSUME NEW c \in Commands, CommandResult(c) PROVE FALSE
      BY <2>2 DEF CommandResult, leaseVars
    <2>3. ASSUME NEW c \in Commands, BridgeGrants(c) PROVE held # claim
      BY <2>3 DEF BridgeGrants
    <2>4. ASSUME NEW c \in Commands, Resume(c) PROVE held # claim
      <3>1. claim' = c /\ st[c] = "resolved" /\ info[c].kind = "claim"
        BY <2>4 DEF Resume, ResumeClaim, ResumeRenew, ClearLease, leaseVars
      <3> QED BY <3>1 DEF GrantInv
    <2>5. CASE BridgeLeaseEnds
      BY <2>5 DEF BridgeLeaseEnds, Tell, ClearLease, leaseVars
    <2>6. ASSUME NEW s \in Sessions, ApplySnapshot(s) PROVE held # claim
      BY <2>6 DEF ApplySnapshot
    <2> QED BY <2>1, <2>2, <2>3, <2>4, <2>5, <2>6, GrantShape
  <1> QED BY BaseInit, BaseStep, GrantInit, GrantStep, <1>1, PTL DEF Spec, ClaimNotDisplaced

=============================================================================
