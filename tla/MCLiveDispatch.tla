--------------------------- MODULE MCLiveDispatch ---------------------------
(***************************************************************************)
(* Small instances of LiveDispatch for TLC: LiveDispatch.cfg, for safety,  *)
(* and LiveDispatchLive.cfg.                                               *)
(*                                                                         *)
(* View is what tells two states of LiveDispatch.cfg apart.  It forgets    *)
(* only what no later step reads and what its properties can no longer     *)
(* turn on:                                                                *)
(*   - of a command that is done, Next reads whether it is a claim that    *)
(*     the bridge may still answer (BridgeGrants), and nothing else;       *)
(*   - of one that is settled and waits for its caller, Resume reads its   *)
(*     kind and whose claim it is;                                         *)
(*   - of the generation, only that of an input (RemoteCheck);             *)
(*   - of where a command was sent, only whether a claim was;              *)
(*   - a tail that is done is like the resolved promise;                   *)
(*   - of an operation that is over nothing is read.                       *)
(* InOrder, RemoteInputFenced and ExclusiveFence speak of such commands    *)
(* as well, but are broken, if they are, already in the state in which a   *)
(* command was started or an operation has woken.  All they read there is  *)
(* in the view: where an input was sent as long as it is in flight, and    *)
(* the connection of a command also when its start has failed.             *)
(***************************************************************************)
EXTENDS LiveDispatch, TLC

Symmetry == Permutations(Clients) \cup Permutations(Sessions)

MayBeGranted(c) == info[c].kind = "claim" /\ Sent(c) /\ c \notin executed

\* A promise that somebody may wait for, 0 when its continuations have run.
Promise(c) == IF c # 0 /\ st[c] = "done" THEN 0 ELSE c

\* What is read of a command that is not done.
Remembered(c) ==
    CASE st[c] \in {"resolved", "rejected"} ->
            <<info[c].kind, info[c].conn, IF info[c].kind = "claim" THEN info[c].by ELSE Nil>>
      [] st[c] = "inflight" ->
            <<[info[c] EXCEPT !.after = 0, !.gen = 0],
              IF info[c].kind = "input" THEN sentAt[c] ELSE Nil>>
      [] st[c] = "queued" ->
            [info[c] EXCEPT !.after = Promise(@), !.gen = IF info[c].kind = "input" THEN @ ELSE 0]
      [] OTHER -> Nil

View == <<connVars, leaseVars, held, issued, Promise(tail), st,
          [c \in Commands |-> <<Remembered(c), MayBeGranted(c)>>],
          [o \in Operations |-> IF op[o].phase \in {"waiting", "running"}
                                THEN [op[o] EXCEPT !.tail = Promise(@)] ELSE op[o].phase]>>
=============================================================================
