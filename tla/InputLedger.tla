---------------------------- MODULE InputLedger ----------------------------
(***************************************************************************)
(* What the remote-input path promises to the user of a phone: whatever is *)
(* retried, repeated after a reconnect, or interrupted by a crash, an      *)
(* input is taken at most once.  ReplayJournal implements this promise for *)
(* the reservations it grants and RemoteControl for the inputs it sends.   *)
(***************************************************************************)
EXTENDS Naturals

CONSTANT Inputs

VARIABLE taken      \* how often each input was taken

LedgerInit == taken = [i \in Inputs |-> 0]

Take(i) == taken[i] = 0 /\ taken' = [taken EXCEPT ![i] = 1]

LedgerNext == \E i \in Inputs : Take(i)

LedgerSpec == LedgerInit /\ [][LedgerNext]_taken
=============================================================================
