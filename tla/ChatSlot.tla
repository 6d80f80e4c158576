------------------------------ MODULE ChatSlot ------------------------------
(***************************************************************************)
(* A chat slot over both of its transports (routes/chat.ts): a slot is a   *)
(* child process (RpcSlot) or an in-process session (SdkSlot), and a       *)
(* change of transport, also by conductor-detach, deletes the one and lets *)
(* the other adopt the session file.  What the old one left behind -- a    *)
(* child that shuts down, a start under way, timers, prompts that wait --  *)
(* goes on beside the new one.                                             *)
(*                                                                         *)
(* A slot object of each transport is made at most once.                   *)
(***************************************************************************)
EXTENDS RpcSlot, SdkSlot

CONSTANT MaxStarts      \* bound: processes and sessions together

ASSUME ChatBounds == MaxStarts \in Nat

chatVars == <<rpcVars, sdkVars>>

Init == \/ InitRpc(TRUE) /\ InitSdk(FALSE)
        \/ InitRpc(FALSE) /\ InitSdk(TRUE)

\* Transport "rpc": the process is started by the next prompt, or at once for
\* conductor-detach.
ToRpc ==
    /\ DeleteSession /\ slot.born = 0
    /\ LET adopted == [slot EXCEPT !.listed = TRUE] IN
       \/ slot' = adopted /\ UNCHANGED life
       \/ Start(life, adopted)
    /\ UNCHANGED <<timer, call>>

\* Transport "sdk".
ToSdk ==
    /\ Delete /\ sdk.born = 0
    /\ sdk' = [sdk EXCEPT !.listed = TRUE]
    /\ UNCHANGED <<phase, settled, turn, tool>>

Next ==
    /\ \/ RpcNext /\ UNCHANGED sdkVars
       \/ SdkNext /\ UNCHANGED rpcVars
       \/ ToRpc
       \/ ToSdk
    /\ slot'.born + sdk'.born <= MaxStarts

Spec == Init /\ [][Next]_chatVars
FairSpec == Spec /\ RpcFairness /\ SdkFairness

-----------------------------------------------------------------------------
TypeOK == RpcTypeOK /\ SdkTypeOK

\* A prompt is never forgotten: it is sent, or answered, also when what it waits for is
\* killed, crashes, fails to start, or loses the slot to the other transport.
PromptReturns == RpcPromptReturns /\ SdkPromptReturns
=============================================================================
