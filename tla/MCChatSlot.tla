----------------------------- MODULE MCChatSlot -----------------------------
(* Model checking ChatSlot: ChatSlot.cfg, and ChatSlotKill.cfg for what the    *)
(* code says of its force-kill.  Finite by the module's own bounds.            *)
EXTENDS ChatSlot
=============================================================================
