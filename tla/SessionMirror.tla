--------------------------- MODULE SessionMirror ---------------------------
(***************************************************************************)
(* What the live-session page promises its reader: the transcript it shows *)
(* is an uninterrupted stretch of one session's own log.  Entries are      *)
(* never skipped, repeated, reordered or taken from another session.  The  *)
(* copy may lag behind the log, and it may be lost and built again.        *)
(***************************************************************************)
EXTENDS Naturals, Sequences

CONSTANTS Sessions, Nil

VARIABLES
    log,        \* the number of entries that each session has
    copy        \* the copy, [sess, entries], or Nil

\* The entries first + 1, first + 2, ... of a session.
Stretch(s, first, n) == [i \in 1..n |-> <<s, first + i>>]

IsStretch(c) ==
    \E first \in 0..log[c.sess] : \E n \in 0..(log[c.sess] - first) :
        c.entries = Stretch(c.sess, first, n)

MirrorInit == log = [s \in Sessions |-> 0] /\ copy = Nil

Grow(s) == log' = [log EXCEPT ![s] = @ + 1] /\ UNCHANGED copy

Show   == UNCHANGED log /\ copy' # Nil /\ IsStretch(copy')
Forget == UNCHANGED log /\ copy' = Nil

MirrorNext == (\E s \in Sessions : Grow(s)) \/ Show \/ Forget

MirrorSpec == MirrorInit /\ [][MirrorNext]_<<log, copy>>
=============================================================================
