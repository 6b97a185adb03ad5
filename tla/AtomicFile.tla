----------------------------- MODULE AtomicFile -----------------------------
(***************************************************************************)
(* What write/atomic.rs promises to a caller that keeps other writers      *)
(* away: a file whose whole image changes in one step, from the image a    *)
(* call started from to the image that call planned, and that no crash     *)
(* takes back once the call has reported success.                          *)
(***************************************************************************)
CONSTANTS Writers,          \* the callers
          Successor(_, _)   \* Successor(old, new): some call plans new from old

VARIABLES current,          \* the image (or its absence) a reader sees now
          stable,           \* the images a power loss may leave behind
          acked             \* the callers whose last call reported success

afVars == <<current, stable, acked>>

\* The file is published as one image; nothing is promised about a crash yet.
Commit ==
  \E new \in {current'} :
    /\ Successor(current, new)
    /\ stable' = stable \union {new}
    /\ UNCHANGED acked

\* A call reports success: from now on a crash cannot take its image back.
Acknowledge(w) ==
  /\ stable' = {current}
  /\ acked' = acked \union {w}
  /\ UNCHANGED current

\* A caller starts another call.
Restart(w) ==
  /\ acked' = acked \ {w}
  /\ UNCHANGED <<current, stable>>

\* The machine loses power: one of the stable images survives, whole.
Crash ==
  /\ current' \in stable
  /\ stable' = {current'}
  /\ acked' = {}

\* The calling process is killed: the file does not notice.
Kill ==
  /\ acked' = {}
  /\ UNCHANGED <<current, stable>>

Init ==
  /\ stable = {current}
  /\ acked = {}

Next ==
  \/ Commit
  \/ \E w \in Writers : Acknowledge(w) \/ Restart(w)
  \/ Crash
  \/ Kill

Spec == Init /\ [][Next]_afVars
=============================================================================
