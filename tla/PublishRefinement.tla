------------------------- MODULE PublishRefinement --------------------------
(***************************************************************************)
(* The staged publication of AtomicPublish implements the abstract file of *)
(* AtomicFile.                                                             *)
(***************************************************************************)
EXTENDS AtomicPublish

\* The target as the abstract file: its current image, the images a power loss
\* may leave, and the callers that were told of success.
ImageOf(d) == IF d[Target] = NIL THEN <<>> ELSE image[d[Target]]

Planned(old, new) ==
  \E w \in Writers :
    \/ \E p \in 1 .. MaxPages : new = WritePage(old, p, w)
    \/ old = <<>> /\ new = <<w>>

File == INSTANCE AtomicFile WITH
  current <- ImageOf(dir),
  stable <- {ImageOf(d) : d \in dirs},
  acked <- {w \in Writers : result[w] = "ok"},
  Successor <- Planned

\* With concurrent writers excluded, publication implements a file that changes
\* in one step from an image to a plan made from that very image, and whose
\* acknowledged changes survive power loss.
ImplementsAtomicFile == File!Spec
=============================================================================
