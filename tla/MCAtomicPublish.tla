-------------------------- MODULE MCAtomicPublish ---------------------------
(* AtomicPublish for TLC: inode numbers are interchangeable. *)
EXTENDS PublishRefinement, TLC

InodeSymmetry == Permutations(Inodes \ {FirstInode})
=============================================================================
