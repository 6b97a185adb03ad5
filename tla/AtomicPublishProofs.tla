------------------------- MODULE AtomicPublishProofs ------------------------
(***************************************************************************)
(* Proofs about AtomicPublish for every number of writers, inodes, names,  *)
(* calls and crashes: its types; that the target is intact at every instant *)
(* in every directory a power loss may leave; what a call may do to the    *)
(* files and names of the others; that publication implements AtomicFile.  *)
(***************************************************************************)
EXTENDS PublishRefinement, TLAPS

-----------------------------------------------------------------------------
(* The images the operators build. *)

\* Writing a page into an image, or into bytes that are none, gives an image.
LEMMA WritePageType ==
  ASSUME NEW img \in Images, NEW p \in Nat, NEW v \in Pages
  PROVE  WritePage(img, p, v) \in Seq(Pages)
<1>1. Size(img) \in Nat
  BY DEF Size, Readable, Images
<1>2. CASE Readable(img)
  <2>1. img \in Seq(Pages) /\ Size(img) = Len(img)
    BY <1>2 DEF Readable, Images, Size
  <2>2. \A i \in 1 .. Len(img) : img[i] \in Pages
    BY <2>1
  <2> DEFINE n == IF p > Size(img) THEN p ELSE Size(img)
  <2>3. n \in Nat
    BY <1>1
  <2>4. \A i \in 1 .. n : (IF i = p THEN v ELSE IF i <= Size(img) THEN img[i] ELSE Zero) \in Pages
    BY <2>1, <2>2, <2>3 DEF Pages
  <2> QED
    BY <2>3, <2>4 DEF WritePage
<1>3. CASE ~ Readable(img)
  <2>1. Size(img) = 0
    BY <1>3 DEF Size
  <2> DEFINE n == IF p > Size(img) THEN p ELSE Size(img)
  <2>2. n \in Nat
    BY <1>1
  <2>3. \A i \in 1 .. n : (IF i = p THEN v ELSE IF i <= Size(img) THEN img[i] ELSE Zero) \in Pages
    BY <2>1, <2>2 DEF Pages
  <2> QED
    BY <2>2, <2>3 DEF WritePage
<1> QED
  BY <1>2, <1>3

\* The prefix copy_original reads is an image when the file is long enough.
LEMMA PrefixType ==
  ASSUME NEW img \in Images, NEW n \in Nat, Size(img) >= n
  PROVE  Prefix(img, n) \in Seq(Pages)
<1>1. \A i \in 1 .. n : img[i] \in Pages
  <2>1. CASE Readable(img)
    BY <2>1 DEF Readable, Images, Size
  <2>2. CASE ~ Readable(img)
    BY <2>2 DEF Size
  <2> QED
    BY <2>1, <2>2
<1> QED
  BY <1>1 DEF Prefix

LEMMA SizeType ==
  ASSUME NEW img \in Images
  PROVE  Size(img) \in Nat
BY DEF Size, Readable, Images

-----------------------------------------------------------------------------
(* Types. *)

USE DEF Kinds, Modes, Unpublished, Published, Quiet, Stages, Results

LEMMA TypeInit == Init => TypeOK
<1> SUFFICES ASSUME Init PROVE TypeOK
  OBVIOUS
<1>0. PICK length \in InitialPages : InitWith(length)
  BY DEF Init
<1>1. FirstInode \in Inodes
  BY Distinct DEF FirstInode
<1>2. [p \in 1 .. length |-> Original] \in Seq(Pages)
  BY Bounds DEF Pages
<1>3. <<>> \in Seq(Pages)
  OBVIOUS
<1>4. Attempts \subseteq 0 .. MaxAttempts /\ 0 \in 0 .. MaxAttempts
  BY Bounds DEF Attempts
<1> QED
  BY <1>0, <1>1, <1>2, <1>3, <1>4
  DEF InitWith, TypeOK, TypeDirectory, TypeInodes, TypeCalls, TypeGhosts, Images, Names

\* What every stage of a call keeps typed; one step per action.
LEMMA TypeNext == TypeOK /\ [Next]_vars => TypeOK'
<1> SUFFICES ASSUME TypeOK, [Next]_vars PROVE TypeOK'
  OBVIOUS
<1> USE DEF fsVars, callVars, ghosts, counters, Return, Goto, Fail
<1>0. <<>> \in Seq(Pages) /\ Torn \in Images /\ Foreign \in Images /\ <<>> \in Images
  BY DEF Images
<1>a. TypeDirectory /\ TypeInodes /\ TypeCalls /\ TypeGhosts
  BY DEF TypeOK
<1>b. \A n \in Names, i \in Inodes \union {NIL} :
         [dir EXCEPT ![n] = i] \in [Names -> Inodes \union {NIL}]
  BY <1>a DEF TypeDirectory
<1>c. \A w \in Writers : attempt[w] < MaxAttempts => attempt[w] \in Names
  BY <1>a, Bounds DEF TypeCalls, Names, Attempts
<1>d. \A new \in [Names -> Inodes \union {NIL}] : SetDir(new) => TypeDirectory'
  BY <1>a DEF TypeDirectory, SetDir
<1>e. \A n, i : i \in Inodes \union {NIL} => [dir EXCEPT ![n] = i] \in [Names -> Inodes \union {NIL}]
  BY <1>a DEF TypeDirectory
<1>f. UNCHANGED <<dir, dirs>> => TypeDirectory'
  BY <1>a DEF TypeDirectory
<1>g. UNCHANGED <<image, synced, mode>> => TypeInodes'
  BY <1>a DEF TypeInodes
<1>h. UNCHANGED <<raced, planned, calls, crashes, substitutions>> => TypeGhosts'
  BY <1>a DEF TypeGhosts
<1>1. ASSUME NEW w \in Writers, OpenForUpdate(w) PROVE TypeOK'
  <2>1. PICK p \in 1 .. MaxPages :
           NewCall(w, "update", dir[Target], p, WritePage(image[dir[Target]], p, w))
    BY <1>1 DEF OpenForUpdate
  <2>2. dir[Target] \in Inodes
    BY <1>1, <1>a DEF OpenForUpdate, TypeDirectory, Names
  <2>3. WritePage(image[dir[Target]], p, w) \in Seq(Pages)
    BY <2>2, <1>a, Bounds, WritePageType DEF TypeInodes, Pages
  <2>4. TypeDirectory' /\ TypeInodes'
    BY <2>1, <1>f, <1>g DEF NewCall
  <2>5. TypeCalls'
    BY <2>1, <2>2, <2>3, <1>a, Bounds, SMTT(30) DEF NewCall, TypeCalls
  <2>6. TypeGhosts'
    BY <2>1, <2>3, <1>a DEF NewCall, TypeGhosts
  <2> QED
    BY <2>4, <2>5, <2>6 DEF TypeOK
<1>2. ASSUME NEW w \in Writers, OpenForCreate(w) PROVE TypeOK'
  <2>1. <<w>> \in Seq(Pages)
    BY DEF Pages
  <2>2. PICK img \in Seq(Pages) : NewCall(w, "create", NIL, 1, img)
    BY <1>2, <2>1 DEF OpenForCreate
  <2>3. TypeDirectory' /\ TypeInodes'
    BY <2>2, <1>f, <1>g DEF NewCall
  <2>4. TypeCalls'
    BY <2>2, <1>a, Bounds DEF NewCall, TypeCalls
  <2>5. TypeGhosts'
    BY <2>2, <1>a DEF NewCall, TypeGhosts
  <2> QED
    BY <2>3, <2>4, <2>5 DEF TypeOK
<1>3. ASSUME NEW w \in Writers, Stat(w) PROVE TypeOK'
  <2>1. dir[Target] # NIL => [len |-> Size(image[dir[Target]]), mode |-> mode[dir[Target]]]
                               \in [len : Nat, mode : Modes]
    BY <1>a, SizeType DEF TypeDirectory, TypeInodes, Names
  <2>2. TypeDirectory' /\ TypeInodes' /\ TypeGhosts'
    BY <1>3, <1>f, <1>g, <1>h DEF Stat
  <2>3. stat' \in [Writers -> [len : Nat, mode : Modes]]
    <3>1. CASE kind[w] = "update" /\ dir[Target] # NIL
      BY <1>3, <2>1, <3>1, <1>a, ZenonT(40) DEF Stat, TypeCalls
    <3>2. CASE ~ (kind[w] = "update" /\ dir[Target] # NIL)
      <4>1. stat' = stat
        BY <1>3, <3>2, <1>a DEF Stat, TypeCalls
      <4> QED
        BY <4>1, <1>a DEF TypeCalls
    <3> QED
      BY <3>1, <3>2
  <2>4. pc' \in [Writers -> Stages] /\ result' \in [Writers -> Results]
    BY <1>3, <1>a DEF Stat, TypeCalls
  <2>5. TypeCalls'
    BY <1>3, <2>3, <2>4, <1>a DEF Stat, TypeCalls
  <2> QED
    BY <2>2, <2>5 DEF TypeOK
<1>4. ASSUME NEW w \in Writers, ProbeTaken(w) PROVE TypeOK'
  <2>1. TypeDirectory' /\ TypeInodes' /\ TypeGhosts'
    BY <1>4, <1>f, <1>g, <1>h DEF ProbeTaken
  <2>2. TypeCalls'
    BY <1>4, <1>a, Bounds DEF ProbeTaken, TypeCalls
  <2> QED
    BY <2>1, <2>2 DEF TypeOK
<1>5. ASSUME NEW w \in Writers, ProbeExhausted(w) PROVE TypeOK'
  <2>1. TypeDirectory' /\ TypeInodes' /\ TypeGhosts'
    BY <1>5, <1>f, <1>g, <1>h DEF ProbeExhausted
  <2>2. TypeCalls'
    BY <1>5, <1>a DEF ProbeExhausted, TypeCalls
  <2> QED
    BY <2>1, <2>2 DEF TypeOK
<1>6. ASSUME NEW w \in Writers, CreatePrivate(w) PROVE TypeOK'
  <2>1. PICK i \in Inodes :
          /\ SetDir([dir EXCEPT ![attempt[w]] = i])
          /\ image' = [image EXCEPT ![i] = <<>>]
          /\ synced' = [synced EXCEPT ![i] = FALSE]
          /\ mode' = [mode EXCEPT ![i] = "default"]
          /\ mine' = [mine EXCEPT ![w] = i]
    BY <1>6 DEF CreatePrivate
  <2>2. TypeDirectory'
    BY <2>1, <1>d, <1>e
  <2>3. TypeInodes'
    BY <2>1, <1>a, <1>0 DEF TypeInodes
  <2>4. TypeCalls'
    BY <1>6, <2>1, <1>a DEF CreatePrivate, TypeCalls
  <2>5. TypeGhosts'
    BY <1>6, <1>h DEF CreatePrivate
  <2> QED
    BY <2>2, <2>3, <2>4, <2>5 DEF TypeOK
<1>7. ASSUME NEW w \in Writers, CaptureFails(w) PROVE TypeOK'
  <2>1. PICK i \in Inodes :
          /\ dir' = [dir EXCEPT ![attempt[w]] = i] \/ dir' = dir
          /\ dirs' = dirs \union {[dir EXCEPT ![attempt[w]] = i], dir'}
          /\ image' = [image EXCEPT ![i] = <<>>]
          /\ synced' = [synced EXCEPT ![i] = FALSE]
          /\ mode' = [mode EXCEPT ![i] = "default"]
    BY <1>7 DEF CaptureFails
  <2>2. TypeDirectory'
    BY <2>1, <1>e, <1>a DEF TypeDirectory
  <2>3. TypeInodes'
    BY <2>1, <1>a, <1>0 DEF TypeInodes
  <2>4. TypeCalls'
    BY <1>7, <1>a DEF CaptureFails, TypeCalls
  <2>5. TypeGhosts'
    BY <1>7, <1>h DEF CaptureFails
  <2> QED
    BY <2>2, <2>3, <2>4, <2>5 DEF TypeOK
<1>8. ASSUME NEW w \in Writers, Copy(w) PROVE TypeOK'
  <2>1. CopySource(w) # NIL => CopySource(w) \in Inodes
    BY <1>a DEF CopySource, TypeDirectory, Names
  <2>2. CopySource(w) # NIL /\ Size(image[CopySource(w)]) >= stat[w].len
          => Prefix(image[CopySource(w)], stat[w].len) \in Images
    BY <2>1, <1>a, PrefixType DEF TypeInodes, TypeCalls, Images
  <2>3. TypeDirectory' /\ TypeGhosts'
    BY <1>8, <1>f, <1>h DEF Copy
  <2>4. TypeInodes'
    BY <1>8, <1>0, <2>2, <1>a DEF Copy, TypeInodes
  <2>5. TypeCalls'
    BY <1>8, <1>a DEF Copy, TypeCalls
  <2> QED
    BY <2>3, <2>4, <2>5 DEF TypeOK
<1>9. ASSUME NEW w \in Writers, Mutation(w) PROVE TypeOK'
  <2>1. \A img \in Images : WritePage(img, page[w], w) \in Images
    BY <1>a, WritePageType DEF TypeCalls, Pages, Images
  <2>2. want[w] \in Images
    BY <1>a DEF TypeCalls, Images
  <2>3. TypeDirectory' /\ TypeGhosts'
    BY <1>9, <1>f, <1>h DEF Mutation
  <2>4. TypeInodes'
    BY <1>9, <2>1, <2>2, <1>a DEF Mutation, TypeInodes
  <2>5. TypeCalls'
    BY <1>9, <1>a DEF Mutation, TypeCalls
  <2> QED
    BY <2>3, <2>4, <2>5 DEF TypeOK
<1>10. ASSUME NEW w \in Writers, Metadata(w) PROVE TypeOK'
  <2>1. stat[w].mode \in Modes
    BY <1>a DEF TypeCalls
  <2>2. TypeDirectory' /\ TypeGhosts'
    BY <1>10, <1>f, <1>h DEF Metadata
  <2>3. TypeInodes'
    BY <1>10, <2>1, <1>a DEF Metadata, TypeInodes
  <2>4. TypeCalls'
    BY <1>10, <1>a DEF Metadata, TypeCalls
  <2> QED
    BY <2>2, <2>3, <2>4 DEF TypeOK
<1>11. ASSUME NEW w \in Writers, Validation(w) PROVE TypeOK'
  <2>1. TypeDirectory' /\ TypeInodes' /\ TypeGhosts'
    BY <1>11, <1>f, <1>g, <1>h DEF Validation
  <2>2. TypeCalls'
    BY <1>11, <1>a DEF Validation, TypeCalls
  <2> QED
    BY <2>1, <2>2 DEF TypeOK
<1>12. ASSUME NEW w \in Writers, FileSync(w) PROVE TypeOK'
  <2>1. TypeDirectory' /\ TypeGhosts'
    BY <1>12, <1>f, <1>h DEF FileSync
  <2>2. TypeInodes'
    BY <1>12, <1>a DEF FileSync, TypeInodes
  <2>3. TypeCalls'
    BY <1>12, <1>a DEF FileSync, TypeCalls
  <2> QED
    BY <2>1, <2>2, <2>3 DEF TypeOK
<1>13. ASSUME NEW w \in Writers, Publish(w) PROVE TypeOK'
  <2>1. mine[w] \in Inodes \union {NIL}
    BY <1>a DEF TypeCalls
  <2>2. TypeInodes'
    BY <1>13, <1>g DEF Publish
  <2>3. TypeCalls'
    BY <1>13, <1>a DEF Publish, TypeCalls
  <2>4. raced' \in [Writers -> {"no", "length", "copy"}]
    BY <1>13, <1>a DEF Publish, Overtake, TypeGhosts
  <2>5. TypeGhosts'
    BY <1>13, <2>4, <1>a DEF Publish, TypeGhosts
  <2>6. TypeDirectory'
    <3>1. CASE VerifyPathIdentity(w) /\ MayPublish(w)
      <4>1. dir[attempt[w]] = mine[w]
        BY <3>1 DEF VerifyPathIdentity
      <4>2. [dir EXCEPT ![Target] = mine[w]] \in [Names -> Inodes \union {NIL}]
        BY <2>1, <1>e
      <4>3. [dir EXCEPT ![Target] = mine[w], ![attempt[w]] = NIL]
              \in [Names -> Inodes \union {NIL}]
        BY <2>1, <1>a DEF TypeDirectory
      <4> QED
        BY <1>13, <3>1, <4>1, <4>2, <4>3, <1>d DEF Publish
    <3>2. CASE ~ (VerifyPathIdentity(w) /\ MayPublish(w))
      BY <1>13, <3>2, <1>f DEF Publish
    <3> QED
      BY <3>1, <3>2
  <2> QED
    BY <2>2, <2>3, <2>5, <2>6 DEF TypeOK
<1>14. ASSUME NEW w \in Writers, UnlinkPrivate(w) PROVE TypeOK'
  <2>1. TypeInodes' /\ TypeGhosts'
    BY <1>14, <1>g, <1>h DEF UnlinkPrivate
  <2>2. TypeDirectory'
    BY <1>14, <1>d, <1>e, <1>f DEF UnlinkPrivate
  <2>3. TypeCalls'
    BY <1>14, <1>a DEF UnlinkPrivate, TypeCalls
  <2> QED
    BY <2>1, <2>2, <2>3 DEF TypeOK
<1>15. ASSUME NEW w \in Writers, DirectorySync(w) PROVE TypeOK'
  <2>1. TypeInodes' /\ TypeGhosts'
    BY <1>15, <1>g, <1>h DEF DirectorySync
  <2>2. TypeDirectory'
    BY <1>15, <1>a DEF DirectorySync, TypeDirectory
  <2>3. TypeCalls'
    BY <1>15, <1>a DEF DirectorySync, TypeCalls
  <2> QED
    BY <2>1, <2>2, <2>3 DEF TypeOK
<1>16. ASSUME NEW w \in Writers, StageFails(w) PROVE TypeOK'
  <2>1. TypeDirectory' /\ TypeGhosts'
    BY <1>16, <1>f, <1>h DEF StageFails
  <2>2. TypeInodes'
    BY <1>16, <1>a, <1>0 DEF StageFails, TypeInodes
  <2>3. TypeCalls'
    BY <1>16, <1>a DEF StageFails, TypeCalls
  <2> QED
    BY <2>1, <2>2, <2>3 DEF TypeOK
<1>17. ASSUME NEW w \in Writers, Cleanup(w) PROVE TypeOK'
  <2>1. TypeInodes' /\ TypeGhosts'
    BY <1>17, <1>g, <1>h DEF Cleanup
  <2>2. TypeDirectory'
    BY <1>17, <1>d, <1>e, <1>f DEF Cleanup
  <2>3. TypeCalls'
    BY <1>17, <1>a DEF Cleanup, TypeCalls
  <2> QED
    BY <2>1, <2>2, <2>3 DEF TypeOK
<1>18. ASSUME NEW w \in Writers, DropPrivate(w) PROVE TypeOK'
  <2>1. TypeInodes' /\ TypeGhosts'
    BY <1>18, <1>g, <1>h DEF DropPrivate
  <2>2. TypeDirectory'
    BY <1>18, <1>d, <1>e, <1>f DEF DropPrivate
  <2>3. TypeCalls'
    BY <1>18, <1>a DEF DropPrivate, TypeCalls
  <2> QED
    BY <2>1, <2>2, <2>3 DEF TypeOK
<1>19. ASSUME NEW w \in Writers, HookSubstitutes(w) PROVE TypeOK'
  <2>1. TypeDirectory'
    BY <1>19, <1>d, <1>e DEF HookSubstitutes
  <2>2. TypeInodes'
    BY <1>19, <1>a, <1>0 DEF HookSubstitutes, TypeInodes
  <2>3. TypeCalls'
    BY <1>19, <1>a DEF HookSubstitutes, TypeCalls
  <2>4. TypeGhosts'
    BY <1>19, <1>a DEF HookSubstitutes, TypeGhosts
  <2> QED
    BY <2>1, <2>2, <2>3, <2>4 DEF TypeOK
<1>20. CASE ProcessKilled
  <2>1. TypeDirectory' /\ TypeInodes'
    BY <1>20, <1>f, <1>g DEF ProcessKilled
  <2>2. TypeCalls' /\ TypeGhosts'
    BY <1>20, <1>a DEF ProcessKilled, StopCalls, TypeCalls, TypeGhosts
  <2> QED
    BY <2>1, <2>2 DEF TypeOK
<1>21. CASE PowerLoss
  <2>1. TypeDirectory'
    BY <1>21, <1>a DEF PowerLoss, TypeDirectory
  <2>2. TypeInodes'
    BY <1>21, <1>a, <1>0 DEF PowerLoss, TypeInodes
  <2>3. TypeCalls' /\ TypeGhosts'
    BY <1>21, <1>a DEF PowerLoss, StopCalls, TypeCalls, TypeGhosts
  <2> QED
    BY <2>1, <2>2, <2>3 DEF TypeOK
<1>22. CASE UNCHANGED vars
  <2>1. TypeDirectory' /\ TypeInodes' /\ TypeGhosts'
    BY <1>22, <1>f, <1>g, <1>h DEF vars
  <2>2. TypeCalls'
    BY <1>22, <1>a DEF vars, TypeCalls
  <2> QED
    BY <2>1, <2>2 DEF TypeOK
<1> QED
  BY <1>1, <1>2, <1>3, <1>4, <1>5, <1>6, <1>7, <1>8, <1>9, <1>10, <1>11, <1>12,
     <1>13, <1>14, <1>15, <1>16, <1>17, <1>18, <1>19, <1>20, <1>21, <1>22
     DEF Next, Call

\* Every reachable state of the publication protocol is well typed.
THEOREM TypeCorrect == Spec => []TypeOK
<1>1. Init => TypeOK
  BY TypeInit
<1>2. TypeOK /\ [Next]_vars => TypeOK'
  BY TypeNext
<1> QED
  BY <1>1, <1>2, PTL DEF Spec

-----------------------------------------------------------------------------
(* The target. *)

\* A call holds a private file of its own from its creation until publication
\* or Drop: no directory that may survive publishes it, and no other call in
\* progress holds it.
Holding == Unpublished \union {"cleanup", "drop"}

Ownership ==
  \A w \in Writers : pc[w] \in Holding =>
    /\ mine[w] \in Inodes
    /\ \A d \in dirs : d[Target] # mine[w]
    /\ \A v \in Writers : v # w /\ pc[v] \notin Quiet => mine[v] # mine[w]

\* The private name of a call that has one is a name CreatePrivate tried.
NameHeld == \A w \in Writers : pc[w] \in Holding \union {"unlink"} => attempt[w] \in Attempts

\* The image a call is after has been recorded as planned.
WantPlanned == \A w \in Writers : pc[w] \notin Quiet => want[w] \in planned

\* A validated private file that still has its name holds a planned image, and
\* once past FileSync it is durable.  Without the name nothing is known (the
\* validator may have read a substitute), and then Publish refuses.
Ready ==
  \A w \in Writers :
    pc[w] \in {"filesync", "publish"} /\ dir[attempt[w]] = mine[w] =>
      /\ image[mine[w]] \in planned
      /\ pc[w] = "publish" => synced[mine[w]]

IInv ==
  /\ TypeOK
  /\ dir \in dirs
  /\ Ownership
  /\ NameHeld
  /\ WantPlanned
  /\ Ready
  /\ TargetIntact

LEMMA IInvInit == Init => IInv
<1> SUFFICES ASSUME Init PROVE IInv
  OBVIOUS
<1>1. TypeOK
  BY TypeInit
<1>2. FirstInode \in Inodes
  BY Distinct DEF FirstInode
<1> QED
  BY <1>1, <1>2 DEF Init, InitWith, IInv, Ownership, NameHeld, WantPlanned, Ready, TargetIntact, Names, Holding

\* A step that creates no private file, starts no call and publishes nothing new
\* leaves the private files private.
LEMMA OwnershipKept ==
  ASSUME Ownership, mine' = mine,
         \A d \in dirs' : \E e \in dirs : d[Target] = e[Target],
         \A v \in Writers : /\ pc'[v] \in Holding => pc[v] \in Holding
                            /\ pc'[v] \notin Quiet => pc[v] \notin Quiet
  PROVE  Ownership'
BY DEF Ownership

\* A step that writes no validated private file and gives no private name back
\* leaves the validated files ready.
LEMMA ReadyKept ==
  ASSUME Ready, planned' = planned,
         \A v \in Writers : pc'[v] \in {"filesync", "publish"} =>
           /\ pc'[v] = pc[v] /\ mine'[v] = mine[v] /\ attempt'[v] = attempt[v]
           /\ image'[mine[v]] = image[mine[v]] /\ synced'[mine[v]] = synced[mine[v]]
           /\ dir'[attempt[v]] = mine[v] => dir[attempt[v]] = mine[v]
  PROVE  Ready'
BY DEF Ready

LEMMA IInvNext == IInv /\ [Next]_vars => IInv'
<1> SUFFICES ASSUME IInv, [Next]_vars PROVE IInv'
  OBVIOUS
<1> USE DEF fsVars, callVars, ghosts, counters, Return, Goto, Fail, SetDir, Holding
<1>a. TypeOK'
  BY TypeNext DEF IInv
<1>b. TypeDirectory /\ TypeInodes /\ TypeCalls
  BY DEF IInv, TypeOK
<1>c. dir \in dirs /\ Ownership /\ NameHeld /\ WantPlanned /\ Ready /\ TargetIntact
  BY DEF IInv
<1>d. Target \in Names /\ \A n \in Attempts : n \in Names /\ n # Target
  BY Distinct DEF Names
<1>e. MaxAttempts \in Nat /\ \A n \in 0 .. MaxAttempts : n < MaxAttempts => n \in Attempts
  BY Bounds DEF Attempts
<1>f. \A n \in Attempts, i \in Inodes \union {NIL} : /\ [dir EXCEPT ![n] = i][Target] = dir[Target]
                             /\ [dir EXCEPT ![n] = i][n] = i
                             /\ \A m \in Attempts : m # n => [dir EXCEPT ![n] = i][m] = dir[m]
  BY <1>b, <1>d DEF TypeDirectory
<1>g. \A n \in Attempts, i \in Inodes \union {NIL} : SetDir([dir EXCEPT ![n] = i])
        => \A d \in dirs' : \E e \in dirs : d[Target] = e[Target]
  <2> TAKE n \in Attempts, i \in Inodes \union {NIL}
  <2> HAVE SetDir([dir EXCEPT ![n] = i])
  <2> DEFINE new == [dir EXCEPT ![n] = i]
  <2>1. new[Target] = dir[Target]
    BY <1>f
  <2>2. dirs' = dirs \union {new}
    OBVIOUS
  <2> HIDE DEF new
  <2> QED
    BY <2>1, <2>2, <1>c
<1>1. ASSUME NEW w \in Writers, OpenForUpdate(w) PROVE IInv'
  <2>1. (dir \in dirs)' /\ NameHeld'
    BY <1>1, <1>b, <1>c, <1>d, <1>e DEF OpenForUpdate, NewCall, NameHeld, TypeCalls
  <2>2. Ownership'
    BY <1>1, <1>b, <1>c, <1>d, <1>e, Distinct, SMTT(30) DEF OpenForUpdate, NewCall, Ownership, NameHeld, TypeDirectory, TypeInodes, TypeCalls
  <2>3. WantPlanned'
    BY <1>1, <1>b, <1>c, <1>d, <1>e DEF OpenForUpdate, NewCall, WantPlanned, TypeCalls
  <2>4. Ready'
    BY <1>1, <1>b, <1>c, <1>d, <1>e DEF OpenForUpdate, NewCall, Ready, Ownership, NameHeld, WantPlanned, TypeDirectory, TypeInodes, TypeCalls
  <2>5. TargetIntact'
    BY <1>1, <1>b, <1>c, <1>d, <1>e, <1>f DEF OpenForUpdate, NewCall, TargetIntact, Ready, NameHeld, Ownership, TypeDirectory, TypeInodes, TypeCalls
  <2> QED
    BY <1>a, <2>1, <2>2, <2>3, <2>4, <2>5 DEF IInv
<1>2. ASSUME NEW w \in Writers, OpenForCreate(w) PROVE IInv'
  <2>1. (dir \in dirs)' /\ NameHeld'
    BY <1>2, <1>b, <1>c, <1>d, <1>e DEF OpenForCreate, NewCall, NameHeld, TypeCalls
  <2>2. Ownership'
    BY <1>2, <1>b, <1>c, <1>d, <1>e, Distinct DEF OpenForCreate, NewCall, Ownership, NameHeld, TypeDirectory, TypeInodes, TypeCalls
  <2>3. WantPlanned'
    BY <1>2, <1>b, <1>c, <1>d, <1>e DEF OpenForCreate, NewCall, WantPlanned, TypeCalls
  <2>4. Ready'
    BY <1>2, <1>b, <1>c, <1>d, <1>e DEF OpenForCreate, NewCall, Ready, Ownership, NameHeld, WantPlanned, TypeDirectory, TypeInodes, TypeCalls
  <2>5. TargetIntact'
    BY <1>2, <1>b, <1>c, <1>d, <1>e, <1>f DEF OpenForCreate, NewCall, TargetIntact, Ready, NameHeld, Ownership, TypeDirectory, TypeInodes, TypeCalls
  <2> QED
    BY <1>a, <2>1, <2>2, <2>3, <2>4, <2>5 DEF IInv
<1>3. ASSUME NEW w \in Writers, Stat(w) PROVE IInv'
  <2>1. (dir \in dirs)' /\ NameHeld'
    BY <1>3, <1>b, <1>c, <1>d, <1>e DEF Stat, NameHeld, TypeCalls
  <2>2. Ownership'
    <3>1. \A v \in Writers : /\ pc'[v] \in Holding => pc[v] \in Holding
                             /\ pc'[v] \notin Quiet => pc[v] \notin Quiet
      BY <1>3, <1>b DEF Stat, TypeCalls
    <3>2. mine' = mine
      BY <1>3 DEF Stat
    <3>3. \A d \in dirs' : \E e \in dirs : d[Target] = e[Target]
      BY <1>3, <1>b, <1>c, <1>d, <1>f DEF Stat, NameHeld
    <3> QED
      BY <1>c, <3>1, <3>2, <3>3, OwnershipKept
  <2>3. WantPlanned'
    BY <1>3, <1>b, <1>c, <1>d, <1>e DEF Stat, WantPlanned, TypeCalls
  <2>4. Ready'
    BY <1>3, <1>b, <1>c, <1>d, <1>e DEF Stat, Ready, Ownership, NameHeld, WantPlanned, TypeDirectory, TypeInodes, TypeCalls
  <2>5. TargetIntact'
    BY <1>3, <1>b, <1>c, <1>d, <1>e, <1>f DEF Stat, TargetIntact, Ready, NameHeld, Ownership, TypeDirectory, TypeInodes, TypeCalls
  <2> QED
    BY <1>a, <2>1, <2>2, <2>3, <2>4, <2>5 DEF IInv
<1>4. ASSUME NEW w \in Writers, ProbeTaken(w) PROVE IInv'
  <2>1. (dir \in dirs)' /\ NameHeld'
    BY <1>4, <1>b, <1>c, <1>d, <1>e DEF ProbeTaken, NameHeld, TypeCalls
  <2>2. Ownership'
    BY <1>4, <1>b, <1>c, <1>d, <1>e, Distinct DEF ProbeTaken, Ownership, NameHeld, TypeDirectory, TypeInodes, TypeCalls
  <2>3. WantPlanned'
    BY <1>4, <1>b, <1>c, <1>d, <1>e DEF ProbeTaken, WantPlanned, TypeCalls
  <2>4. Ready'
    BY <1>4, <1>b, <1>c, <1>d, <1>e DEF ProbeTaken, Ready, Ownership, NameHeld, WantPlanned, TypeDirectory, TypeInodes, TypeCalls
  <2>5. TargetIntact'
    BY <1>4, <1>b, <1>c, <1>d, <1>e, <1>f DEF ProbeTaken, TargetIntact, Ready, NameHeld, Ownership, TypeDirectory, TypeInodes, TypeCalls
  <2> QED
    BY <1>a, <2>1, <2>2, <2>3, <2>4, <2>5 DEF IInv
<1>5. ASSUME NEW w \in Writers, ProbeExhausted(w) PROVE IInv'
  <2>1. (dir \in dirs)' /\ NameHeld'
    BY <1>5, <1>b, <1>c, <1>d, <1>e DEF ProbeExhausted, NameHeld, TypeCalls
  <2>2. Ownership'
    BY <1>5, <1>b, <1>c, <1>d, <1>e, Distinct DEF ProbeExhausted, Ownership, NameHeld, TypeDirectory, TypeInodes, TypeCalls
  <2>3. WantPlanned'
    BY <1>5, <1>b, <1>c, <1>d, <1>e DEF ProbeExhausted, WantPlanned, TypeCalls
  <2>4. Ready'
    BY <1>5, <1>b, <1>c, <1>d, <1>e DEF ProbeExhausted, Ready, Ownership, NameHeld, WantPlanned, TypeDirectory, TypeInodes, TypeCalls
  <2>5. TargetIntact'
    BY <1>5, <1>b, <1>c, <1>d, <1>e, <1>f DEF ProbeExhausted, TargetIntact, Ready, NameHeld, Ownership, TypeDirectory, TypeInodes, TypeCalls
  <2> QED
    BY <1>a, <2>1, <2>2, <2>3, <2>4, <2>5 DEF IInv
<1>6. ASSUME NEW w \in Writers, CreatePrivate(w) PROVE IInv'
  <2>1. (dir \in dirs)' /\ NameHeld'
    BY <1>6, <1>b, <1>c, <1>d, <1>e DEF CreatePrivate, NameHeld, TypeCalls
  <2>2. Ownership'
    <3>1. PICK i \in Inodes : /\ Free(i)
                              /\ SetDir([dir EXCEPT ![attempt[w]] = i])
                              /\ mine' = [mine EXCEPT ![w] = i]
      BY <1>6 DEF CreatePrivate
    <3>2. attempt[w] \in Attempts /\ pc[w] = "private"
      BY <1>6, <1>b, <1>e DEF CreatePrivate, TypeCalls
    <3>3. \A d \in dirs' : \E e \in dirs : d[Target] = e[Target]
      BY <3>1, <3>2, <1>g
    <3>4. \A v \in Writers : v # w => pc'[v] = pc[v] /\ mine'[v] = mine[v]
      BY <1>6, <3>1, <1>b DEF CreatePrivate, TypeCalls
    <3>5. mine'[w] = i
      BY <3>1, <1>b DEF TypeCalls
    <3>6. \A d \in dirs : d[Target] # i
      BY <3>1, <1>d DEF Free
    <3>7. \A v \in Writers : pc[v] \notin Quiet => mine[v] # i
      BY <3>1 DEF Free
    <3> QED
      BY <3>2, <3>3, <3>4, <3>5, <3>6, <3>7, <1>c DEF Ownership
  <2>3. WantPlanned'
    BY <1>6, <1>b, <1>c, <1>d, <1>e DEF CreatePrivate, WantPlanned, TypeCalls
  <2>4. Ready'
    <3>1. \A v \in Writers : pc'[v] \in {"filesync", "publish"} => pc'[v] = pc[v]
      BY <1>6, <1>b DEF CreatePrivate, TypeCalls
    <3>2. /\ planned' = planned
          /\ \A v \in Writers : pc'[v] \in {"filesync", "publish"} =>
               mine'[v] = mine[v] /\ attempt'[v] = attempt[v]
      BY <1>6, <1>b DEF CreatePrivate, TypeCalls
    <3>3. \A v \in Writers : pc'[v] \in {"filesync", "publish"} =>
            image'[mine[v]] = image[mine[v]] /\ synced'[mine[v]] = synced[mine[v]]
      <4>1. ASSUME NEW i \in Inodes, Free(i),
                   image' = [image EXCEPT ![i] = <<>>],
                   synced' = [synced EXCEPT ![i] = FALSE],
                   NEW v \in Writers, pc'[v] \in {"filesync", "publish"}
            PROVE  image'[mine[v]] = image[mine[v]] /\ synced'[mine[v]] = synced[mine[v]]
        <5>1. mine[v] # i /\ mine[v] \in Inodes
          BY <4>1, <3>1, <1>c DEF Free, Ownership
        <5> QED
          BY <4>1, <5>1, <1>b DEF TypeInodes
      <4> QED
        BY <1>6, <4>1 DEF CreatePrivate
    <3>4. \A v \in Writers : pc'[v] \in {"filesync", "publish"} =>
            (dir'[attempt[v]] = mine[v] => dir[attempt[v]] = mine[v])
      <4>1. attempt[w] \in Attempts
        BY <1>6, <1>b, <1>e DEF CreatePrivate, TypeCalls
      <4>2. CASE dir' = dir
        BY <4>2
      <4>3. CASE dir' = [dir EXCEPT ![attempt[w]] = NIL]
        BY <4>1, <4>3, <1>c, <1>f, <3>1, Distinct DEF NameHeld, Ownership
      <4>4. ASSUME NEW i \in Inodes, Free(i), dir' = [dir EXCEPT ![attempt[w]] = i]
            PROVE \A v \in Writers : pc'[v] \in {"filesync", "publish"} =>
                    (dir'[attempt[v]] = mine[v] => dir[attempt[v]] = mine[v])
        BY <4>1, <4>4, <1>c, <1>f, <3>1 DEF NameHeld, Free
      <4> QED
        BY <1>6, <4>2, <4>3, <4>4 DEF CreatePrivate
    <3> QED
      BY <1>c, <3>1, <3>2, <3>3, <3>4, ReadyKept
  <2>5. TargetIntact'
    BY <1>6, <1>b, <1>c, <1>d, <1>e, <1>f DEF CreatePrivate, Free, TargetIntact, Ready, NameHeld, Ownership, TypeDirectory, TypeInodes, TypeCalls
  <2> QED
    BY <1>a, <2>1, <2>2, <2>3, <2>4, <2>5 DEF IInv
<1>7. ASSUME NEW w \in Writers, CaptureFails(w) PROVE IInv'
  <2>1. (dir \in dirs)' /\ NameHeld'
    BY <1>7, <1>b, <1>c, <1>d, <1>e DEF CaptureFails, NameHeld, TypeCalls
  <2>2. Ownership'
    BY <1>7, <1>b, <1>c, <1>d, <1>e, Distinct DEF CaptureFails, Free, Ownership, NameHeld, TypeDirectory, TypeInodes, TypeCalls
  <2>3. WantPlanned'
    BY <1>7, <1>b, <1>c, <1>d, <1>e DEF CaptureFails, WantPlanned, TypeCalls
  <2>4. Ready'
    <3>1. \A v \in Writers : pc'[v] \in {"filesync", "publish"} => pc'[v] = pc[v]
      BY <1>7, <1>b DEF CaptureFails, TypeCalls
    <3>2. /\ planned' = planned
          /\ \A v \in Writers : pc'[v] \in {"filesync", "publish"} =>
               mine'[v] = mine[v] /\ attempt'[v] = attempt[v]
      BY <1>7, <1>b DEF CaptureFails, TypeCalls
    <3>3. \A v \in Writers : pc'[v] \in {"filesync", "publish"} =>
            image'[mine[v]] = image[mine[v]] /\ synced'[mine[v]] = synced[mine[v]]
      <4>1. ASSUME NEW i \in Inodes, Free(i),
                   image' = [image EXCEPT ![i] = <<>>],
                   synced' = [synced EXCEPT ![i] = FALSE],
                   NEW v \in Writers, pc'[v] \in {"filesync", "publish"}
            PROVE  image'[mine[v]] = image[mine[v]] /\ synced'[mine[v]] = synced[mine[v]]
        <5>1. mine[v] # i /\ mine[v] \in Inodes
          BY <4>1, <3>1, <1>c DEF Free, Ownership
        <5> QED
          BY <4>1, <5>1, <1>b DEF TypeInodes
      <4> QED
        BY <1>7, <4>1 DEF CaptureFails
    <3>4. \A v \in Writers : pc'[v] \in {"filesync", "publish"} =>
            (dir'[attempt[v]] = mine[v] => dir[attempt[v]] = mine[v])
      <4>1. attempt[w] \in Attempts
        BY <1>7, <1>b, <1>e DEF CaptureFails, TypeCalls
      <4>2. CASE dir' = dir
        BY <4>2
      <4>3. CASE dir' = [dir EXCEPT ![attempt[w]] = NIL]
        BY <4>1, <4>3, <1>c, <1>f, <3>1, Distinct DEF NameHeld, Ownership
      <4>4. ASSUME NEW i \in Inodes, Free(i), dir' = [dir EXCEPT ![attempt[w]] = i]
            PROVE \A v \in Writers : pc'[v] \in {"filesync", "publish"} =>
                    (dir'[attempt[v]] = mine[v] => dir[attempt[v]] = mine[v])
        BY <4>1, <4>4, <1>c, <1>f, <3>1 DEF NameHeld, Free
      <4> QED
        BY <1>7, <4>2, <4>3, <4>4 DEF CaptureFails
    <3> QED
      BY <1>c, <3>1, <3>2, <3>3, <3>4, ReadyKept
  <2>5. TargetIntact'
    BY <1>7, <1>b, <1>c, <1>d, <1>e, <1>f DEF CaptureFails, Free, TargetIntact, Ready, NameHeld, Ownership, TypeDirectory, TypeInodes, TypeCalls
  <2> QED
    BY <1>a, <2>1, <2>2, <2>3, <2>4, <2>5 DEF IInv
<1>8. ASSUME NEW w \in Writers, Copy(w) PROVE IInv'
  <2>1. (dir \in dirs)' /\ NameHeld'
    BY <1>8, <1>b, <1>c, <1>d, <1>e DEF Copy, NameHeld, TypeCalls
  <2>2. Ownership'
    <3>1. \A v \in Writers : /\ pc'[v] \in Holding => pc[v] \in Holding
                             /\ pc'[v] \notin Quiet => pc[v] \notin Quiet
      BY <1>8, <1>b DEF Copy, TypeCalls
    <3>2. mine' = mine
      BY <1>8 DEF Copy
    <3>3. \A d \in dirs' : \E e \in dirs : d[Target] = e[Target]
      BY <1>8, <1>b, <1>c, <1>d, <1>f DEF Copy, NameHeld
    <3> QED
      BY <1>c, <3>1, <3>2, <3>3, OwnershipKept
  <2>3. WantPlanned'
    BY <1>8, <1>b, <1>c, <1>d, <1>e DEF Copy, WantPlanned, TypeCalls
  <2>4. Ready'
    <3>1. \A v \in Writers : pc'[v] \in {"filesync", "publish"} => pc'[v] = pc[v]
      BY <1>8, <1>b DEF Copy, TypeCalls
    <3>2. /\ planned' = planned
          /\ \A v \in Writers : pc'[v] \in {"filesync", "publish"} =>
               mine'[v] = mine[v] /\ attempt'[v] = attempt[v]
      BY <1>8, <1>b DEF Copy, TypeCalls
    <3>3. \A v \in Writers : pc'[v] \in {"filesync", "publish"} =>
            image'[mine[v]] = image[mine[v]] /\ synced'[mine[v]] = synced[mine[v]]
      BY <1>8, <1>b, <1>c, <3>1, ZenonT(40) DEF Copy, TypeInodes, TypeCalls, Ownership
    <3>4. \A v \in Writers : pc'[v] \in {"filesync", "publish"} =>
            (dir'[attempt[v]] = mine[v] => dir[attempt[v]] = mine[v])
      BY <1>8, <1>b, <1>c, <1>d, <1>e, <1>f, <3>1, Distinct DEF Copy, NameHeld, Ownership, TypeDirectory, TypeCalls
    <3> QED
      BY <1>c, <3>1, <3>2, <3>3, <3>4, ReadyKept
  <2>5. TargetIntact'
    BY <1>8, <1>b, <1>c, <1>d, <1>e, <1>f DEF Copy, TargetIntact, Ready, NameHeld, Ownership, TypeDirectory, TypeInodes, TypeCalls
  <2> QED
    BY <1>a, <2>1, <2>2, <2>3, <2>4, <2>5 DEF IInv
<1>9. ASSUME NEW w \in Writers, Mutation(w) PROVE IInv'
  <2>1. (dir \in dirs)' /\ NameHeld'
    BY <1>9, <1>b, <1>c, <1>d, <1>e DEF Mutation, NameHeld, TypeCalls
  <2>2. Ownership'
    <3>1. \A v \in Writers : /\ pc'[v] \in Holding => pc[v] \in Holding
                             /\ pc'[v] \notin Quiet => pc[v] \notin Quiet
      BY <1>9, <1>b DEF Mutation, TypeCalls
    <3>2. mine' = mine
      BY <1>9 DEF Mutation
    <3>3. \A d \in dirs' : \E e \in dirs : d[Target] = e[Target]
      BY <1>9, <1>b, <1>c, <1>d, <1>f DEF Mutation, NameHeld
    <3> QED
      BY <1>c, <3>1, <3>2, <3>3, OwnershipKept
  <2>3. WantPlanned'
    BY <1>9, <1>b, <1>c, <1>d, <1>e DEF Mutation, WantPlanned, TypeCalls
  <2>4. Ready'
    BY <1>9, <1>b, <1>c, <1>d, <1>e, ZenonT(40) DEF Mutation, Ready, Ownership, NameHeld, WantPlanned, TypeDirectory, TypeInodes, TypeCalls
  <2>5. TargetIntact'
    BY <1>9, <1>b, <1>c, <1>d, <1>e, <1>f DEF Mutation, TargetIntact, Ready, NameHeld, Ownership, TypeDirectory, TypeInodes, TypeCalls
  <2> QED
    BY <1>a, <2>1, <2>2, <2>3, <2>4, <2>5 DEF IInv
<1>10. ASSUME NEW w \in Writers, Metadata(w) PROVE IInv'
  <2>1. (dir \in dirs)' /\ NameHeld'
    BY <1>10, <1>b, <1>c, <1>d, <1>e DEF Metadata, NameHeld, TypeCalls
  <2>2. Ownership'
    <3>1. \A v \in Writers : /\ pc'[v] \in Holding => pc[v] \in Holding
                             /\ pc'[v] \notin Quiet => pc[v] \notin Quiet
      BY <1>10, <1>b DEF Metadata, TypeCalls
    <3>2. mine' = mine
      BY <1>10 DEF Metadata
    <3>3. \A d \in dirs' : \E e \in dirs : d[Target] = e[Target]
      BY <1>10, <1>b, <1>c, <1>d, <1>f DEF Metadata, NameHeld
    <3> QED
      BY <1>c, <3>1, <3>2, <3>3, OwnershipKept
  <2>3. WantPlanned'
    BY <1>10, <1>b, <1>c, <1>d, <1>e DEF Metadata, WantPlanned, TypeCalls
  <2>4. Ready'
    BY <1>10, <1>b, <1>c, <1>d, <1>e DEF Metadata, Ready, Ownership, NameHeld, WantPlanned, TypeDirectory, TypeInodes, TypeCalls
  <2>5. TargetIntact'
    BY <1>10, <1>b, <1>c, <1>d, <1>e, <1>f DEF Metadata, TargetIntact, Ready, NameHeld, Ownership, TypeDirectory, TypeInodes, TypeCalls
  <2> QED
    BY <1>a, <2>1, <2>2, <2>3, <2>4, <2>5 DEF IInv
<1>11. ASSUME NEW w \in Writers, Validation(w) PROVE IInv'
  <2>1. (dir \in dirs)' /\ NameHeld'
    BY <1>11, <1>b, <1>c, <1>d, <1>e DEF Validation, CandidateMatches, NameHeld, TypeCalls
  <2>2. Ownership'
    <3>1. \A v \in Writers : /\ pc'[v] \in Holding => pc[v] \in Holding
                             /\ pc'[v] \notin Quiet => pc[v] \notin Quiet
      BY <1>11, <1>b DEF Validation, CandidateMatches, TypeCalls
    <3>2. mine' = mine
      BY <1>11 DEF Validation, CandidateMatches
    <3>3. \A d \in dirs' : \E e \in dirs : d[Target] = e[Target]
      BY <1>11, <1>b, <1>c, <1>d, <1>f DEF Validation, CandidateMatches, NameHeld
    <3> QED
      BY <1>c, <3>1, <3>2, <3>3, OwnershipKept
  <2>3. WantPlanned'
    BY <1>11, <1>b, <1>c, <1>d, <1>e DEF Validation, CandidateMatches, WantPlanned, TypeCalls
  <2>4. Ready'
    BY <1>11, <1>b, <1>c, <1>d, <1>e DEF Validation, CandidateMatches, Ready, Ownership, NameHeld, WantPlanned, TypeDirectory, TypeInodes, TypeCalls
  <2>5. TargetIntact'
    BY <1>11, <1>b, <1>c, <1>d, <1>e, <1>f DEF Validation, CandidateMatches, TargetIntact, Ready, NameHeld, Ownership, TypeDirectory, TypeInodes, TypeCalls
  <2> QED
    BY <1>a, <2>1, <2>2, <2>3, <2>4, <2>5 DEF IInv
<1>12. ASSUME NEW w \in Writers, FileSync(w) PROVE IInv'
  <2>1. (dir \in dirs)' /\ NameHeld'
    BY <1>12, <1>b, <1>c, <1>d, <1>e DEF FileSync, NameHeld, TypeCalls
  <2>2. Ownership'
    BY <1>12, <1>b, <1>c, <1>d, <1>e, Distinct DEF FileSync, Ownership, NameHeld, TypeDirectory, TypeInodes, TypeCalls
  <2>3. WantPlanned'
    BY <1>12, <1>b, <1>c, <1>d, <1>e DEF FileSync, WantPlanned, TypeCalls
  <2>4. Ready'
    BY <1>12, <1>b, <1>c, <1>d, <1>e DEF FileSync, Ready, Ownership, NameHeld, WantPlanned, TypeDirectory, TypeInodes, TypeCalls
  <2>5. TargetIntact'
    BY <1>12, <1>b, <1>c, <1>d, <1>e, <1>f DEF FileSync, TargetIntact, Ready, NameHeld, Ownership, TypeDirectory, TypeInodes, TypeCalls
  <2> QED
    BY <1>a, <2>1, <2>2, <2>3, <2>4, <2>5 DEF IInv
<1>13. ASSUME NEW w \in Writers, Publish(w) PROVE IInv'
  <2>1. (dir \in dirs)' /\ NameHeld'
    BY <1>13, <1>b, <1>c, <1>d, <1>e DEF Publish, VerifyPathIdentity, MayPublish, NameHeld, TypeCalls
  <2>0. /\ \A v \in Writers : v # w => pc'[v] = pc[v]
        /\ mine' = mine /\ attempt' = attempt /\ planned' = planned
        /\ UNCHANGED <<image, synced>>
        /\ pc[w] = "publish" /\ attempt[w] \in Attempts /\ mine[w] \in Inodes
    BY <1>13, <1>b, <1>c DEF Publish, TypeCalls, NameHeld, Ownership
  <2>a. ASSUME VerifyPathIdentity(w) /\ MayPublish(w)
        PROVE  Ownership' /\ Ready' /\ TargetIntact'
    <3>1. /\ dir[attempt[w]] = mine[w]
          /\ dirs' = dirs \union {dir'} /\ pc'[w] \in {"dirsync", "unlink"}
      BY <1>13, <2>a, <1>b DEF Publish, VerifyPathIdentity, TypeCalls
    <3>2. dir'[Target] = mine[w]
      BY <1>13, <2>a, <3>1, <2>0, <1>b, <1>d DEF Publish, TypeDirectory
    <3>3. \A n \in Attempts : dir'[n] = dir[n] \/ dir'[n] = NIL
      BY <1>13, <2>a, <2>0, <1>b, <1>d DEF Publish, TypeDirectory
    <3>4. Ownership'
      BY <2>0, <3>1, <3>2, <1>c DEF Ownership
    <3>5. Ready'
      <4>1. \A v \in Writers : pc'[v] \in {"filesync", "publish"} =>
              /\ pc'[v] = pc[v]
              /\ dir'[attempt[v]] = mine[v] => dir[attempt[v]] = mine[v]
        BY <2>0, <3>1, <3>3, <1>c, Distinct DEF Ownership, NameHeld
      <4> QED
        BY <4>1, <2>0, <1>c, ReadyKept
    <3>6. TargetIntact'
      BY <2>0, <3>1, <3>2, <1>c DEF Ready, TargetIntact
    <3> QED
      BY <3>4, <3>5, <3>6
  <2>b. ASSUME ~ (VerifyPathIdentity(w) /\ MayPublish(w))
        PROVE  Ownership' /\ Ready' /\ TargetIntact'
    <3>1. UNCHANGED <<dir, dirs>> /\ pc'[w] = "cleanup"
      BY <1>13, <2>b, <1>b DEF Publish, TypeCalls
    <3>2. Ownership'
      BY <2>0, <3>1, <1>c, OwnershipKept
    <3>3. Ready'
      <4>1. \A v \in Writers : pc'[v] \in {"filesync", "publish"} => pc'[v] = pc[v]
        BY <2>0, <3>1
      <4> QED
        BY <4>1, <2>0, <3>1, <1>c, ReadyKept
    <3>4. TargetIntact'
      BY <2>0, <3>1, <1>c DEF TargetIntact
    <3> QED
      BY <3>2, <3>3, <3>4
  <2>2. Ownership'
    BY <2>a, <2>b
  <2>3. WantPlanned'
    BY <1>13, <1>b, <1>c, <1>d, <1>e DEF Publish, VerifyPathIdentity, MayPublish, WantPlanned, TypeCalls
  <2>4. Ready'
    BY <2>a, <2>b
  <2>5. TargetIntact'
    BY <2>a, <2>b
  <2> QED
    BY <1>a, <2>1, <2>2, <2>3, <2>4, <2>5 DEF IInv
<1>14. ASSUME NEW w \in Writers, UnlinkPrivate(w) PROVE IInv'
  <2>1. (dir \in dirs)' /\ NameHeld'
    BY <1>14, <1>b, <1>c, <1>d, <1>e DEF UnlinkPrivate, NameHeld, TypeCalls
  <2>2. Ownership'
    <3>1. \A v \in Writers : /\ pc'[v] \in Holding => pc[v] \in Holding
                             /\ pc'[v] \notin Quiet => pc[v] \notin Quiet
      BY <1>14, <1>b DEF UnlinkPrivate, TypeCalls
    <3>2. mine' = mine
      BY <1>14 DEF UnlinkPrivate
    <3>3. \A d \in dirs' : \E e \in dirs : d[Target] = e[Target]
      <4>1. attempt[w] \in Attempts
        BY <1>14, <1>c DEF UnlinkPrivate, NameHeld
      <4>2. CASE UNCHANGED <<dir, dirs>>
        BY <4>2
      <4>3. CASE \E i \in Inodes \union {NIL} : SetDir([dir EXCEPT ![attempt[w]] = i])
        BY <4>1, <4>3, <1>g
      <4> QED
        BY <1>14, <4>2, <4>3 DEF UnlinkPrivate
    <3> QED
      BY <1>c, <3>1, <3>2, <3>3, OwnershipKept
  <2>3. WantPlanned'
    BY <1>14, <1>b, <1>c, <1>d, <1>e DEF UnlinkPrivate, WantPlanned, TypeCalls
  <2>4. Ready'
    <3>1. \A v \in Writers : pc'[v] \in {"filesync", "publish"} => pc'[v] = pc[v]
      BY <1>14, <1>b DEF UnlinkPrivate, TypeCalls
    <3>2. /\ planned' = planned
          /\ \A v \in Writers : pc'[v] \in {"filesync", "publish"} =>
               mine'[v] = mine[v] /\ attempt'[v] = attempt[v]
      BY <1>14, <1>b DEF UnlinkPrivate, TypeCalls
    <3>3. \A v \in Writers : pc'[v] \in {"filesync", "publish"} =>
            image'[mine[v]] = image[mine[v]] /\ synced'[mine[v]] = synced[mine[v]]
      BY <1>14, <1>b, <1>c, <3>1 DEF UnlinkPrivate, TypeInodes, TypeCalls, Ownership
    <3>4. \A v \in Writers : pc'[v] \in {"filesync", "publish"} =>
            (dir'[attempt[v]] = mine[v] => dir[attempt[v]] = mine[v])
      BY <1>14, <1>b, <1>c, <1>d, <1>e, <1>f, <3>1, Distinct DEF UnlinkPrivate, NameHeld, Ownership, TypeDirectory, TypeCalls
    <3> QED
      BY <1>c, <3>1, <3>2, <3>3, <3>4, ReadyKept
  <2>5. TargetIntact'
    BY <1>14, <1>b, <1>c, <1>d, <1>e, <1>f DEF UnlinkPrivate, TargetIntact, Ready, NameHeld, Ownership, TypeDirectory, TypeInodes, TypeCalls
  <2> QED
    BY <1>a, <2>1, <2>2, <2>3, <2>4, <2>5 DEF IInv
<1>15. ASSUME NEW w \in Writers, DirectorySync(w) PROVE IInv'
  <2>1. (dir \in dirs)' /\ NameHeld'
    BY <1>15, <1>b, <1>c, <1>d, <1>e DEF DirectorySync, NameHeld, TypeCalls
  <2>2. Ownership'
    BY <1>15, <1>b, <1>c, <1>d, <1>e, Distinct DEF DirectorySync, Ownership, NameHeld, TypeDirectory, TypeInodes, TypeCalls
  <2>3. WantPlanned'
    BY <1>15, <1>b, <1>c, <1>d, <1>e DEF DirectorySync, WantPlanned, TypeCalls
  <2>4. Ready'
    BY <1>15, <1>b, <1>c, <1>d, <1>e DEF DirectorySync, Ready, Ownership, NameHeld, WantPlanned, TypeDirectory, TypeInodes, TypeCalls
  <2>5. TargetIntact'
    BY <1>15, <1>b, <1>c, <1>d, <1>e, <1>f DEF DirectorySync, TargetIntact, Ready, NameHeld, Ownership, TypeDirectory, TypeInodes, TypeCalls
  <2> QED
    BY <1>a, <2>1, <2>2, <2>3, <2>4, <2>5 DEF IInv
<1>16. ASSUME NEW w \in Writers, StageFails(w) PROVE IInv'
  <2>1. (dir \in dirs)' /\ NameHeld'
    BY <1>16, <1>b, <1>c, <1>d, <1>e DEF StageFails, NameHeld, TypeCalls
  <2>2. Ownership'
    <3>1. \A v \in Writers : /\ pc'[v] \in Holding => pc[v] \in Holding
                             /\ pc'[v] \notin Quiet => pc[v] \notin Quiet
      BY <1>16, <1>b DEF StageFails, TypeCalls
    <3>2. mine' = mine
      BY <1>16 DEF StageFails
    <3>3. \A d \in dirs' : \E e \in dirs : d[Target] = e[Target]
      BY <1>16, <1>b, <1>c, <1>d, <1>f DEF StageFails, NameHeld
    <3> QED
      BY <1>c, <3>1, <3>2, <3>3, OwnershipKept
  <2>3. WantPlanned'
    BY <1>16, <1>b, <1>c, <1>d, <1>e DEF StageFails, WantPlanned, TypeCalls
  <2>4. Ready'
    <3>1. \A v \in Writers : pc'[v] \in {"filesync", "publish"} => pc'[v] = pc[v]
      BY <1>16, <1>b DEF StageFails, TypeCalls
    <3>2. /\ planned' = planned
          /\ \A v \in Writers : pc'[v] \in {"filesync", "publish"} =>
               mine'[v] = mine[v] /\ attempt'[v] = attempt[v]
      BY <1>16, <1>b DEF StageFails, TypeCalls
    <3>3. \A v \in Writers : pc'[v] \in {"filesync", "publish"} =>
            image'[mine[v]] = image[mine[v]] /\ synced'[mine[v]] = synced[mine[v]]
      BY <1>16, <1>b, <1>c, <3>1, ZenonT(40) DEF StageFails, TypeInodes, TypeCalls, Ownership
    <3>4. \A v \in Writers : pc'[v] \in {"filesync", "publish"} =>
            (dir'[attempt[v]] = mine[v] => dir[attempt[v]] = mine[v])
      BY <1>16, <1>b, <1>c, <1>d, <1>e, <1>f, <3>1, Distinct DEF StageFails, NameHeld, Ownership, TypeDirectory, TypeCalls
    <3> QED
      BY <1>c, <3>1, <3>2, <3>3, <3>4, ReadyKept
  <2>5. TargetIntact'
    BY <1>16, <1>b, <1>c, <1>d, <1>e, <1>f DEF StageFails, TargetIntact, Ready, NameHeld, Ownership, TypeDirectory, TypeInodes, TypeCalls
  <2> QED
    BY <1>a, <2>1, <2>2, <2>3, <2>4, <2>5 DEF IInv
<1>17. ASSUME NEW w \in Writers, Cleanup(w) PROVE IInv'
  <2>1. (dir \in dirs)' /\ NameHeld'
    BY <1>17, <1>b, <1>c, <1>d, <1>e DEF Cleanup, VerifyPathIdentity, NameHeld, TypeCalls
  <2>2. Ownership'
    BY <1>17, <1>b, <1>c, <1>d, <1>e, Distinct DEF Cleanup, VerifyPathIdentity, Ownership, NameHeld, TypeDirectory, TypeInodes, TypeCalls
  <2>3. WantPlanned'
    BY <1>17, <1>b, <1>c, <1>d, <1>e DEF Cleanup, VerifyPathIdentity, WantPlanned, TypeCalls
  <2>4. Ready'
    <3>1. \A v \in Writers : pc'[v] \in {"filesync", "publish"} => pc'[v] = pc[v]
      BY <1>17, <1>b DEF Cleanup, VerifyPathIdentity, TypeCalls
    <3>2. /\ planned' = planned
          /\ \A v \in Writers : pc'[v] \in {"filesync", "publish"} =>
               mine'[v] = mine[v] /\ attempt'[v] = attempt[v]
      BY <1>17, <1>b DEF Cleanup, VerifyPathIdentity, TypeCalls
    <3>3. \A v \in Writers : pc'[v] \in {"filesync", "publish"} =>
            image'[mine[v]] = image[mine[v]] /\ synced'[mine[v]] = synced[mine[v]]
      BY <1>17, <1>b, <1>c, <3>1 DEF Cleanup, VerifyPathIdentity, TypeInodes, TypeCalls, Ownership
    <3>4. \A v \in Writers : pc'[v] \in {"filesync", "publish"} =>
            (dir'[attempt[v]] = mine[v] => dir[attempt[v]] = mine[v])
      BY <1>17, <1>b, <1>c, <1>d, <1>e, <1>f, <3>1, Distinct DEF Cleanup, VerifyPathIdentity, NameHeld, Ownership, TypeDirectory, TypeCalls
    <3> QED
      BY <1>c, <3>1, <3>2, <3>3, <3>4, ReadyKept
  <2>5. TargetIntact'
    BY <1>17, <1>b, <1>c, <1>d, <1>e, <1>f DEF Cleanup, VerifyPathIdentity, TargetIntact, Ready, NameHeld, Ownership, TypeDirectory, TypeInodes, TypeCalls
  <2> QED
    BY <1>a, <2>1, <2>2, <2>3, <2>4, <2>5 DEF IInv
<1>18. ASSUME NEW w \in Writers, DropPrivate(w) PROVE IInv'
  <2>1. (dir \in dirs)' /\ NameHeld'
    BY <1>18, <1>b, <1>c, <1>d, <1>e DEF DropPrivate, VerifyPathIdentity, NameHeld, TypeCalls
  <2>2. Ownership'
    BY <1>18, <1>b, <1>c, <1>d, <1>e, Distinct DEF DropPrivate, VerifyPathIdentity, Ownership, NameHeld, TypeDirectory, TypeInodes, TypeCalls
  <2>3. WantPlanned'
    BY <1>18, <1>b, <1>c, <1>d, <1>e DEF DropPrivate, VerifyPathIdentity, WantPlanned, TypeCalls
  <2>4. Ready'
    <3>1. \A v \in Writers : pc'[v] \in {"filesync", "publish"} => pc'[v] = pc[v]
      BY <1>18, <1>b DEF DropPrivate, VerifyPathIdentity, TypeCalls
    <3>2. /\ planned' = planned
          /\ \A v \in Writers : pc'[v] \in {"filesync", "publish"} =>
               mine'[v] = mine[v] /\ attempt'[v] = attempt[v]
      BY <1>18, <1>b DEF DropPrivate, VerifyPathIdentity, TypeCalls
    <3>3. \A v \in Writers : pc'[v] \in {"filesync", "publish"} =>
            image'[mine[v]] = image[mine[v]] /\ synced'[mine[v]] = synced[mine[v]]
      BY <1>18, <1>b, <1>c, <3>1 DEF DropPrivate, VerifyPathIdentity, TypeInodes, TypeCalls, Ownership
    <3>4. \A v \in Writers : pc'[v] \in {"filesync", "publish"} =>
            (dir'[attempt[v]] = mine[v] => dir[attempt[v]] = mine[v])
      BY <1>18, <1>b, <1>c, <1>d, <1>e, <1>f, <3>1, Distinct DEF DropPrivate, VerifyPathIdentity, NameHeld, Ownership, TypeDirectory, TypeCalls
    <3> QED
      BY <1>c, <3>1, <3>2, <3>3, <3>4, ReadyKept
  <2>5. TargetIntact'
    BY <1>18, <1>b, <1>c, <1>d, <1>e, <1>f DEF DropPrivate, VerifyPathIdentity, TargetIntact, Ready, NameHeld, Ownership, TypeDirectory, TypeInodes, TypeCalls
  <2> QED
    BY <1>a, <2>1, <2>2, <2>3, <2>4, <2>5 DEF IInv
<1>19. ASSUME NEW w \in Writers, HookSubstitutes(w) PROVE IInv'
  <2>1. (dir \in dirs)' /\ NameHeld'
    BY <1>19, <1>b, <1>c, <1>d, <1>e DEF HookSubstitutes, VerifyPathIdentity, NameHeld, TypeCalls
  <2>2. Ownership'
    <3>1. \A v \in Writers : /\ pc'[v] \in Holding => pc[v] \in Holding
                             /\ pc'[v] \notin Quiet => pc[v] \notin Quiet
      BY <1>19, <1>b DEF HookSubstitutes, VerifyPathIdentity, TypeCalls
    <3>2. mine' = mine
      BY <1>19 DEF HookSubstitutes, VerifyPathIdentity
    <3>3. \A d \in dirs' : \E e \in dirs : d[Target] = e[Target]
      <4>1. attempt[w] \in Attempts
        BY <1>19, <1>c DEF HookSubstitutes, NameHeld
      <4>2. CASE UNCHANGED <<dir, dirs>>
        BY <4>2
      <4>3. CASE \E i \in Inodes \union {NIL} : SetDir([dir EXCEPT ![attempt[w]] = i])
        BY <4>1, <4>3, <1>g
      <4> QED
        BY <1>19, <4>2, <4>3 DEF HookSubstitutes
    <3> QED
      BY <1>c, <3>1, <3>2, <3>3, OwnershipKept
  <2>3. WantPlanned'
    BY <1>19, <1>b, <1>c, <1>d, <1>e DEF HookSubstitutes, VerifyPathIdentity, WantPlanned, TypeCalls
  <2>4. Ready'
    <3>1. \A v \in Writers : pc'[v] \in {"filesync", "publish"} => pc'[v] = pc[v]
      BY <1>19, <1>b DEF HookSubstitutes, VerifyPathIdentity, TypeCalls
    <3>2. /\ planned' = planned
          /\ \A v \in Writers : pc'[v] \in {"filesync", "publish"} =>
               mine'[v] = mine[v] /\ attempt'[v] = attempt[v]
      BY <1>19, <1>b DEF HookSubstitutes, VerifyPathIdentity, TypeCalls
    <3>3. \A v \in Writers : pc'[v] \in {"filesync", "publish"} =>
            image'[mine[v]] = image[mine[v]] /\ synced'[mine[v]] = synced[mine[v]]
      <4>1. ASSUME NEW i \in Inodes, Free(i),
                   image' = [image EXCEPT ![i] = Foreign],
                   synced' = [synced EXCEPT ![i] = TRUE],
                   NEW v \in Writers, pc'[v] \in {"filesync", "publish"}
            PROVE  image'[mine[v]] = image[mine[v]] /\ synced'[mine[v]] = synced[mine[v]]
        <5>1. mine[v] # i /\ mine[v] \in Inodes
          BY <4>1, <3>1, <1>c DEF Free, Ownership
        <5> QED
          BY <4>1, <5>1, <1>b DEF TypeInodes
      <4>2. CASE UNCHANGED <<image, synced>>
        BY <4>2
      <4> QED
        BY <1>19, <4>1, <4>2 DEF HookSubstitutes
    <3>4. \A v \in Writers : pc'[v] \in {"filesync", "publish"} =>
            (dir'[attempt[v]] = mine[v] => dir[attempt[v]] = mine[v])
      <4>1. attempt[w] \in Attempts
        BY <1>19, <1>c DEF HookSubstitutes, NameHeld
      <4>2. CASE dir' = dir
        BY <4>2
      <4>3. CASE dir' = [dir EXCEPT ![attempt[w]] = NIL]
        BY <4>1, <4>3, <1>c, <1>f, <3>1, Distinct DEF NameHeld, Ownership
      <4>4. ASSUME NEW i \in Inodes, Free(i), dir' = [dir EXCEPT ![attempt[w]] = i]
            PROVE \A v \in Writers : pc'[v] \in {"filesync", "publish"} =>
                    (dir'[attempt[v]] = mine[v] => dir[attempt[v]] = mine[v])
        BY <4>1, <4>4, <1>c, <1>f, <3>1 DEF NameHeld, Free
      <4> QED
        BY <1>19, <4>2, <4>3, <4>4 DEF HookSubstitutes
    <3> QED
      BY <1>c, <3>1, <3>2, <3>3, <3>4, ReadyKept
  <2>5. TargetIntact'
    <3>1. attempt[w] \in Attempts
      BY <1>19, <1>c DEF HookSubstitutes, NameHeld
    <3>2. \A d \in dirs' : \E e \in dirs : d[Target] = e[Target]
      BY <1>19, <3>1, <1>g DEF HookSubstitutes
    <3>3. \A d \in dirs : d[Target] \in Inodes =>
            image'[d[Target]] = image[d[Target]] /\ synced'[d[Target]] = synced[d[Target]]
      BY <1>19, <1>b, <1>d DEF HookSubstitutes, Free, TypeInodes
    <3>4. planned' = planned /\ \A d \in dirs : d[Target] # NIL => d[Target] \in Inodes
      BY <1>19, <1>b, <1>d DEF HookSubstitutes, TypeDirectory
    <3> QED
      BY <3>2, <3>3, <3>4, <1>c DEF TargetIntact
  <2> QED
    BY <1>a, <2>1, <2>2, <2>3, <2>4, <2>5 DEF IInv
<1>20. CASE ProcessKilled
  <2>1. (dir \in dirs)' /\ NameHeld'
    BY <1>20, <1>b, <1>c, <1>d, <1>e DEF ProcessKilled, StopCalls, NameHeld, TypeCalls
  <2>2. Ownership'
    BY <1>20, <1>b, <1>c, <1>d, <1>e, Distinct DEF ProcessKilled, StopCalls, Ownership, NameHeld, TypeDirectory, TypeInodes, TypeCalls
  <2>3. WantPlanned'
    BY <1>20, <1>b, <1>c, <1>d, <1>e DEF ProcessKilled, StopCalls, WantPlanned, TypeCalls
  <2>4. Ready'
    BY <1>20, <1>b, <1>c, <1>d, <1>e DEF ProcessKilled, StopCalls, Ready, Ownership, NameHeld, WantPlanned, TypeDirectory, TypeInodes, TypeCalls
  <2>5. TargetIntact'
    BY <1>20, <1>b, <1>c, <1>d, <1>e, <1>f DEF ProcessKilled, StopCalls, TargetIntact, Ready, NameHeld, Ownership, TypeDirectory, TypeInodes, TypeCalls
  <2> QED
    BY <1>a, <2>1, <2>2, <2>3, <2>4, <2>5 DEF IInv
<1>21. CASE PowerLoss
  <2>1. (dir \in dirs)' /\ NameHeld'
    BY <1>21, <1>b, <1>c, <1>d, <1>e DEF PowerLoss, StopCalls, NameHeld, TypeCalls
  <2>2. Ownership'
    BY <1>21, <1>b, <1>c, <1>d, <1>e, Distinct DEF PowerLoss, StopCalls, Ownership, NameHeld, TypeDirectory, TypeInodes, TypeCalls
  <2>3. WantPlanned'
    BY <1>21, <1>b, <1>c, <1>d, <1>e DEF PowerLoss, StopCalls, WantPlanned, TypeCalls
  <2>4. Ready'
    BY <1>21, <1>b, <1>c, <1>d, <1>e DEF PowerLoss, StopCalls, Ready, Ownership, NameHeld, WantPlanned, TypeDirectory, TypeInodes, TypeCalls
  <2>5. TargetIntact'
    BY <1>21, <1>b, <1>c, <1>d, <1>e, <1>f DEF PowerLoss, StopCalls, TargetIntact, Ready, NameHeld, Ownership, TypeDirectory, TypeInodes, TypeCalls
  <2> QED
    BY <1>a, <2>1, <2>2, <2>3, <2>4, <2>5 DEF IInv
<1>22. CASE UNCHANGED vars
  BY <1>22, <1>a, <1>c DEF vars, IInv, Ownership, NameHeld, WantPlanned, Ready, TargetIntact
<1> QED
  BY <1>1, <1>2, <1>3, <1>4, <1>5, <1>6, <1>7, <1>8, <1>9, <1>10, <1>11, <1>12,
     <1>13, <1>14, <1>15, <1>16, <1>17, <1>18, <1>19, <1>20, <1>21, <1>22
     DEF Next, Call

\* At every instant, in every directory a power loss may leave, the target is
\* absent or a synchronised, completely planned image.
THEOREM TargetAlwaysIntact == Spec => []TargetIntact
<1>1. Init => IInv
  BY IInvInit
<1>2. IInv /\ [Next]_vars => IInv'
  BY IInvNext
<1>3. IInv => TargetIntact
  BY DEF IInv
<1> QED
  BY <1>1, <1>2, <1>3, PTL DEF Spec

\* While a call has a private file, no other call in progress has the same one
\* and the target's name does not lead to it, in any surviving directory.
THEOREM PrivateAlwaysPrivate == Spec => []PrivateFilesArePrivate
<1>1. Init => IInv
  BY IInvInit
<1>2. IInv /\ [Next]_vars => IInv'
  BY IInvNext
<1>3. IInv => PrivateFilesArePrivate
  BY DEF IInv, Ownership, PrivateFilesArePrivate, Holding
<1> QED
  BY <1>1, <1>2, <1>3, PTL DEF Spec

-----------------------------------------------------------------------------
(* What a step of one call leaves to the others. *)

Untouched(v) ==
  /\ pc'[v] = pc[v] /\ kind'[v] = kind[v] /\ page'[v] = page[v] /\ want'[v] = want[v]
  /\ stat'[v] = stat[v] /\ attempt'[v] = attempt[v] /\ mine'[v] = mine[v]
  /\ cleanupError'[v] = cleanupError[v] /\ result'[v] = result[v]

\* A call writes its own private file or a new one, names a file it has just made or
\* publishes its own, and takes names away; permissions it sets by name.
FrameOfCalls(w) == \A v \in Writers \ {w} : Untouched(v)
FrameOfImages(w) ==
  \A i \in Inodes : image'[i] # image[i] => Free(i) \/ (i = mine[w] /\ pc[w] \in {"copy", "mutation"})
FrameOfModes(w) ==
  \A i \in Inodes : mode'[i] # mode[i] =>
    Free(i) \/ (pc[w] = "metadata" /\ i = dir[attempt[w]] /\ mode'[i] = stat[w].mode)
FrameOfNames(w) ==
  /\ \A n \in Names \ {Target} :
       dir'[n] # dir[n] => dir'[n] = NIL \/ (dir'[n] \in Inodes /\ Free(dir'[n]))
  /\ dir'[Target] # dir[Target] =>
       /\ pc[w] = "publish" /\ dir[attempt[w]] = mine[w] /\ dir'[Target] = mine[w]
       /\ MayPublish(w) /\ Overtake(w)
  /\ dir'[Target] = dir[Target] => \A v \in Writers \ {w} : raced'[v] = raced[v]

Frame(w) == FrameOfCalls(w) /\ FrameOfImages(w) /\ FrameOfModes(w) /\ FrameOfNames(w)

\* Taking a private name away, or giving it to a new file, is within the frame.
LEMMA NameFrame ==
  ASSUME TypeDirectory, NEW w \in Writers, NEW n \in Names \ {Target}, NEW x,
         x = NIL \/ (x \in Inodes /\ Free(x)),
         dir' = [dir EXCEPT ![n] = x] \/ dir' = dir, raced' = raced
  PROVE  FrameOfNames(w)
<1>1. Target \in Names /\ n # Target
  BY DEF Names
<1>2. dir'[Target] = dir[Target]
  BY <1>1 DEF TypeDirectory
<1>3. \A m \in Names \ {Target} : dir'[m] # dir[m] => dir'[m] = x
  BY DEF TypeDirectory
<1> QED
  BY <1>2, <1>3 DEF FrameOfNames

\* Every action of a call stays within its frame.
LEMMA CallFrame ==
  ASSUME IInv, NEW w \in Writers, Call(w)
  PROVE  Frame(w)
<1> USE DEF fsVars, callVars, ghosts, counters, Return, Goto, Fail, FrameOfCalls, FrameOfImages,
    FrameOfModes, Untouched, SetDir
<1>a. TypeDirectory /\ TypeInodes /\ TypeCalls /\ TypeGhosts
  BY DEF IInv, TypeOK
<1>b. attempt[w] < MaxAttempts => attempt[w] \in Names \ {Target}
  BY <1>a, Bounds, Distinct DEF TypeCalls, Names, Attempts
<1>c. pc[w] \in Holding \union {"unlink"} => attempt[w] \in Names \ {Target}
  BY Distinct DEF IInv, NameHeld, Names
<1>1. CASE OpenForUpdate(w)
  BY <1>1, <1>a, <1>b, <1>c DEF OpenForUpdate, Frame, FrameOfNames, TypeDirectory, TypeInodes, TypeCalls, TypeGhosts, Holding, NewCall
<1>2. CASE OpenForCreate(w)
  BY <1>2, <1>a, <1>b, <1>c DEF OpenForCreate, Frame, FrameOfNames, TypeDirectory, TypeInodes, TypeCalls, TypeGhosts, Holding, NewCall
<1>3. CASE Stat(w)
  BY <1>3, <1>a, <1>b, <1>c DEF Stat, Frame, FrameOfNames, TypeDirectory, TypeInodes, TypeCalls, TypeGhosts, Holding
<1>4. CASE ProbeTaken(w)
  BY <1>4, <1>a, <1>b, <1>c DEF ProbeTaken, Frame, FrameOfNames, TypeDirectory, TypeInodes, TypeCalls, TypeGhosts, Holding
<1>5. CASE ProbeExhausted(w)
  BY <1>5, <1>a, <1>b, <1>c DEF ProbeExhausted, Frame, FrameOfNames, TypeDirectory, TypeInodes, TypeCalls, TypeGhosts, Holding
<1>6. CASE CreatePrivate(w)
  BY <1>6, <1>a, <1>b, <1>c DEF CreatePrivate, Frame, FrameOfNames, TypeDirectory, TypeInodes, TypeCalls, TypeGhosts, Holding
<1>7. CASE CaptureFails(w)
  <2>1. FrameOfCalls(w)
    BY <1>7, <1>a DEF CaptureFails, TypeCalls
  <2>2. FrameOfImages(w) /\ FrameOfModes(w)
    BY <1>7, <1>a DEF CaptureFails, TypeInodes
  <2>3. FrameOfNames(w)
    <3>1. PICK i \in Inodes : Free(i) /\ (dir' = [dir EXCEPT ![attempt[w]] = i] \/ dir' = dir)
      BY <1>7 DEF CaptureFails
    <3>2. attempt[w] \in Names \ {Target} /\ raced' = raced
      BY <1>7, <1>b DEF CaptureFails
    <3> QED
      BY <1>a, <3>1, <3>2, NameFrame
  <2> QED
    BY <2>1, <2>2, <2>3 DEF Frame
<1>8. CASE Copy(w)
  BY <1>8, <1>a, <1>b, <1>c DEF Copy, Frame, FrameOfNames, TypeDirectory, TypeInodes, TypeCalls, TypeGhosts, Holding
<1>9. CASE Mutation(w)
  BY <1>9, <1>a, <1>b, <1>c DEF Mutation, Frame, FrameOfNames, TypeDirectory, TypeInodes, TypeCalls, TypeGhosts, Holding
<1>10. CASE Metadata(w)
  BY <1>10, <1>a, <1>b, <1>c DEF Metadata, Frame, FrameOfNames, TypeDirectory, TypeInodes, TypeCalls, TypeGhosts, Holding
<1>11. CASE Validation(w)
  BY <1>11, <1>a, <1>b, <1>c DEF Validation, Frame, FrameOfNames, TypeDirectory, TypeInodes, TypeCalls, TypeGhosts, Holding
<1>12. CASE FileSync(w)
  BY <1>12, <1>a, <1>b, <1>c DEF FileSync, Frame, FrameOfNames, TypeDirectory, TypeInodes, TypeCalls, TypeGhosts, Holding
<1>13. CASE Publish(w)
  <2>1. FrameOfCalls(w)
    BY <1>13, <1>a DEF Publish, TypeCalls
  <2>2. FrameOfImages(w) /\ FrameOfModes(w)
    BY <1>13, <1>a DEF Publish, TypeInodes
  <2>3. FrameOfNames(w)
    <3>1. CASE VerifyPathIdentity(w) /\ MayPublish(w)
      <4>1. /\ dir' = IF kind[w] = "update"
                        THEN [dir EXCEPT ![Target] = dir[attempt[w]], ![attempt[w]] = NIL]
                        ELSE [dir EXCEPT ![Target] = dir[attempt[w]]]
            /\ Overtake(w) /\ dir[attempt[w]] = mine[w] /\ pc[w] = "publish"
        BY <1>13, <3>1 DEF Publish, VerifyPathIdentity
      <4>2. attempt[w] \in Names \ {Target} /\ Target \in Names
        BY <1>c, <4>1 DEF Holding, Names
      <4>3. dir'[Target] = mine[w]
        BY <1>a, <4>1, <4>2 DEF TypeDirectory
      <4>4. \A n \in Names \ {Target} : dir'[n] # dir[n] => dir'[n] = NIL
        BY <1>a, <4>1, <4>2 DEF TypeDirectory
      <4>5. dir[Target] # mine[w]
        BY <4>1 DEF IInv, Ownership, Holding
      <4> QED
        BY <3>1, <4>1, <4>3, <4>4, <4>5 DEF FrameOfNames
    <3>2. CASE ~(VerifyPathIdentity(w) /\ MayPublish(w))
      BY <1>13, <3>2 DEF Publish, FrameOfNames
    <3> QED
      BY <3>1, <3>2
  <2> QED
    BY <2>1, <2>2, <2>3 DEF Frame
<1>14. CASE UnlinkPrivate(w)
  <2>1. FrameOfCalls(w)
    BY <1>14, <1>a DEF UnlinkPrivate, TypeCalls
  <2>2. FrameOfImages(w) /\ FrameOfModes(w)
    BY <1>14, <1>a DEF UnlinkPrivate, TypeInodes
  <2>3. FrameOfNames(w)
    <3>1. dir' = [dir EXCEPT ![attempt[w]] = NIL] \/ dir' = dir
      BY <1>14 DEF UnlinkPrivate
    <3>2. attempt[w] \in Names \ {Target} /\ raced' = raced
      BY <1>14, <1>c DEF UnlinkPrivate, Holding
    <3> QED
      BY <1>a, <3>1, <3>2, NameFrame
  <2> QED
    BY <2>1, <2>2, <2>3 DEF Frame
<1>15. CASE DirectorySync(w)
  BY <1>15, <1>a, <1>b, <1>c DEF DirectorySync, Frame, FrameOfNames, TypeDirectory, TypeInodes, TypeCalls, TypeGhosts, Holding
<1>16. CASE StageFails(w)
  BY <1>16, <1>a, <1>b, <1>c DEF StageFails, Frame, FrameOfNames, TypeDirectory, TypeInodes, TypeCalls, TypeGhosts, Holding
<1>17. CASE Cleanup(w)
  <2>1. FrameOfCalls(w)
    BY <1>17, <1>a DEF Cleanup, TypeCalls
  <2>2. FrameOfImages(w) /\ FrameOfModes(w)
    BY <1>17, <1>a DEF Cleanup, TypeInodes
  <2>3. FrameOfNames(w)
    <3>1. dir' = [dir EXCEPT ![attempt[w]] = NIL] \/ dir' = dir
      BY <1>17 DEF Cleanup
    <3>2. attempt[w] \in Names \ {Target} /\ raced' = raced
      BY <1>17, <1>c DEF Cleanup, Holding
    <3> QED
      BY <1>a, <3>1, <3>2, NameFrame
  <2> QED
    BY <2>1, <2>2, <2>3 DEF Frame
<1>18. CASE DropPrivate(w)
  <2>1. FrameOfCalls(w)
    BY <1>18, <1>a DEF DropPrivate, TypeCalls
  <2>2. FrameOfImages(w) /\ FrameOfModes(w)
    BY <1>18, <1>a DEF DropPrivate, TypeInodes
  <2>3. FrameOfNames(w)
    <3>1. dir' = [dir EXCEPT ![attempt[w]] = NIL] \/ dir' = dir
      BY <1>18 DEF DropPrivate
    <3>2. attempt[w] \in Names \ {Target} /\ raced' = raced
      BY <1>18, <1>c DEF DropPrivate, Holding
    <3> QED
      BY <1>a, <3>1, <3>2, NameFrame
  <2> QED
    BY <2>1, <2>2, <2>3 DEF Frame
<1>19. CASE HookSubstitutes(w)
  <2>1. FrameOfCalls(w)
    BY <1>19, <1>a DEF HookSubstitutes, TypeCalls
  <2>2. FrameOfImages(w) /\ FrameOfModes(w)
    BY <1>19, <1>a DEF HookSubstitutes, TypeInodes
  <2>3. FrameOfNames(w)
    <3>1. PICK x : (x = NIL \/ (x \in Inodes /\ Free(x))) /\ dir' = [dir EXCEPT ![attempt[w]] = x]
      BY <1>19 DEF HookSubstitutes
    <3>2. attempt[w] \in Names \ {Target} /\ raced' = raced
      BY <1>19, <1>c DEF HookSubstitutes, Holding
    <3> QED
      BY <1>a, <3>1, <3>2, NameFrame
  <2> QED
    BY <2>1, <2>2, <2>3 DEF Frame
<1> QED
  BY <1>1, <1>2, <1>3, <1>4, <1>5, <1>6, <1>7, <1>8, <1>9, <1>10, <1>11, <1>12, <1>13, <1>14, <1>15, <1>16, <1>17, <1>18, <1>19 DEF Call

\* A file that a surviving directory names, or that a call in progress holds, is not free.
LEMMA NotFree ==
  ASSUME IInv
  PROVE  /\ \A n \in Names : ~Free(dir[n])
         /\ \A w \in Writers : pc[w] \notin Quiet => ~Free(mine[w])
BY DEF IInv, Free

\* A call in progress leaves the bytes of the target and of the other calls' files alone.
LEMMA BytesKept ==
  ASSUME IInv, NEW w \in Writers, Call(w)
  PROVE  /\ dir[Target] # NIL => image'[dir[Target]] = image[dir[Target]]
         /\ \A v \in Writers \ {w} : pc[v] \in Holding => image'[mine[v]] = image[mine[v]]
<1>1. FrameOfImages(w)
  BY CallFrame DEF Frame
<1>2. pc[w] \in {"copy", "mutation"} => mine[w] # dir[Target]
  BY DEF IInv, Ownership, Holding
<1>3. dir[Target] # NIL => dir[Target] \in Inodes
  BY DEF IInv, TypeOK, TypeDirectory, Names
<1>4. \A v \in Writers \ {w} :
        pc[v] \in Holding => mine[v] \in Inodes /\ (pc[w] \in {"copy", "mutation"} => mine[v] # mine[w])
  BY DEF IInv, Ownership, Holding
<1>5. Target \in Names
  BY DEF Names
<1>6. dir[Target] # NIL => image'[dir[Target]] = image[dir[Target]]
  BY <1>1, <1>2, <1>3, <1>5, NotFree DEF FrameOfImages
<1>7. \A v \in Writers \ {w} : pc[v] \in Holding => image'[mine[v]] = image[mine[v]]
  BY <1>1, <1>4, NotFree DEF FrameOfImages, Holding
<1> QED
  BY <1>6, <1>7

\* A published file is never written: while the target keeps its inode, the bytes stay.
THEOREM PublishedNeverWritten == Spec => NeverInPlace
<1>1. ASSUME IInv, Next, dir[Target] # NIL, dir'[Target] = dir[Target]
      PROVE  image'[dir[Target]] = image[dir[Target]]
  <2>1. ASSUME NEW w \in Writers, Call(w) PROVE image'[dir[Target]] = image[dir[Target]]
    BY <1>1, <2>1, BytesKept
  <2>2. CASE ProcessKilled
    BY <2>2 DEF ProcessKilled, fsVars
  <2>3. CASE PowerLoss
    <3>1. dir[Target] \in Inodes /\ synced[dir[Target]]
      BY <1>1 DEF IInv, TypeOK, TypeDirectory, TargetIntact, Names
    <3> QED
      BY <2>3, <3>1 DEF PowerLoss
  <2> QED
    BY <1>1, <2>1, <2>2, <2>3 DEF Next
<1>2. IInv /\ [Next]_vars =>
        [dir[Target] # NIL /\ dir'[Target] = dir[Target] => image'[dir[Target]] = image[dir[Target]]]_vars
  BY <1>1
<1> QED
  BY <1>2, IInvInit, IInvNext, PTL DEF Spec, NeverInPlace

-----------------------------------------------------------------------------
(* What each stage of a call has established. *)

\* A call has no private file before it makes one.
EarlyNil(w) == pc[w] \in {"stat", "private"} => mine[w] = NIL
\* A private file is the call's own work, whatever its name leads to.
NotForeign(w) == pc[w] \in Holding => image[mine[w]] # Foreign
\* A cleanup without an error took the name away.
CleanedUp(w) == pc[w] = "drop" /\ ~cleanupError[w] => dir[attempt[w]] # mine[w]
UpdateStages(w) == pc[w] \in {"copy", "metadata"} => kind[w] = "update"
\* The permissions of the target do not change under the updates in progress.
ModeStable(w) ==
  kind[w] = "update" /\ pc[w] \in Unpublished \union {"private"} =>
    dir[Target] # NIL /\ stat[w].mode = mode[dir[Target]]
ModeSet(w) ==
  kind[w] = "update" /\ pc[w] \in {"validation", "filesync", "publish"} /\ dir[attempt[w]] = mine[w]
    => mode[mine[w]] = stat[w].mode
Validated(w) ==
  pc[w] \in {"filesync", "publish"} /\ dir[attempt[w]] = mine[w] => image[mine[w]] = want[w]
\* Unless the target was replaced after the copy, the copy is a prefix of the target,
\* the whole of it unless it was replaced after its length was taken.
Source == image[dir[Target]]
LengthTaken(w) ==
  kind[w] = "update" /\ raced[w] = "no" /\ pc[w] \in {"private", "copy"} => stat[w].len = Size(Source)
HasCopy == {"mutation", "metadata", "validation", "filesync", "publish"}
Copied(w) ==
  kind[w] = "update" /\ raced[w] # "copy" /\ pc[w] \in HasCopy =>
    /\ Size(Source) >= stat[w].len /\ (raced[w] = "no" => stat[w].len = Size(Source))
    /\ image[mine[w]] = IF pc[w] = "mutation" THEN Prefix(Source, stat[w].len)
                        ELSE WritePage(Prefix(Source, stat[w].len), page[w], w)

StageInv(w) ==
  /\ EarlyNil(w) /\ NotForeign(w) /\ CleanedUp(w) /\ UpdateStages(w)
  /\ ModeStable(w) /\ ModeSet(w) /\ Validated(w) /\ LengthTaken(w) /\ Copied(w)
SInv == \A w \in Writers : StageInv(w)

\* Before the first call there is nothing to establish.
LEMMA SInvInit == Init => SInv
BY ZenonT(40) DEF Init, InitWith, SInv, StageInv, EarlyNil, NotForeign, CleanedUp, UpdateStages, ModeStable,
   ModeSet, Validated, LengthTaken, Copied, HasCopy, Holding

\* A call in progress keeps its private name, or loses it for good.
LEMMA NameKept ==
  ASSUME IInv, NEW w \in Writers, Call(w), NEW v \in Writers, pc[v] \in Holding, attempt'[v] = attempt[v],
         dir'[attempt[v]] = mine[v]
  PROVE  dir[attempt[v]] = mine[v]
<1>1. attempt[v] \in Names \ {Target} /\ mine[v] \in Inodes
  BY Distinct DEF IInv, NameHeld, Ownership, Names
<1>2. ~Free(mine[v]) /\ mine[v] # NIL
  BY <1>1, NotFree, Distinct DEF Holding
<1> QED
  BY <1>1, <1>2, CallFrame DEF Frame, FrameOfNames

\* The permissions of the target and of a call's private file.
LEMMA ModeKept ==
  ASSUME IInv, SInv, NEW w \in Writers, Call(w), NEW v \in Writers, kind[v] = "update",
         pc[v] \in Unpublished \union {"private"}
  PROVE  /\ dir[Target] # NIL /\ mode[dir[Target]] = stat[v].mode
         /\ mode'[dir[Target]] = stat[v].mode
         /\ pc[v] \in Unpublished /\ mode[mine[v]] = stat[v].mode => mode'[mine[v]] = stat[v].mode
         /\ dir'[Target] # NIL /\ mode'[dir'[Target]] = stat[v].mode
<1>1. FrameOfModes(w) /\ FrameOfNames(w)
  BY CallFrame DEF Frame
<1>2. dir[Target] # NIL /\ mode[dir[Target]] = stat[v].mode
  BY DEF SInv, StageInv, ModeStable
<1>3. dir[Target] \in Inodes /\ Target \in Names
  BY <1>2 DEF IInv, TypeOK, TypeDirectory, Names
<1>4. pc[w] = "metadata" => stat[w].mode = stat[v].mode
  BY <1>2 DEF SInv, StageInv, ModeStable, UpdateStages
<1>5. mode'[dir[Target]] = stat[v].mode
  BY <1>1, <1>2, <1>3, <1>4, NotFree DEF FrameOfModes
<1>6. pc[v] \in Unpublished => mine[v] \in Inodes /\ ~Free(mine[v])
  BY NotFree DEF IInv, Ownership, Holding
<1>7. pc[v] \in Unpublished /\ mode[mine[v]] = stat[v].mode => mode'[mine[v]] = stat[v].mode
  BY <1>1, <1>4, <1>6 DEF FrameOfModes
<1>8. CASE dir'[Target] = dir[Target]
  BY <1>2, <1>5, <1>7, <1>8
<1>9. CASE dir'[Target] # dir[Target]
  <2>1. pc[w] = "publish" /\ dir'[Target] = mine[w] /\ dir[attempt[w]] = mine[w] /\ kind[w] # "create"
    BY <1>1, <1>2, <1>9 DEF FrameOfNames, MayPublish
  <2>2. kind[w] = "update" /\ mine[w] \in Inodes /\ mine[w] # NIL /\ ~Free(mine[w])
    BY <2>1, Distinct, NotFree DEF IInv, TypeOK, TypeCalls, Ownership, Holding
  <2>3. mode[mine[w]] = stat[w].mode /\ stat[w].mode = mode[dir[Target]]
    BY <2>1, <2>2 DEF SInv, StageInv, ModeSet, ModeStable
  <2>4. mode'[mine[w]] = mode[mine[w]]
    BY <1>1, <2>1, <2>2 DEF FrameOfModes
  <2> QED
    BY <1>2, <1>5, <1>7, <2>1, <2>2, <2>3, <2>4
<1> QED
  BY <1>8, <1>9

\* What a call has established survives the steps of the others.
LEMMA OthersKept ==
  ASSUME IInv, SInv, NEW w \in Writers, Call(w), NEW v \in Writers \ {w}
  PROVE  StageInv(v)'
<1>1. Untouched(v) /\ FrameOfNames(w) /\ StageInv(v) /\ TypeCalls
  BY CallFrame DEF Frame, FrameOfCalls, SInv, IInv, TypeOK
<1>2. EarlyNil(v)' /\ UpdateStages(v)'
  BY <1>1 DEF Untouched, StageInv, EarlyNil, UpdateStages
<1>3. NotForeign(v)'
  BY <1>1, BytesKept DEF Untouched, StageInv, NotForeign
<1>4. CleanedUp(v)'
  BY <1>1, NameKept DEF Untouched, StageInv, CleanedUp, Holding
<1>5. ModeStable(v)'
  BY <1>1, ModeKept DEF Untouched, ModeStable
<1>6. ModeSet(v)'
  BY <1>1, ModeKept, NameKept, ZenonT(40) DEF Untouched, StageInv, ModeSet, Holding
<1>7. Validated(v)'
  BY <1>1, BytesKept, NameKept DEF Untouched, StageInv, Validated, Holding
<1>8. LengthTaken(v)' /\ Copied(v)'
  <2> SUFFICES ASSUME kind[v] = "update", pc[v] \in Unpublished \union {"private"}
               PROVE  LengthTaken(v)' /\ Copied(v)'
    BY <1>1 DEF Untouched, LengthTaken, Copied, HasCopy
  <2>1. dir[Target] # NIL
    BY ModeKept
  <2>2. CASE dir'[Target] = dir[Target]
    <3>1. raced'[v] = raced[v] /\ image'[dir[Target]] = image[dir[Target]]
      BY <1>1, <2>1, <2>2, BytesKept DEF FrameOfNames
    <3>2. Source' = Source
      BY <2>2, <3>1 DEF Source
    <3>3. pc[v] \in HasCopy => image'[mine[v]] = image[mine[v]]
      BY BytesKept DEF HasCopy, Holding
    <3> QED
      BY <1>1, <3>1, <3>2, <3>3 DEF Untouched, StageInv, LengthTaken, Copied
  <2>3. CASE dir'[Target] # dir[Target]
    <3>1. raced'[v] = IF pc[v] \in Unpublished \ {"copy"} THEN "copy"
                      ELSE IF pc[v] \in {"private", "copy"} THEN "length" ELSE raced[v]
      BY <1>1, <2>3 DEF FrameOfNames, Overtake
    <3> QED
      BY <1>1, <3>1 DEF Untouched, LengthTaken, Copied, HasCopy
  <2> QED
    BY <2>2, <2>3
<1> QED
  BY <1>2, <1>3, <1>4, <1>5, <1>6, <1>7, <1>8 DEF StageInv

\* What an update has read of the target stays true while the target is not replaced.
LEMMA OwnKept ==
  ASSUME IInv, SInv, NEW w \in Writers, Call(w), kind'[w] = kind[w], stat'[w] = stat[w],
         pc[w] \in Unpublished \union {"private"}, dir'[Target] = dir[Target]
  PROVE  /\ ModeStable(w)'
         /\ kind[w] = "update" => Source' = Source
<1>1. ModeStable(w)'
  BY ModeKept DEF ModeStable
<1>2. ASSUME kind[w] = "update" PROVE Source' = Source
  BY <1>2, ModeKept, BytesKept DEF Source
<1> QED
  BY <1>1, <1>2

\* A call that ends or fails has nothing left to establish but its cleanup.
LEMMA OwnEnds ==
  ASSUME NEW w \in Writers, pc'[w] \in {"done", "cleanup", "dirsync", "unlink"},
         pc'[w] = "cleanup" => (image[mine[w]] # Foreign)'
  PROVE  StageInv(w)'
BY DEF StageInv, EarlyNil, NotForeign, CleanedUp, UpdateStages, ModeStable, ModeSet, Validated,
   LengthTaken, Copied, HasCopy, Holding

\* The stages up to the private file.
LEMMA EarlyStages ==
  ASSUME IInv, SInv, NEW w \in Writers, Call(w),
         \/ OpenForUpdate(w) \/ OpenForCreate(w) \/ Stat(w) \/ ProbeTaken(w) \/ ProbeExhausted(w)
         \/ CreatePrivate(w) \/ CaptureFails(w)
  PROVE  StageInv(w)'
<1> USE DEF fsVars, callVars, ghosts, counters, Return, Goto, Fail
<1>a. TypeDirectory /\ TypeInodes /\ TypeCalls /\ TypeGhosts /\ StageInv(w)
  BY DEF IInv, TypeOK, SInv
<1>1. CASE OpenForUpdate(w) \/ OpenForCreate(w)
  <2>1. pc'[w] = "stat" /\ mine'[w] = NIL
    BY <1>1, <1>a DEF OpenForUpdate, OpenForCreate, NewCall, TypeCalls
  <2> QED
    BY <2>1 DEF StageInv, EarlyNil, NotForeign, CleanedUp, UpdateStages, ModeStable, ModeSet, Validated,
       LengthTaken, Copied, HasCopy, Holding
<1>2. CASE Stat(w)
  <2>1. CASE pc'[w] = "private"
    <3>1. /\ kind'[w] = kind[w] /\ mine'[w] = mine[w] /\ pc[w] = "stat" /\ UNCHANGED fsVars
          /\ kind[w] = "update" =>
               dir[Target] # NIL /\ stat'[w] = [len |-> Size(image[dir[Target]]), mode |-> mode[dir[Target]]]
      BY <1>2, <1>a, <2>1 DEF Stat, TypeCalls
    <3>2. EarlyNil(w)'
      BY <1>a, <3>1 DEF StageInv, EarlyNil
    <3>3. ModeStable(w)' /\ LengthTaken(w)'
      BY <3>1 DEF ModeStable, LengthTaken, Source
    <3> QED
      BY <2>1, <3>2, <3>3 DEF StageInv, NotForeign, CleanedUp, UpdateStages, ModeSet, Validated,
         Copied, HasCopy, Holding
  <2>2. CASE pc'[w] = "done"
    BY <2>2, OwnEnds
  <2> QED
    BY <1>2, <1>a, <2>1, <2>2 DEF Stat, TypeCalls
<1>3. CASE ProbeTaken(w)
  BY <1>3, <1>a DEF ProbeTaken, StageInv, EarlyNil, NotForeign, CleanedUp, UpdateStages, ModeStable,
     ModeSet, Validated, LengthTaken, Source, Copied, HasCopy, Holding
<1>4. CASE ProbeExhausted(w) \/ CaptureFails(w)
  <2>1. pc'[w] = "done"
    BY <1>4, <1>a DEF ProbeExhausted, CaptureFails, TypeCalls
  <2> QED
    BY <2>1, OwnEnds
<1>5. CASE CreatePrivate(w)
  <2>1. PICK i \in Inodes : mine' = [mine EXCEPT ![w] = i] /\ image' = [image EXCEPT ![i] = <<>>]
    BY <1>5 DEF CreatePrivate
  <2>2. /\ pc[w] = "private" /\ pc'[w] = (IF kind[w] = "update" THEN "copy" ELSE "mutation")
        /\ kind'[w] = kind[w] /\ stat'[w] = stat[w] /\ raced'[w] = raced[w]
    BY <1>5, <1>a DEF CreatePrivate, TypeCalls
  <2>3. image'[mine'[w]] = <<>> /\ <<>> # Foreign
    <3>1. <<>> \in Seq(Pages)
      OBVIOUS
    <3> QED
      BY <1>a, <2>1, <3>1, Distinct DEF TypeCalls, TypeInodes
  <2>4. dir'[Target] = dir[Target]
    BY <2>2, CallFrame DEF Frame, FrameOfNames
  <2>5. ModeStable(w)' /\ (kind[w] = "update" => Source' = Source)
    BY <2>2, <2>4, OwnKept
  <2>6. LengthTaken(w)'
    BY <1>a, <2>2, <2>5 DEF StageInv, LengthTaken
  <2>7. NotForeign(w)'
    BY <2>3 DEF NotForeign
  <2> QED
    BY <2>2, <2>5, <2>6, <2>7 DEF StageInv, EarlyNil, CleanedUp, UpdateStages, ModeSet, Validated,
       Copied, HasCopy
<1> QED
  BY <1>1, <1>2, <1>3, <1>4, <1>5

\* The stages that fill, validate and publish the private file.
LEMMA PrivateStages ==
  ASSUME IInv, SInv, NEW w \in Writers, Call(w),
         \/ Copy(w) \/ Mutation(w) \/ Metadata(w) \/ Validation(w) \/ FileSync(w)
  PROVE  StageInv(w)'
<1> USE DEF fsVars, callVars, ghosts, counters, Return, Goto, Fail
<1>a. TypeDirectory /\ TypeInodes /\ TypeCalls /\ TypeGhosts /\ StageInv(w)
  BY DEF IInv, TypeOK, SInv
<1>b. pc[w] \in Unpublished \ {"publish"} /\ pc'[w] \in Unpublished \union {"cleanup"} /\ pc'[w] # "copy"
  BY <1>a DEF Copy, Mutation, Metadata, Validation, FileSync, TypeCalls
<1>c. /\ kind' = kind /\ stat' = stat /\ mine' = mine /\ attempt' = attempt /\ want' = want
      /\ page' = page /\ raced' = raced /\ dir' = dir
  BY DEF Copy, Mutation, Metadata, Validation, FileSync
<1>d. ModeStable(w)' /\ (kind[w] = "update" => Source' = Source /\ dir[Target] # NIL)
  BY <1>b, <1>c, OwnKept, ModeKept
<1>e. mine[w] \in Inodes
  BY <1>b DEF IInv, Ownership, Holding
<1>f. kind[w] = "update" => Source \in Images /\ Size(Source) \in Nat /\ stat[w].len \in Nat
  <2>1. kind[w] = "update" => Source \in Images
    BY <1>a, <1>d DEF TypeDirectory, TypeInodes, Source, Names
  <2> QED
    BY <1>a, <2>1, SizeType DEF TypeCalls
<1>g. EarlyNil(w)' /\ CleanedUp(w)' /\ LengthTaken(w)'
  BY <1>b DEF EarlyNil, CleanedUp, LengthTaken
<1>1. CASE Copy(w)
  <2>1. kind[w] = "update" /\ pc[w] = "copy"
    BY <1>1, <1>a DEF Copy, StageInv, UpdateStages
  <2>2. CASE pc'[w] = "cleanup"
    <3>1. image'[mine'[w]] = Torn
      BY <1>1, <1>a, <1>c, <1>e, <2>2 DEF Copy, TypeCalls, TypeInodes
    <3> QED
      BY <2>2, <3>1, OwnEnds, Distinct
  <2>3. CASE pc'[w] = "mutation"
    <3>1. image'[mine[w]] = Prefix(Source, stat[w].len) /\ Size(Source) >= stat[w].len
      BY <1>1, <1>a, <1>e, <2>3 DEF Copy, CopySource, Source, TypeCalls, TypeInodes
    <3>2. Prefix(Source, stat[w].len) # Foreign
      BY <1>f, <2>1, <3>1, PrefixType, Distinct
    <3>3. NotForeign(w)'
      BY <1>c, <3>1, <3>2 DEF NotForeign
    <3>4. raced[w] = "no" => stat[w].len = Size(Source)
      BY <1>a, <2>1 DEF StageInv, LengthTaken
    <3>5. Copied(w)'
      BY <1>c, <1>d, <2>1, <2>3, <3>1, <3>4 DEF Copied
    <3> QED
      BY <1>d, <1>g, <2>3, <3>3, <3>5 DEF StageInv, UpdateStages, ModeSet, Validated
  <2> QED
    BY <1>1, <1>a, <2>1, <2>2, <2>3 DEF Copy, TypeCalls
<1>2. CASE Mutation(w)
  <2>1. /\ pc[w] = "mutation" /\ pc'[w] = (IF kind[w] = "update" THEN "metadata" ELSE "validation")
        /\ image'[mine[w]] = IF kind[w] = "create" THEN want[w] ELSE WritePage(image[mine[w]], page[w], w)
    BY <1>2, <1>a, <1>e DEF Mutation, TypeCalls, TypeInodes
  <2>2. kind[w] \in {"create", "update"} /\ want[w] \in Seq(Pages)
    BY <1>a DEF TypeCalls
  <2>3. WritePage(image[mine[w]], page[w], w) \in Seq(Pages)
    <3>1. image[mine[w]] \in Images /\ page[w] \in Nat /\ w \in Pages
      BY <1>a, <1>e DEF TypeInodes, TypeCalls, Pages
    <3> QED
      BY <3>1, WritePageType
  <2>4. NotForeign(w)'
    BY <1>c, <2>1, <2>2, <2>3, Distinct DEF NotForeign
  <2>5. Copied(w)'
    BY <1>a, <1>c, <1>d, <2>1, <2>2 DEF StageInv, Copied, HasCopy
  <2> QED
    BY <1>c, <1>d, <1>g, <2>1, <2>2, <2>4, <2>5 DEF StageInv, UpdateStages, ModeSet, Validated
<1>3. CASE Metadata(w) \/ Validation(w) \/ FileSync(w)
  <2>1. image' = image /\ pc[w] \in {"metadata", "validation", "filesync"}
    BY <1>3 DEF Metadata, Validation, FileSync
  <2>2. image[mine[w]] # Foreign
    BY <1>a, <2>1 DEF StageInv, NotForeign, Holding
  <2>3. CASE pc'[w] = "cleanup"
    BY <1>c, <2>1, <2>2, <2>3, OwnEnds
  <2>4. CASE pc'[w] # "cleanup"
    <3>1. pc'[w] \in {"validation", "filesync", "publish"}
      BY <1>3, <1>a, <2>4 DEF Metadata, Validation, FileSync, TypeCalls
    <3>2. NotForeign(w)' /\ UpdateStages(w)'
      BY <1>c, <2>1, <2>2, <3>1 DEF NotForeign, UpdateStages
    <3>3. Copied(w)'
      BY <1>a, <1>c, <1>d, <2>1, <3>1 DEF StageInv, Copied, HasCopy
    <3>4. Validated(w)'
      <4>1. CASE Validation(w)
        BY <1>a, <1>c, <2>1, <2>4, <4>1 DEF Validation, CandidateMatches, Validated, TypeCalls
      <4>2. CASE Metadata(w)
        BY <1>a, <2>4, <4>2 DEF Metadata, Validated, TypeCalls
      <4>3. CASE FileSync(w)
        BY <1>a, <1>c, <2>1, <4>3 DEF FileSync, StageInv, Validated, TypeCalls
      <4> QED
        BY <1>3, <4>1, <4>2, <4>3
    <3>5. ModeSet(w)'
      <4>1. CASE Metadata(w)
        BY <1>a, <1>c, <1>e, <2>4, <4>1 DEF Metadata, ModeSet, TypeCalls, TypeInodes
      <4>2. CASE Validation(w) \/ FileSync(w)
        BY <1>a, <1>c, <2>1, <4>2 DEF Validation, FileSync, StageInv, ModeSet, TypeCalls
      <4> QED
        BY <1>3, <4>1, <4>2
    <3> QED
      BY <1>d, <1>g, <3>2, <3>3, <3>4, <3>5 DEF StageInv
  <2> QED
    BY <2>3, <2>4
<1> QED
  BY <1>1, <1>2, <1>3

\* Publication and what follows it, failure, and a hook's substitution.
LEMMA LateStages ==
  ASSUME IInv, SInv, NEW w \in Writers, Call(w),
         \/ Publish(w) \/ UnlinkPrivate(w) \/ DirectorySync(w) \/ StageFails(w) \/ Cleanup(w)
         \/ DropPrivate(w) \/ HookSubstitutes(w)
  PROVE  StageInv(w)'
<1> USE DEF fsVars, callVars, ghosts, counters, Return, Goto, Fail
<1>a. TypeDirectory /\ TypeInodes /\ TypeCalls /\ TypeGhosts /\ StageInv(w)
  BY DEF IInv, TypeOK, SInv
<1>b. pc[w] \in Holding => mine[w] \in Inodes /\ image[mine[w]] # Foreign /\ attempt[w] \in Names \ {Target}
  BY <1>a, Distinct DEF IInv, Ownership, NameHeld, StageInv, NotForeign, Names
<1>1. CASE Publish(w)
  <2>1. pc'[w] \in {"cleanup", "dirsync", "unlink"} /\ image' = image /\ mine' = mine /\ pc[w] = "publish"
    BY <1>1, <1>a DEF Publish, TypeCalls
  <2> QED
    BY <1>b, <2>1, OwnEnds DEF Holding
<1>2. CASE UnlinkPrivate(w) \/ DirectorySync(w) \/ DropPrivate(w)
  <2>1. pc'[w] \in {"done", "dirsync"}
    BY <1>2, <1>a DEF UnlinkPrivate, DirectorySync, DropPrivate, TypeCalls
  <2> QED
    BY <2>1, OwnEnds
<1>3. CASE StageFails(w)
  <2>1. pc'[w] \in {"done", "cleanup"} /\ mine' = mine /\ (pc'[w] = "cleanup" => pc[w] \in Unpublished)
    BY <1>3, <1>a DEF StageFails, TypeCalls
  <2>2. pc'[w] = "cleanup" => image'[mine[w]] # Foreign
    BY <1>3, <1>a, <1>b, <2>1, Distinct DEF StageFails, TypeInodes, Holding
  <2> QED
    BY <2>1, <2>2, OwnEnds
<1>4. CASE Cleanup(w)
  <2>1. /\ pc[w] = "cleanup" /\ pc'[w] = "drop" /\ image' = image /\ mine' = mine /\ attempt' = attempt
        /\ dir' = [dir EXCEPT ![attempt[w]] = NIL] \/ cleanupError' = [cleanupError EXCEPT ![w] = TRUE]
    BY <1>4, <1>a DEF Cleanup, SetDir, TypeCalls
  <2>2. NotForeign(w)'
    BY <1>b, <2>1 DEF NotForeign, Holding
  <2>3. CleanedUp(w)'
    BY <1>a, <1>b, <2>1, Distinct DEF CleanedUp, Holding, TypeDirectory, TypeCalls
  <2> QED
    BY <2>1, <2>2, <2>3 DEF StageInv, EarlyNil, UpdateStages, ModeStable, ModeSet, Validated,
       LengthTaken, Copied, HasCopy
<1>5. CASE HookSubstitutes(w)
  <2>1. /\ pc' = pc /\ kind' = kind /\ stat' = stat /\ mine' = mine /\ attempt' = attempt
        /\ want' = want /\ page' = page /\ raced' = raced
        /\ pc[w] \in Unpublished \union {"unlink", "cleanup"}
    BY <1>5 DEF HookSubstitutes
  <2>2. CASE pc[w] = "unlink"
    BY <2>1, <2>2, OwnEnds
  <2>3. CASE pc[w] \in Unpublished \union {"cleanup"}
    <3>1. ~Free(mine[w]) /\ pc[w] \in Holding /\ mine[w] # NIL
      BY <1>b, <2>3, NotFree, Distinct DEF Holding
    <3>2. PICK x : /\ x = NIL \/ (x \in Inodes /\ Free(x))
                   /\ dir' = [dir EXCEPT ![attempt[w]] = x]
                   /\ image' = image \/ image' = [image EXCEPT ![x] = Foreign]
      BY <1>5 DEF HookSubstitutes, SetDir
    <3>3. dir'[attempt[w]] # mine[w] /\ dir'[Target] = dir[Target]
      BY <1>a, <1>b, <3>1, <3>2 DEF TypeDirectory, Names
    <3>4. image'[mine[w]] = image[mine[w]]
      BY <1>a, <1>b, <3>1, <3>2 DEF TypeInodes
    <3>5. EarlyNil(w)' /\ NotForeign(w)' /\ CleanedUp(w)' /\ UpdateStages(w)'
      BY <1>a, <1>b, <2>1, <2>3, <3>1, <3>4 DEF StageInv, EarlyNil, NotForeign, CleanedUp, UpdateStages
    <3>6. ModeSet(w)' /\ Validated(w)'
      BY <2>1, <3>3 DEF ModeSet, Validated
    <3>7. pc[w] \in Unpublished => ModeStable(w)' /\ (kind[w] = "update" => Source' = Source)
      BY <2>1, <3>3, OwnKept
    <3>8. ModeStable(w)' /\ LengthTaken(w)' /\ Copied(w)'
      <4>1. CASE pc[w] = "cleanup"
        BY <2>1, <4>1 DEF ModeStable, LengthTaken, Copied, HasCopy
      <4>2. CASE pc[w] \in Unpublished
        BY <1>a, <2>1, <3>4, <3>7, <4>2 DEF StageInv, LengthTaken, Copied
      <4> QED
        BY <2>3, <4>1, <4>2
    <3> QED
      BY <3>5, <3>6, <3>8 DEF StageInv
  <2> QED
    BY <2>1, <2>2, <2>3
<1> QED
  BY <1>1, <1>2, <1>3, <1>4, <1>5

\* Every step keeps what the stages of all calls have established.
LEMMA SInvNext == IInv /\ SInv /\ [Next]_vars => SInv'
<1> SUFFICES ASSUME IInv, SInv, [Next]_vars PROVE SInv'
  OBVIOUS
<1>1. ASSUME NEW w \in Writers, Call(w) PROVE SInv'
  <2>1. StageInv(w)'
    BY <1>1, EarlyStages, PrivateStages, LateStages DEF Call
  <2> QED
    BY <1>1, <2>1, OthersKept DEF SInv
<1>2. CASE ProcessKilled \/ PowerLoss
  <2>1. \A w \in Writers : pc'[w] = "idle"
    BY <1>2 DEF ProcessKilled, PowerLoss, StopCalls
  <2> QED
    BY <2>1 DEF SInv, StageInv, EarlyNil, NotForeign, CleanedUp, UpdateStages, ModeStable, ModeSet,
       Validated, LengthTaken, Copied, HasCopy, Holding
<1>3. CASE UNCHANGED vars
  BY <1>3 DEF vars, fsVars, callVars, ghosts, counters, SInv, StageInv, EarlyNil, NotForeign, CleanedUp,
     UpdateStages, ModeStable, ModeSet, Validated, LengthTaken, Source, Copied
<1> QED
  BY <1>1, <1>2, <1>3 DEF Next

\* A crash step counts itself, so a step that counts none is a call's.
LEMMA CallsOwn ==
  ASSUME IInv, [Next]_vars, crashes' = crashes
  PROVE  (\E w \in Writers : Call(w)) \/ UNCHANGED vars
BY DEF Next, ProcessKilled, PowerLoss, StopCalls, IInv, TypeOK, TypeGhosts

\* The target changes hands only by a publication of the planned image, with the permissions
\* the target had (atomic_update's replace after verify_path_identity and the validator).
THEOREM TargetTakesThePlan == Spec => PublishesThePlan
<1>1. ASSUME IInv, SInv, [Next]_vars, dir'[Target] # dir[Target], crashes' = crashes
      PROVE  \E w \in Writers :
               /\ pc[w] = "publish" /\ dir'[Target] = mine[w]
               /\ image[mine[w]] = want[w]
               /\ kind[w] = "update" => mode[mine[w]] = stat[w].mode
  <2>1. PICK w \in Writers : Call(w)
    BY <1>1, CallsOwn DEF vars, fsVars
  <2>2. pc[w] = "publish" /\ dir[attempt[w]] = mine[w] /\ dir'[Target] = mine[w]
    BY <1>1, <2>1, CallFrame DEF Frame, FrameOfNames
  <2> QED
    BY <1>1, <2>2 DEF SInv, StageInv, Validated, ModeSet
<1> QED
  BY <1>1, IInvInit, IInvNext, SInvInit, SInvNext, PTL DEF Spec, PublishesThePlan

\* Where a call may report a failure: before it has a private file, or at Drop.
LEMMA FailsAt ==
  ASSUME IInv, NEW w \in Writers, Call(w), result[w] # "failed", result'[w] = "failed"
  PROVE  pc[w] \in {"stat", "private", "drop"}
<1> USE DEF fsVars, callVars, ghosts, counters, Return, Goto, Fail
<1>1. TypeCalls
  BY DEF IInv, TypeOK
<1>2. CASE OpenForUpdate(w) \/ OpenForCreate(w)
  BY <1>1, <1>2 DEF OpenForUpdate, OpenForCreate, NewCall, TypeCalls
<1>3. CASE Stat(w) \/ ProbeTaken(w) \/ ProbeExhausted(w) \/ CreatePrivate(w) \/ CaptureFails(w)
  BY <1>3 DEF Stat, ProbeTaken, ProbeExhausted, CreatePrivate, CaptureFails
<1>4. CASE Copy(w) \/ Mutation(w) \/ Metadata(w) \/ Validation(w) \/ FileSync(w)
  BY <1>1, <1>4 DEF Copy, Mutation, Metadata, Validation, FileSync, TypeCalls, Unpublished
<1>5. CASE Publish(w) \/ UnlinkPrivate(w) \/ DirectorySync(w)
  BY <1>1, <1>5 DEF Publish, UnlinkPrivate, DirectorySync, TypeCalls, Unpublished, Published
<1>6. CASE StageFails(w)
  BY <1>1, <1>6 DEF StageFails, TypeCalls
<1>7. CASE Cleanup(w) \/ DropPrivate(w) \/ HookSubstitutes(w)
  BY <1>7 DEF Cleanup, DropPrivate, HookSubstitutes
<1> QED
  BY <1>2, <1>3, <1>4, <1>5, <1>6, <1>7 DEF Call

\* An error reported before publication tells the truth: no surviving directory publishes the
\* call's private file.
THEOREM FailureTellsTheTruth == Spec => FailedMeansUnpublished
<1>1. ASSUME IInv, SInv, [Next]_vars, NEW w \in Writers,
             result[w] # "failed", result'[w] = "failed", mine[w] # NIL
      PROVE  \A d \in dirs : d[Target] # mine[w]
  <2>1. \/ \E v \in Writers : Call(v)
        \/ UNCHANGED vars
        \/ result'[w] = "none"
    BY <1>1 DEF Next, ProcessKilled, PowerLoss, StopCalls
  <2>2. PICK v \in Writers : Call(v)
    BY <1>1, <2>1 DEF vars
  <2>3. v = w
    BY <1>1, <2>2, CallFrame DEF Frame, FrameOfCalls, Untouched
  <2>4. pc[w] = "drop"
    BY <1>1, <2>2, <2>3, FailsAt DEF SInv, StageInv, EarlyNil
  <2> QED
    BY <1>1, <2>4 DEF IInv, Ownership, Holding
<1>2. IInv /\ SInv /\ [Next]_vars =>
       [\A w \in Writers :
            (result[w] # "failed" /\ result'[w] = "failed" /\ mine[w] # NIL)
            => \A d \in dirs : d[Target] # mine[w]]_vars
  BY <1>1
<1> QED
  BY <1>2, IInvInit, IInvNext, SInvInit, SInvNext, PTL DEF Spec, FailedMeansUnpublished

\* A failed call whose private file is left behind reports a cleanup error.
THEOREM LeftoversAreReported == Spec => LeftoverReported
<1>1. ASSUME IInv, SInv, [Next]_vars, NEW w \in Writers,
             pc[w] = "drop", pc'[w] = "done", dir'[attempt[w]] = mine[w]
      PROVE  cleanupError'[w]
  <2>1. \/ \E v \in Writers : Call(v)
        \/ UNCHANGED vars
        \/ pc'[w] = "idle"
    BY <1>1 DEF Next, ProcessKilled, PowerLoss, StopCalls
  <2>2. PICK v \in Writers : Call(v)
    BY <1>1, <2>1 DEF vars
  <2>3. v = w
    BY <1>1, <2>2, CallFrame DEF Frame, FrameOfCalls, Untouched
  <2>4. DropPrivate(w)
    BY <1>1, <2>2, <2>3 DEF Call, OpenForUpdate, OpenForCreate, NewCall, Stat, ProbeTaken, ProbeExhausted,
       CreatePrivate, CaptureFails, Copy, Mutation, Metadata, Validation, FileSync, Publish,
       UnlinkPrivate, DirectorySync, StageFails, Cleanup, HookSubstitutes, Quiet, Unpublished, Published
  <2>5. attempt' = attempt /\ cleanupError' = cleanupError
    BY <2>4 DEF DropPrivate
  <2>6. dir[attempt[w]] = mine[w]
    BY <1>1, <2>2, <2>3, <2>5, NameKept DEF Holding
  <2>7. cleanupError[w] \in BOOLEAN
    BY <1>1 DEF IInv, TypeOK, TypeCalls
  <2> QED
    BY <1>1, <2>5, <2>6, <2>7 DEF SInv, StageInv, CleanedUp
<1>2. IInv /\ SInv /\ [Next]_vars =>
       [\A w \in Writers :
            (pc[w] = "drop" /\ pc'[w] = "done" /\ dir'[attempt[w]] = mine[w])
            => cleanupError'[w]]_vars
  BY <1>1
<1> QED
  BY <1>2, IInvInit, IInvNext, SInvInit, SInvNext, PTL DEF Spec, LeftoverReported

\* Which entry a call may take away: its own, or an absent one, but for the create's unlink.
LEMMA TakesOwnEntry ==
  ASSUME IInv, NEW w \in Writers, Call(w), NEW n \in Names \ {Target}, dir[n] # NIL, dir'[n] # dir[n]
  PROVE  n = attempt[w] /\ (pc[w] = "unlink" \/ (pc[w] \in Holding /\ dir[n] = mine[w]))
<1> USE DEF fsVars, callVars, ghosts, counters, SetDir
<1>1. TypeDirectory
  BY DEF IInv, TypeOK
<1>2. CASE \/ OpenForUpdate(w) \/ OpenForCreate(w) \/ Stat(w) \/ ProbeTaken(w) \/ ProbeExhausted(w)
           \/ Copy(w) \/ Mutation(w) \/ Metadata(w) \/ Validation(w) \/ FileSync(w)
           \/ DirectorySync(w) \/ StageFails(w)
  BY <1>2 DEF OpenForUpdate, OpenForCreate, NewCall, Stat, ProbeTaken, ProbeExhausted, Copy, Mutation,
     Metadata, Validation, FileSync, DirectorySync, StageFails
<1>3. CASE CreatePrivate(w) \/ CaptureFails(w)
  BY <1>1, <1>3 DEF CreatePrivate, CaptureFails, TypeDirectory
<1>4. CASE Publish(w)
  BY <1>1, <1>4 DEF Publish, VerifyPathIdentity, TypeDirectory, Holding
<1>5. CASE UnlinkPrivate(w)
  BY <1>1, <1>5 DEF UnlinkPrivate, TypeDirectory
<1>6. CASE Cleanup(w) \/ DropPrivate(w)
  BY <1>1, <1>6 DEF Cleanup, DropPrivate, VerifyPathIdentity, TypeDirectory, Holding
<1>7. CASE HookSubstitutes(w)
  <2>1. pc[w] = "unlink" \/ pc[w] \in Holding
    BY <1>7 DEF HookSubstitutes, Holding
  <2> QED
    BY <1>1, <1>7, <2>1 DEF HookSubstitutes, VerifyPathIdentity, TypeDirectory
<1> QED
  BY <1>2, <1>3, <1>4, <1>5, <1>6, <1>7 DEF Call

\* The entry of a file a hook put in place of a private copy is removed only by the create's
\* unlink after publication.
THEOREM ForeignFilesStay == Spec => ForeignEntriesSurvive
<1>1. ASSUME IInv, SInv, [Next]_vars, NEW n \in Names,
             dir[n] # NIL, image[dir[n]] = Foreign, dir'[n] # dir[n], crashes' = crashes
      PROVE  \E w \in Writers : pc[w] = "unlink" /\ attempt[w] = n
  <2>1. PICK w \in Writers : Call(w)
    BY <1>1, CallsOwn DEF vars, fsVars
  <2>2. n # Target
    BY <1>1, Distinct DEF IInv, TargetIntact, TypeOK, TypeGhosts
  <2>3. n = attempt[w] /\ (pc[w] = "unlink" \/ (pc[w] \in Holding /\ dir[n] = mine[w]))
    BY <1>1, <2>1, <2>2, TakesOwnEntry
  <2> QED
    BY <1>1, <2>3 DEF SInv, StageInv, NotForeign
<1>2. IInv /\ SInv /\ [Next]_vars =>
       [\A n \in Names :
            (dir[n] # NIL /\ image[dir[n]] = Foreign /\ dir'[n] # dir[n]
               /\ crashes' = crashes)
            => \E w \in Writers : pc[w] = "unlink" /\ attempt[w] = n]_vars
  BY <1>1
<1> QED
  BY <1>2, IInvInit, IInvNext, SInvInit, SInvNext, PTL DEF Spec, ForeignEntriesSurvive

\* The page write keeps every other page of a prefix.
LEMMA WrittenPrefix ==
  ASSUME NEW img, NEW n \in Nat, NEW q \in Nat, NEW v, NEW p \in 1 .. n, p # q,
         Prefix(img, n) \in Seq(Pages)
  PROVE  p \in DOMAIN WritePage(Prefix(img, n), q, v) /\ WritePage(Prefix(img, n), q, v)[p] = img[p]
<1>1. Readable(Prefix(img, n))
  BY Distinct DEF Readable
<1>2. Len(Prefix(img, n)) = n
  BY DEF Prefix
<1>3. Size(Prefix(img, n)) = n
  BY <1>1, <1>2 DEF Size
<1>4. Prefix(img, n)[p] = img[p]
  BY DEF Prefix
<1>5. p \in 1 .. (IF q > n THEN q ELSE n)
  OBVIOUS
<1> QED
  BY <1>3, <1>4, <1>5 DEF WritePage

\* An update that publishes over a page it has not seen had copied the target, or taken its
\* length, before that page was published (verify_changes notices every other replacement).
THEOREM OnlyTheCopyIsStale == Spec => StaleOnlyAfterCopy
<1>1. ASSUME IInv, SInv, [Next]_vars, NEW w \in Writers,
             pc[w] = "publish", kind[w] = "update", dir[Target] # NIL, dir'[Target] = mine[w],
             raced[w] # "copy",
             NEW p \in 1 .. Size(image[dir[Target]]), p # page[w], raced[w] = "length" => p <= stat[w].len
      PROVE  p \in DOMAIN want[w] /\ want[w][p] = image[dir[Target]][p]
  <2>1. \A d \in dirs : d[Target] # mine[w]
    BY <1>1 DEF IInv, Ownership, Holding
  <2>2. dir'[Target] # dir[Target] /\ dir' \notin dirs
    BY <1>1, <2>1 DEF IInv
  <2>3. PICK v \in Writers : Call(v)
    BY <1>1, <2>2 DEF Next, ProcessKilled, PowerLoss, vars, fsVars, IInv
  <2>4. pc[v] = "publish" /\ dir[attempt[v]] = mine[v] /\ dir'[Target] = mine[v]
    BY <1>1, <2>2, <2>3, CallFrame DEF Frame, FrameOfNames
  <2>5. v = w
    BY <1>1, <2>4 DEF IInv, Ownership, Holding, Quiet
  <2>6. image[mine[w]] = want[w]
    BY <1>1, <2>4, <2>5 DEF SInv, StageInv, Validated
  <2>7. /\ Size(Source) >= stat[w].len /\ (raced[w] = "no" => stat[w].len = Size(Source))
        /\ image[mine[w]] = WritePage(Prefix(Source, stat[w].len), page[w], w)
    BY <1>1 DEF SInv, StageInv, Copied, HasCopy
  <2>8. Source \in Images /\ stat[w].len \in Nat /\ page[w] \in Nat /\ raced[w] \in {"no", "length"}
    BY <1>1 DEF Source, IInv, TypeOK, TypeDirectory, TypeInodes, TypeCalls, TypeGhosts, Names
  <2>9. Size(Source) \in Nat /\ Prefix(Source, stat[w].len) \in Seq(Pages)
    BY <2>7, <2>8, SizeType, PrefixType
  <2>10. p \in 1 .. stat[w].len
    BY <1>1, <2>7, <2>8, <2>9 DEF Source
  <2>11. /\ p \in DOMAIN WritePage(Prefix(Source, stat[w].len), page[w], w)
         /\ WritePage(Prefix(Source, stat[w].len), page[w], w)[p] = Source[p]
    BY <1>1, <2>8, <2>9, <2>10, WrittenPrefix
  <2> QED
    BY <2>6, <2>7, <2>11 DEF Source
<1>2. IInv /\ SInv /\ [Next]_vars =>
       [\A w \in Writers :
            (pc[w] = "publish" /\ kind[w] = "update" /\ dir[Target] # NIL
               /\ dir'[Target] = mine[w] /\ raced[w] # "copy")
            => \A p \in 1 .. Size(image[dir[Target]]) :
                 (p # page[w] /\ (raced[w] = "length" => p <= stat[w].len))
                 => p \in DOMAIN want[w] /\ want[w][p] = image[dir[Target]][p]]_vars
  BY <1>1
<1> QED
  BY <1>2, IInvInit, IInvNext, SInvInit, SInvNext, PTL DEF Spec, StaleOnlyAfterCopy

-----------------------------------------------------------------------------
(* Refinement: with concurrent writers excluded, one file that changes in one step. *)

\* One call at a time, and until it publishes, its plan is still a plan for the target: the target
\* is the file it was made from.
Alone == \A v, w \in Writers : pc[v] \notin Quiet /\ pc[w] \notin Quiet => v = w
PlanCurrent(w) ==
  pc[w] \in Unpublished \union {"stat", "private"} =>
    \/ /\ kind[w] = "update" /\ dir[Target] # NIL /\ page[w] \in 1 .. MaxPages
       /\ want[w] = WritePage(image[dir[Target]], page[w], w)
    \/ kind[w] = "create" /\ want[w] = <<w>>
Sequential == Alone /\ \A w \in Writers : PlanCurrent(w)

\* Opening a call finds everybody quiet; every other step of a call leaves the others so.
LEMMA SequentialNext == Exclusive /\ IInv /\ Sequential /\ [Next]_vars => Sequential'
<1> SUFFICES ASSUME Exclusive, IInv, Sequential, [Next]_vars PROVE Sequential'
  OBVIOUS
<1> USE DEF fsVars, callVars, ghosts, counters, Return, Goto, Fail
<1>a. TypeDirectory /\ TypeInodes /\ TypeCalls /\ TypeGhosts
  BY DEF IInv, TypeOK
<1>1. ASSUME NEW w \in Writers, Call(w) PROVE Sequential'
  <2>1. \A v \in Writers \ {w} : pc'[v] = pc[v] /\ pc[v] \in Quiet
    <3>1. (\A v \in Writers : pc[v] \in Quiet) \/ pc[w] \notin Quiet
      BY <1>1 DEF Call, OpenForUpdate, OpenForCreate, NewCall, Stat, ProbeTaken, ProbeExhausted,
         CreatePrivate, CaptureFails, Copy, Mutation, Metadata, Validation, FileSync, Publish,
         UnlinkPrivate, DirectorySync, StageFails, Cleanup, DropPrivate, HookSubstitutes
    <3>2. \A v \in Writers \ {w} : pc'[v] = pc[v]
      BY <1>1, CallFrame DEF Frame, FrameOfCalls, Untouched
    <3> QED
      BY <3>1, <3>2 DEF Sequential, Alone
  <2>2. Alone'
    BY <2>1 DEF Alone
  <2>3. \A v \in Writers \ {w} : PlanCurrent(v)'
    BY <2>1 DEF PlanCurrent
  <2>4. PlanCurrent(w)'
    <3>1. CASE OpenForUpdate(w)
      BY <1>a, <3>1 DEF OpenForUpdate, NewCall, PlanCurrent, TypeCalls
    <3>2. CASE OpenForCreate(w)
      BY <1>a, <3>2 DEF OpenForCreate, NewCall, PlanCurrent, TypeCalls
    <3>3. CASE ~OpenForUpdate(w) /\ ~OpenForCreate(w)
      <4>1. kind' = kind /\ page' = page /\ want' = want
        BY <1>1, <3>3 DEF Call, Stat, ProbeTaken, ProbeExhausted, CreatePrivate, CaptureFails, Copy,
           Mutation, Metadata, Validation, FileSync, Publish, UnlinkPrivate, DirectorySync,
           StageFails, Cleanup, DropPrivate, HookSubstitutes
      <4>2. pc'[w] \in Unpublished \union {"stat", "private"} =>
              pc[w] \in Unpublished \union {"stat", "private"} /\ dir'[Target] = dir[Target]
        <5>1. CASE Publish(w)
          BY <1>a, <5>1 DEF Publish, TypeCalls
        <5>2. CASE ~Publish(w)
          <6>1. dir'[Target] = dir[Target]
            <7> SUFFICES ASSUME dir'[Target] # dir[Target] PROVE FALSE
              OBVIOUS
            <7>1. pc[w] = "publish" /\ attempt[w] # Target
              BY <1>1, CallFrame, Distinct DEF Frame, FrameOfNames, IInv, NameHeld, Holding
            <7>2. StageFails(w) \/ HookSubstitutes(w)
              BY <1>1, <3>3, <5>2, <7>1 DEF Call, Stat, ProbeTaken, ProbeExhausted, CreatePrivate,
                 CaptureFails, Copy, Mutation, Metadata, Validation, FileSync, UnlinkPrivate,
                 DirectorySync, Cleanup, DropPrivate
            <7> QED
              BY <1>a, <7>1, <7>2 DEF StageFails, HookSubstitutes, SetDir, TypeDirectory, Names
          <6>2. pc'[w] \in Unpublished \union {"stat", "private"} => pc[w] \in Unpublished \union {"stat", "private"}
            BY <1>1, <1>a, <3>3, <5>2 DEF Call, Stat, ProbeTaken, ProbeExhausted, CreatePrivate, CaptureFails,
               Copy, Mutation, Metadata, Validation, FileSync, UnlinkPrivate, DirectorySync,
               StageFails, Cleanup, DropPrivate, HookSubstitutes, TypeCalls
          <6> QED
            BY <6>1, <6>2
        <5> QED
          BY <5>1, <5>2
      <4> QED
        BY <1>1, <4>1, <4>2, BytesKept DEF Sequential, PlanCurrent
    <3> QED
      BY <3>1, <3>2, <3>3
  <2> QED
    BY <2>2, <2>3, <2>4 DEF Sequential
<1>2. CASE ProcessKilled \/ PowerLoss
  <2>1. \A w \in Writers : pc'[w] = "idle"
    BY <1>2 DEF ProcessKilled, PowerLoss, StopCalls
  <2> QED
    BY <2>1 DEF Sequential, Alone, PlanCurrent
<1>3. CASE UNCHANGED vars
  BY <1>3 DEF vars, Sequential, Alone, PlanCurrent
<1> QED
  BY <1>1, <1>2, <1>3 DEF Next

\* The images of the directories that may survive do not change under a call.
LEMMA StableKept ==
  ASSUME IInv, NEW w \in Writers, Call(w), NEW d \in dirs
  PROVE  ImageOf(d)' = ImageOf(d)
<1>1. FrameOfImages(w)
  BY CallFrame DEF Frame
<1>2. d[Target] # NIL => d[Target] \in Inodes /\ ~Free(d[Target])
  BY DEF IInv, TypeOK, TypeDirectory, Names, Free
<1>3. pc[w] \in {"copy", "mutation"} => d[Target] # mine[w]
  BY DEF IInv, Ownership, Holding
<1>4. d[Target] # NIL => image'[d[Target]] = image[d[Target]]
  BY <1>1, <1>2, <1>3 DEF FrameOfImages
<1> QED
  BY <1>4 DEF ImageOf

\* Every step of the staged publication is a step of the abstract file, or none.
LEMMA FileStep ==
  ASSUME IInv, SInv, Sequential, [Next]_vars
  PROVE  [File!Next]_(File!afVars)
<1> USE DEF fsVars, callVars, ghosts, counters, Return, Goto, Fail, SetDir
<1>a. TypeDirectory /\ TypeInodes /\ TypeCalls /\ TypeGhosts /\ dir \in dirs
  BY DEF IInv, TypeOK
<1>1. ASSUME NEW w \in Writers, Call(w) PROVE [File!Next]_(File!afVars)
  <2>1. \A d \in dirs : ImageOf(d)' = ImageOf(d)
    BY <1>1, StableKept
  <2>2. CASE DirectorySync(w)
    <3>1. ImageOf(dir)' = ImageOf(dir)
      BY <1>a, <2>1, <2>2 DEF DirectorySync, ImageOf
    <3>2. {ImageOf(d) : d \in dirs}' = {ImageOf(dir)}
      BY <2>2, <3>1 DEF DirectorySync
    <3>3. {v \in Writers : result[v] = "ok"}' = {v \in Writers : result[v] = "ok"} \union {w}
      BY <1>a, <2>2 DEF DirectorySync, TypeCalls
    <3> QED
      BY <3>1, <3>2, <3>3 DEF File!Next, File!Acknowledge
  <2>3. CASE dir'[Target] = dir[Target] /\ ~DirectorySync(w)
    <3>1. ImageOf(dir)' = ImageOf(dir)
      BY <1>a, <2>1, <2>3 DEF ImageOf
    <3>2. dirs \subseteq dirs' /\ \A d \in dirs' : d \in dirs \/ d[Target] = dir[Target]
      <4>1. CASE UNCHANGED dirs
        BY <4>1
      <4>2. CASE CaptureFails(w)
        <5>1. attempt[w] # Target
          BY <4>2, <1>a, Bounds, Distinct DEF CaptureFails, TypeCalls, Attempts
        <5>2. PICK i \in Inodes : dirs' = dirs \union {[dir EXCEPT ![attempt[w]] = i], dir'}
          BY <4>2 DEF CaptureFails
        <5>3. [dir EXCEPT ![attempt[w]] = i][Target] = dir[Target]
          BY <1>a, <5>1 DEF TypeDirectory, Names
        <5> QED
          BY <2>3, <5>2, <5>3
      <4>3. CASE dirs' = dirs \union {dir'}
        BY <2>3, <4>3
      <4> QED
        BY <1>1, <2>3, <4>1, <4>2, <4>3 DEF Call, OpenForUpdate, OpenForCreate, NewCall, Stat, ProbeTaken,
           ProbeExhausted, CreatePrivate, Copy, Mutation, Metadata, Validation, FileSync, Publish,
           UnlinkPrivate, StageFails, Cleanup, DropPrivate, HookSubstitutes
    <3>3. {ImageOf(d) : d \in dirs}' = {ImageOf(d) : d \in dirs}
      <4>1. \A d \in dirs' : ImageOf(d)' \in {ImageOf(e) : e \in dirs}
        <5> SUFFICES ASSUME NEW d \in dirs', d \notin dirs PROVE ImageOf(d)' = ImageOf(dir)
          BY <1>a, <2>1
        <5> QED
          BY <2>3, <3>1, <3>2 DEF ImageOf
      <4> QED
        BY <2>1, <3>2, <4>1
    <3>4. result' = result \/ \E x : x # "ok" /\ result' = [result EXCEPT ![w] = x]
      BY <1>1, <2>3 DEF Call, OpenForUpdate, OpenForCreate, NewCall, Stat, ProbeTaken,
         ProbeExhausted, CreatePrivate, CaptureFails, Copy, Mutation, Metadata, Validation, FileSync, Publish,
         UnlinkPrivate, StageFails, Cleanup, DropPrivate, HookSubstitutes
    <3>5. \/ {v \in Writers : result[v] = "ok"}' = {v \in Writers : result[v] = "ok"}
          \/ {v \in Writers : result[v] = "ok"}' = {v \in Writers : result[v] = "ok"} \ {w}
      BY <1>a, <3>4 DEF TypeCalls
    <3> QED
      BY <3>1, <3>3, <3>5 DEF File!Next, File!Restart, File!afVars
  <2>4. CASE dir'[Target] # dir[Target]
    <3>1. pc[w] = "publish" /\ dir[attempt[w]] = mine[w] /\ dir'[Target] = mine[w] /\ MayPublish(w)
      BY <1>1, <2>4, CallFrame DEF Frame, FrameOfNames
    <3>2. attempt[w] # Target /\ mine[w] \in Inodes /\ mine[w] # NIL
      BY <3>1, Distinct DEF IInv, NameHeld, Ownership, Holding
    <3>3. Publish(w)
      <4>1. Publish(w) \/ StageFails(w) \/ HookSubstitutes(w)
        BY <1>1, <3>1 DEF Call, OpenForUpdate, OpenForCreate, NewCall, Stat, ProbeTaken, ProbeExhausted,
           CreatePrivate, CaptureFails, Copy, Mutation, Metadata, Validation, FileSync, UnlinkPrivate,
           DirectorySync, Cleanup, DropPrivate
      <4> QED
        BY <1>a, <2>4, <3>2, <4>1 DEF StageFails, HookSubstitutes, TypeDirectory, Names
    <3>4. dirs' = dirs \union {dir'} /\ result' = result /\ image' = image
      BY <2>4, <3>3 DEF Publish
    <3>5. ImageOf(dir)' = want[w]
      BY <3>1, <3>2, <3>4 DEF ImageOf, SInv, StageInv, Validated
    <3>6. Planned(ImageOf(dir), ImageOf(dir)')
      <4>1. CASE kind[w] = "update"
        BY <3>1, <3>5, <4>1 DEF Sequential, PlanCurrent, ImageOf, Planned
      <4>2. CASE kind[w] = "create"
        BY <3>1, <3>5, <4>2 DEF Sequential, PlanCurrent, ImageOf, Planned, MayPublish
      <4> QED
        BY <1>a, <4>1, <4>2 DEF TypeCalls
    <3>7. {ImageOf(d) : d \in dirs}' = {ImageOf(d) : d \in dirs} \union {ImageOf(dir)'}
      <4>1. \A d \in dirs' : d \in dirs \/ d = dir'
        BY <3>4
      <4> QED
        BY <2>1, <3>4, <4>1
    <3>8. UNCHANGED {v \in Writers : result[v] = "ok"}
      BY <3>4
    <3> QED
      BY <3>6, <3>7, <3>8 DEF File!Next, File!Commit
  <2> QED
    BY <2>2, <2>3, <2>4
<1>2. CASE ProcessKilled
  <2>1. {v \in Writers : result[v] = "ok"}' = {}
    BY <1>2 DEF ProcessKilled, StopCalls
  <2>2. UNCHANGED <<ImageOf(dir), {ImageOf(d) : d \in dirs}>>
    BY <1>2 DEF ProcessKilled, ImageOf
  <2> QED
    BY <2>1, <2>2 DEF File!Next, File!Kill
<1>3. CASE PowerLoss
  <2>1. {v \in Writers : result[v] = "ok"}' = {}
    BY <1>3 DEF PowerLoss, StopCalls
  <2>2. dir' \in dirs /\ dirs' = {dir'}
    BY <1>3 DEF PowerLoss
  <2>3. dir'[Target] # NIL => dir'[Target] \in Inodes /\ synced[dir'[Target]]
    BY <1>a, <2>2 DEF IInv, TargetIntact, TypeDirectory, Names
  <2>4. dir'[Target] # NIL => image'[dir'[Target]] = image[dir'[Target]]
    BY <1>3, <2>3 DEF PowerLoss
  <2>5. ImageOf(dir)' \in {ImageOf(d) : d \in dirs}
    <3>1. ImageOf(dir)' = IF dir'[Target] = NIL THEN <<>> ELSE image[dir'[Target]]
      BY <2>4 DEF ImageOf
    <3> QED
      BY <2>2, <3>1 DEF ImageOf
  <2>6. {ImageOf(d) : d \in dirs}' = {ImageOf(dir)'}
    BY <2>2
  <2> QED
    BY <2>1, <2>5, <2>6 DEF File!Next, File!Crash
<1>4. CASE UNCHANGED vars
  BY <1>4 DEF vars, File!afVars, ImageOf
<1> QED
  BY <1>1, <1>2, <1>3, <1>4 DEF Next

\* A caller that keeps other writers away gets a file whose image changes in one step, from an
\* image to a plan made from it, and whose acknowledged images no crash takes back.
THEOREM PublicationIsAtomic == Exclusive => (Spec => ImplementsAtomicFile)
<1> SUFFICES ASSUME Exclusive PROVE Spec => ImplementsAtomicFile
  OBVIOUS
<1>1. Init => File!Init
  BY DEF Init, InitWith, File!Init
<1>2. Init => Sequential
  BY DEF Init, InitWith, Sequential, Alone, PlanCurrent
<1>3. IInv /\ SInv /\ Sequential /\ [Next]_vars => Sequential'
  BY SequentialNext
<1>4. IInv /\ SInv /\ Sequential /\ [Next]_vars => [File!Next]_(File!afVars)
  BY FileStep
<1> QED
  BY <1>1, <1>2, <1>3, <1>4, IInvInit, IInvNext, SInvInit, SInvNext, PTL DEF Spec, ImplementsAtomicFile,
     File!Spec
=============================================================================
