--------------------------- MODULE AtomicPublish ----------------------------
(***************************************************************************)
(* Copy-on-write publication of a database file (write/atomic.rs and the   *)
(* verified page updates of write/update_pages.rs that go through it), over*)
(* a file system with inodes, directory entries, open handles, fsync and   *)
(* power loss.  Several writers of one process share a directory; each call*)
(* either updates the target or creates it.                                *)
(*                                                                         *)
(* An image is a sequence of pages; a page is Original, Zero (a hole), or  *)
(* the writer that wrote it.  Torn stands for bytes that are no image at   *)
(* all (a failed write, or unsynchronised data after a power loss), Foreign*)
(* for a file a hook put in place of a private copy.                       *)
(***************************************************************************)
EXTENDS Naturals, Sequences

CONSTANTS Writers, Inodes, NIL,
          Original, Zero, Torn, Foreign,
          Target,              \* the published name
          MaxAttempts,         \* MAX_PRIVATE_NAME_ATTEMPTS
          MaxPages,            \* bound on the length of an image
          MaxCalls,            \* bound on the calls started
          MaxCrashes,          \* bound on kills and power losses
          MaxSubstitutions,    \* bound on hooks that replace a private entry
          InitialPages,        \* lengths the first image may have; 0: no target yet
          Exclusive            \* TRUE: the caller excludes concurrent writers

Attempts == 0 .. MaxAttempts - 1
Names == {Target} \union Attempts
Pages == Writers \union {Original, Zero}
Images == Seq(Pages) \union {Torn, Foreign}
Kinds == {"update", "create"}
Modes == {"default", "target"}

\* The stages of atomic_update_budgeted and atomic_create_with_hook at which a
\* private copy exists and has not been published.
Unpublished == {"copy", "mutation", "metadata", "validation", "filesync", "publish"}
Published == {"unlink", "dirsync"}
Quiet == {"idle", "done"}
Stages == Unpublished \union Published \union Quiet
            \union {"stat", "private", "cleanup", "drop"}
Results == {"none", "ok", "failed", "published"}

ASSUME Bounds ==
  /\ MaxAttempts \in Nat /\ MaxPages \in Nat /\ MaxCalls \in Nat
  /\ MaxCrashes \in Nat /\ MaxSubstitutions \in Nat /\ InitialPages \subseteq Nat
  /\ Exclusive \in BOOLEAN

ASSUME Distinct ==
  /\ Inodes # {} /\ NIL \notin Inodes
  /\ Target \notin Attempts
  /\ Torn \notin Seq(Pages) /\ Foreign \notin Seq(Pages) /\ Torn # Foreign

VARIABLES
  dir,        \* the directory as processes see it: Names -> inode or NIL
  dirs,       \* the directories a power loss may leave (since the last dir sync)
  image,      \* the contents of each inode
  synced,     \* whether an inode's contents survive a power loss
  mode,       \* the permissions of each inode
  pc,         \* the stage each call is about to enter
  kind,       \* update or create
  opened,     \* the inode DatabaseReader::open holds, NIL for a create
  page,       \* the page the call writes; one past the end is an append
  want,       \* the image the call planned
  stat,       \* symlink_metadata(target): length and permissions
  attempt,    \* the private name tried or held
  mine,       \* the private file: retained handle and identity
  armed,      \* PrivateEntryGuard's state
  result,     \* what the last call reported
  cleanupError,
  raced,      \* ghost: the target was replaced after this call took its length,
              \* or after it copied it
  planned,    \* ghost: every image some call planned
  calls, crashes, substitutions

fsVars == <<dir, dirs, image, synced, mode>>
callVars == <<kind, opened, page, want, stat, attempt, mine, armed, cleanupError>>
ghosts == <<raced, planned>>
counters == <<calls, crashes, substitutions>>
vars == <<fsVars, pc, callVars, result, ghosts, counters>>

-----------------------------------------------------------------------------
(* The file system (external: std::fs as the code uses it). *)

Readable(img) == img \notin {Torn, Foreign}
Size(img) == IF Readable(img) THEN Len(img) ELSE 0

\* read_exact of the first n pages.
Prefix(img, n) == [i \in 1 .. n |-> img[i]]

\* seek + write_all of one page; a write past the end leaves a hole of zeros.
WritePage(img, p, v) ==
  [i \in 1 .. (IF p > Size(img) THEN p ELSE Size(img)) |->
     IF i = p THEN v ELSE IF i <= Size(img) THEN img[i] ELSE Zero]

\* A directory change is visible at once and durable at some later time.
SetDir(new) == dir' = new /\ dirs' = dirs \union {new}

\* An inode number is reused only when nothing names it or holds it open.
Free(i) ==
  /\ \A d \in dirs : \A n \in Names : d[n] # i
  /\ \A w \in Writers : pc[w] \notin Quiet => opened[w] # i /\ mine[w] # i

-----------------------------------------------------------------------------
(* Returning from a call. *)

Return(w, outcome) ==
  /\ pc' = [pc EXCEPT ![w] = "done"]
  /\ result' = [result EXCEPT ![w] = outcome]

Goto(w, stage) ==
  /\ pc' = [pc EXCEPT ![w] = stage]
  /\ UNCHANGED result

FailAsUnpublished(w) ==
  IF pc[w] \in Unpublished THEN Goto(w, "cleanup") ELSE Return(w, "failed")

\* An error before publication goes through cleanup; is_post_publication
\* errors leave the published target alone.
Fail(w) ==
  \/ pc[w] \in Unpublished /\ Goto(w, "cleanup")
  \/ pc[w] \in Published /\ Return(w, "published")
  \/ pc[w] \notin Unpublished \union Published /\ Return(w, "failed")

-----------------------------------------------------------------------------
(* Planning a call. *)

NewCall(w, k, o, p, img) ==
  /\ pc[w] \in Quiet
  /\ calls < MaxCalls
  /\ Exclusive => \A v \in Writers : pc[v] \in Quiet
  /\ pc' = [pc EXCEPT ![w] = "stat"]
  /\ result' = [result EXCEPT ![w] = "none"]
  /\ kind' = [kind EXCEPT ![w] = k]
  /\ opened' = [opened EXCEPT ![w] = o]
  /\ page' = [page EXCEPT ![w] = p]
  /\ want' = [want EXCEPT ![w] = img]
  /\ attempt' = [attempt EXCEPT ![w] = 0]
  /\ mine' = [mine EXCEPT ![w] = NIL]
  /\ armed' = [armed EXCEPT ![w] = FALSE]
  /\ cleanupError' = [cleanupError EXCEPT ![w] = FALSE]
  /\ raced' = [raced EXCEPT ![w] = "no"]
  /\ planned' = planned \union {img}
  /\ calls' = calls + 1
  /\ UNCHANGED <<fsVars, stat, crashes, substitutions>>

\* write/driver.rs apply: open the database, plan one page change or append.
OpenForUpdate(w) ==
  /\ dir[Target] # NIL
  /\ Readable(image[dir[Target]])
  /\ \E p \in 1 .. MaxPages :
       /\ p <= Len(image[dir[Target]]) + 1
       /\ NewCall(w, "update", dir[Target], p, WritePage(image[dir[Target]], p, w))

\* A create has nothing to open: it plans a whole image.
OpenForCreate(w) == NewCall(w, "create", NIL, 1, <<w>>)

-----------------------------------------------------------------------------
(* The stages of a call, in order. *)

\* symlink_metadata(target): an update needs a file, a create needs none.
Stat(w) ==
  /\ pc[w] = "stat"
  /\ IF (kind[w] = "update") = (dir[Target] # NIL)
       THEN /\ Goto(w, "private")
            /\ stat' = IF kind[w] = "create" THEN stat
                       ELSE [stat EXCEPT ![w] = [len |-> Size(image[dir[Target]]),
                                                 mode |-> mode[dir[Target]]]]
       ELSE Return(w, "failed") /\ UNCHANGED stat
  /\ UNCHANGED <<fsVars, kind, opened, page, want, attempt, mine, armed,
                 cleanupError, ghosts, counters>>

ProbeUnbounded(w) ==
  /\ pc[w] = "private"
  /\ attempt[w] < MaxAttempts => dir[attempt[w]] # NIL
  /\ attempt' = [attempt EXCEPT ![w] = @ + 1]
  /\ UNCHANGED <<fsVars, pc, kind, opened, page, want, stat, mine, armed,
                 cleanupError, result, ghosts, counters>>

\* create_new(true) on the next private name; a taken name is skipped.
ProbeTaken(w) ==
  /\ pc[w] = "private"
  /\ attempt[w] < MaxAttempts
  /\ dir[attempt[w]] # NIL
  /\ attempt' = [attempt EXCEPT ![w] = @ + 1]
  /\ UNCHANGED <<fsVars, pc, kind, opened, page, want, stat, mine, armed,
                 cleanupError, result, ghosts, counters>>

ProbeExhausted(w) ==
  /\ pc[w] = "private"
  /\ attempt[w] = MaxAttempts
  /\ Return(w, "failed")
  /\ UNCHANGED <<fsVars, callVars, ghosts, counters>>

CreatePrivateShared(w) ==
  /\ pc[w] = "private"
  /\ attempt[w] < MaxAttempts
  /\ \E i \in Inodes :
       /\ IF dir[attempt[w]] = NIL THEN Free(i) ELSE i = dir[attempt[w]]
       /\ SetDir([dir EXCEPT ![attempt[w]] = i])
       /\ image' = [image EXCEPT ![i] = <<>>]
       /\ synced' = [synced EXCEPT ![i] = FALSE]
       /\ mode' = [mode EXCEPT ![i] = "default"]
       /\ mine' = [mine EXCEPT ![w] = i]
  /\ armed' = [armed EXCEPT ![w] = TRUE]
  /\ Goto(w, IF kind[w] = "update" THEN "copy" ELSE "mutation")
  /\ UNCHANGED <<kind, opened, page, want, stat, attempt, cleanupError, ghosts,
                 counters>>

\* The private file exists and its identity is captured from the open handle.
CreatePrivate(w) ==
  /\ pc[w] = "private"
  /\ attempt[w] < MaxAttempts
  /\ dir[attempt[w]] = NIL
  /\ \E i \in Inodes :
       /\ Free(i)
       /\ SetDir([dir EXCEPT ![attempt[w]] = i])
       /\ image' = [image EXCEPT ![i] = <<>>]
       /\ synced' = [synced EXCEPT ![i] = FALSE]
       /\ mode' = [mode EXCEPT ![i] = "default"]
       /\ mine' = [mine EXCEPT ![w] = i]
  /\ armed' = [armed EXCEPT ![w] = TRUE]
  /\ Goto(w, IF kind[w] = "update" THEN "copy" ELSE "mutation")
  /\ UNCHANGED <<kind, opened, page, want, stat, attempt, cleanupError, ghosts,
                 counters>>

\* capture_identity fails: the guard's Drop removes the entry, or fails to,
\* and nobody is told.
CaptureFails(w) ==
  /\ pc[w] = "private"
  /\ attempt[w] < MaxAttempts
  /\ dir[attempt[w]] = NIL
  /\ \E i \in Inodes :
       /\ Free(i)
       /\ \/ dir' = [dir EXCEPT ![attempt[w]] = i]
          \/ dir' = dir
       /\ dirs' = dirs \union {[dir EXCEPT ![attempt[w]] = i], dir'}
       /\ image' = [image EXCEPT ![i] = <<>>]
       /\ synced' = [synced EXCEPT ![i] = FALSE]
       /\ mode' = [mode EXCEPT ![i] = "default"]
  /\ Return(w, "failed")
  /\ UNCHANGED <<callVars, ghosts, counters>>

\* The file copy_original reads: whatever the target names when it is opened.
CopySourceIsOpened(w) == opened[w]
CopySource(w) == dir[Target]

\* copy_original: read_exact of as many bytes as the metadata announced.
Copy(w) ==
  /\ pc[w] = "copy"
  /\ IF CopySource(w) # NIL /\ Size(image[CopySource(w)]) >= stat[w].len
       THEN /\ image' = [image EXCEPT ![mine[w]] =
                           Prefix(image[CopySource(w)], stat[w].len)]
            /\ Goto(w, "mutation")
       ELSE /\ image' = [image EXCEPT ![mine[w]] = Torn]
            /\ Fail(w)
  /\ synced' = [synced EXCEPT ![mine[w]] = FALSE]
  /\ UNCHANGED <<dir, dirs, mode, callVars, ghosts, counters>>

MutationInPlace(w) ==
  /\ pc[w] = "mutation"
  /\ image' = [image EXCEPT
                 ![IF kind[w] = "create" THEN mine[w] ELSE opened[w]] =
                 IF kind[w] = "create" THEN want[w] ELSE WritePage(@, page[w], w)]
  /\ synced' = [synced EXCEPT ![mine[w]] = FALSE]
  /\ Goto(w, IF kind[w] = "update" THEN "metadata" ELSE "validation")
  /\ UNCHANGED <<dir, dirs, mode, callVars, ghosts, counters>>

\* The mutate callback writes the planned page; a create writes the image.
Mutation(w) ==
  /\ pc[w] = "mutation"
  /\ image' = [image EXCEPT ![mine[w]] =
                 IF kind[w] = "create" THEN want[w] ELSE WritePage(@, page[w], w)]
  /\ synced' = [synced EXCEPT ![mine[w]] = FALSE]
  /\ Goto(w, IF kind[w] = "update" THEN "metadata" ELSE "validation")
  /\ UNCHANGED <<dir, dirs, mode, callVars, ghosts, counters>>

\* set_permissions by path, so on whatever the private name names.
Metadata(w) ==
  /\ pc[w] = "metadata"
  /\ IF dir[attempt[w]] = NIL
       THEN Fail(w) /\ UNCHANGED mode
       ELSE /\ mode' = [mode EXCEPT ![dir[attempt[w]]] = stat[w].mode]
            /\ Goto(w, "validation")
  /\ UNCHANGED <<dir, dirs, image, synced, callVars, ghosts, counters>>

CandidateHasPage(w) ==
  LET img == image[dir[attempt[w]]]
  IN  Size(img) >= page[w] /\ img[page[w]] = w

\* verify_changes: the candidate is the file that was opened before planning
\* with the planned page and nothing else, and the opened file still is what
\* the plan was made from.
CandidateMatches(w) ==
  /\ image[dir[attempt[w]]] = want[w]
  /\ kind[w] = "update" => WritePage(image[opened[w]], page[w], w) = want[w]

\* The validate callback reads the private file through its path.
Validation(w) ==
  /\ pc[w] = "validation"
  /\ IF dir[attempt[w]] # NIL /\ CandidateMatches(w)
       THEN Goto(w, "filesync")
       ELSE Fail(w)
  /\ UNCHANGED <<fsVars, callVars, ghosts, counters>>

FileSyncForgotten(w) ==
  /\ pc[w] = "filesync"
  /\ Goto(w, "publish")
  /\ UNCHANGED <<fsVars, callVars, ghosts, counters>>

\* sync_all on the retained handle.
FileSync(w) ==
  /\ pc[w] = "filesync"
  /\ synced' = [synced EXCEPT ![mine[w]] = TRUE]
  /\ Goto(w, "publish")
  /\ UNCHANGED <<dir, dirs, image, mode, callVars, ghosts, counters>>

\* verify_path_identity: the private name still names the file created here.
VerifyPathIdentity(w) == dir[attempt[w]] = mine[w]

\* Whether publication may go on: replace is a rename and takes any target,
\* link_new refuses one that appeared in the meantime.
MayPublish(w) == kind[w] = "create" => dir[Target] = NIL

\* Calls that have read the target's metadata, or copied it, are overtaken.
Overtake(w) ==
  raced' = [v \in Writers |->
              IF v # w /\ pc[v] \in Unpublished \ {"copy"} THEN "copy"
              ELSE IF v # w /\ pc[v] \in {"private", "copy"} THEN "length"
              ELSE raced[v]]

Publish(w) ==
  /\ pc[w] = "publish"
  /\ IF VerifyPathIdentity(w) /\ MayPublish(w)
       THEN /\ SetDir(IF kind[w] = "update"
                        THEN [dir EXCEPT ![Target] = dir[attempt[w]], ![attempt[w]] = NIL]
                        ELSE [dir EXCEPT ![Target] = dir[attempt[w]]])
            /\ armed' = [armed EXCEPT ![w] = FALSE]
            /\ Goto(w, IF kind[w] = "update" THEN "dirsync" ELSE "unlink")
            /\ Overtake(w)
       ELSE /\ Fail(w)
            /\ UNCHANGED <<dir, dirs, armed, raced>>
  /\ UNCHANGED <<image, synced, mode, kind, opened, page, want, stat, attempt,
                 mine, cleanupError, planned, counters>>

\* A create removes its private name after linking the target.
UnlinkPrivate(w) ==
  /\ pc[w] = "unlink"
  /\ IF dir[attempt[w]] = NIL
       THEN Fail(w) /\ UNCHANGED <<dir, dirs>>
       ELSE /\ SetDir([dir EXCEPT ![attempt[w]] = NIL])
            /\ Goto(w, "dirsync")
  /\ UNCHANGED <<image, synced, mode, callVars, ghosts, counters>>

DirectorySyncForgotten(w) ==
  /\ pc[w] = "dirsync"
  /\ Return(w, "ok")
  /\ UNCHANGED <<fsVars, callVars, ghosts, counters>>

\* sync_directory, then Ok(()).
DirectorySync(w) ==
  /\ pc[w] = "dirsync"
  /\ dirs' = {dir}
  /\ Return(w, "ok")
  /\ UNCHANGED <<dir, image, synced, mode, callVars, ghosts, counters>>

\* A hook, the budget or the operating system fails the stage.  A failed copy
\* or mutation leaves part of its bytes behind.
StageFails(w) ==
  /\ pc[w] \in Unpublished \union Published \union {"private"}
  /\ Fail(w)
  /\ image' = IF pc[w] \in {"copy", "mutation"}
                THEN [image EXCEPT ![mine[w]] = Torn] ELSE image
  /\ UNCHANGED <<dir, dirs, synced, mode, callVars, ghosts, counters>>

CleanupSilent(w) ==
  /\ pc[w] = "cleanup"
  /\ UNCHANGED <<dir, dirs, armed, cleanupError>>
  /\ Goto(w, "drop")
  /\ UNCHANGED <<image, synced, mode, kind, opened, page, want, stat, attempt,
                 mine, ghosts, counters>>

CleanupByName(w) ==
  /\ pc[w] = "cleanup"
  /\ SetDir([dir EXCEPT ![attempt[w]] = NIL])
  /\ armed' = [armed EXCEPT ![w] = FALSE]
  /\ Goto(w, "drop")
  /\ UNCHANGED <<image, synced, mode, kind, opened, page, want, stat, attempt,
                 mine, cleanupError, ghosts, counters>>

\* PrivateCopy::cleanup: the hook, the identity check or the removal may fail,
\* and then the error carries a cleanup error.
Cleanup(w) ==
  /\ pc[w] = "cleanup"
  /\ \/ /\ VerifyPathIdentity(w)
        /\ SetDir([dir EXCEPT ![attempt[w]] = NIL])
        /\ armed' = [armed EXCEPT ![w] = FALSE]
        /\ UNCHANGED cleanupError
     \/ /\ cleanupError' = [cleanupError EXCEPT ![w] = TRUE]
        /\ UNCHANGED <<dir, dirs, armed>>
  /\ Goto(w, "drop")
  /\ UNCHANGED <<image, synced, mode, kind, opened, page, want, stat, attempt,
                 mine, ghosts, counters>>

\* Drop for PrivateCopy: one more identity-safe removal, whose result is lost.
DropPrivate(w) ==
  /\ pc[w] = "drop"
  /\ \/ /\ armed[w] /\ VerifyPathIdentity(w)
        /\ SetDir([dir EXCEPT ![attempt[w]] = NIL])
     \/ UNCHANGED <<dir, dirs>>
  /\ armed' = [armed EXCEPT ![w] = FALSE]
  /\ Return(w, "failed")
  /\ UNCHANGED <<image, synced, mode, kind, opened, page, want, stat, attempt,
                 mine, cleanupError, ghosts, counters>>

-----------------------------------------------------------------------------
(* The environment: hooks that touch the private entry, kills, power loss. *)

\* A stage hook removes the private entry or puts another file in its place.
HookSubstitutes(w) ==
  /\ pc[w] \in Unpublished \union {"unlink", "cleanup"}
  /\ substitutions < MaxSubstitutions
  /\ VerifyPathIdentity(w)
  /\ \/ /\ SetDir([dir EXCEPT ![attempt[w]] = NIL])
        /\ UNCHANGED <<image, synced, mode>>
     \/ \E i \in Inodes :
          /\ Free(i)
          /\ SetDir([dir EXCEPT ![attempt[w]] = i])
          /\ image' = [image EXCEPT ![i] = Foreign]
          /\ synced' = [synced EXCEPT ![i] = TRUE]
          /\ mode' = [mode EXCEPT ![i] = "default"]
  /\ substitutions' = substitutions + 1
  /\ UNCHANGED <<pc, callVars, result, ghosts, calls, crashes>>

StopCalls ==
  /\ crashes < MaxCrashes
  /\ crashes' = crashes + 1
  /\ pc' = [w \in Writers |-> "idle"]
  /\ result' = [w \in Writers |-> "none"]
  /\ UNCHANGED <<callVars, ghosts, calls, substitutions>>

\* The process is killed: no cleanup, no Drop, the file system goes on.
ProcessKilled ==
  /\ StopCalls
  /\ UNCHANGED fsVars

\* Directory changes survive up to some point, unsynchronised contents do not.
PowerLoss ==
  /\ StopCalls
  /\ dir' \in dirs
  /\ dirs' = {dir'}
  /\ image' = [i \in Inodes |-> IF synced[i] THEN image[i] ELSE Torn]
  /\ synced' = [i \in Inodes |-> TRUE]
  /\ UNCHANGED mode

-----------------------------------------------------------------------------

FirstInode == CHOOSE i \in Inodes : TRUE

InitWith(length) ==
  /\ dir = [n \in Names |-> IF n = Target /\ length > 0 THEN FirstInode ELSE NIL]
  /\ dirs = {dir}
  /\ image = [i \in Inodes |-> [p \in 1 .. length |-> Original]]
  /\ synced = [i \in Inodes |-> TRUE]
  /\ mode = [i \in Inodes |-> "target"]
  /\ pc = [w \in Writers |-> "idle"]
  /\ kind = [w \in Writers |-> "update"]
  /\ opened = [w \in Writers |-> NIL]
  /\ page = [w \in Writers |-> 1]
  /\ want = [w \in Writers |-> <<>>]
  /\ stat = [w \in Writers |-> [len |-> 0, mode |-> "default"]]
  /\ attempt = [w \in Writers |-> 0]
  /\ mine = [w \in Writers |-> NIL]
  /\ armed = [w \in Writers |-> FALSE]
  /\ result = [w \in Writers |-> "none"]
  /\ cleanupError = [w \in Writers |-> FALSE]
  /\ raced = [w \in Writers |-> "no"]
  /\ planned = {[p \in 1 .. length |-> Original]}
  /\ calls = 0 /\ crashes = 0 /\ substitutions = 0

Init == \E length \in InitialPages : InitWith(length)

Call(w) ==
  \/ OpenForUpdate(w) \/ OpenForCreate(w) \/ Stat(w)
  \/ ProbeTaken(w) \/ ProbeExhausted(w) \/ CreatePrivate(w) \/ CaptureFails(w)
  \/ Copy(w) \/ Mutation(w) \/ Metadata(w) \/ Validation(w) \/ FileSync(w)
  \/ Publish(w) \/ UnlinkPrivate(w) \/ DirectorySync(w)
  \/ StageFails(w) \/ Cleanup(w) \/ DropPrivate(w)
  \/ HookSubstitutes(w)

Next == (\E w \in Writers : Call(w)) \/ ProcessKilled \/ PowerLoss

Spec == Init /\ [][Next]_vars

-----------------------------------------------------------------------------
(* Properties. *)

TypeDirectory ==
  /\ dir \in [Names -> Inodes \union {NIL}]
  /\ dirs \subseteq [Names -> Inodes \union {NIL}]

TypeInodes ==
  /\ image \in [Inodes -> Images]
  /\ synced \in [Inodes -> BOOLEAN]
  /\ mode \in [Inodes -> Modes]

TypeCalls ==
  /\ pc \in [Writers -> Stages]
  /\ kind \in [Writers -> Kinds]
  /\ opened \in [Writers -> Inodes \union {NIL}]
  /\ page \in [Writers -> Nat]
  /\ want \in [Writers -> Seq(Pages)]
  /\ stat \in [Writers -> [len : Nat, mode : Modes]]
  /\ attempt \in [Writers -> 0 .. MaxAttempts]
  /\ mine \in [Writers -> Inodes \union {NIL}]
  /\ armed \in [Writers -> BOOLEAN]
  /\ result \in [Writers -> Results]
  /\ cleanupError \in [Writers -> BOOLEAN]

TypeGhosts ==
  /\ raced \in [Writers -> {"no", "length", "copy"}]
  /\ planned \subseteq Seq(Pages)
  /\ calls \in Nat /\ crashes \in Nat /\ substitutions \in Nat

\* Every variable has its type: the directory and the inodes, the record each
\* call of atomic_update_budgeted and its callers keeps on its stack.
TypeOK == TypeDirectory /\ TypeInodes /\ TypeCalls /\ TypeGhosts

\* Whatever instant the machine loses power at, and whichever of its pending
\* directory changes survive, the target is absent or names a synchronised file
\* that is exactly an image some call planned (or the first image): never a
\* private copy in the making, never a torn or a substituted file.
TargetIntact ==
  \A d \in dirs :
    d[Target] # NIL => synced[d[Target]] /\ image[d[Target]] \in planned

\* The target's name changes hands only when a call publishes, or when power is
\* lost; what the call puts there is the image it planned from the file it had
\* opened, and an update keeps the permissions the target had.
PublishesThePlan ==
  [][dir'[Target] # dir[Target] /\ crashes' = crashes =>
       \E w \in Writers :
         /\ pc[w] = "publish" /\ dir'[Target] = mine[w]
         /\ image[mine[w]] = want[w]
         /\ kind[w] = "update" => mode[mine[w]] = stat[w].mode]_vars

\* A published file is never written in place: while the target's name stays
\* with an inode, that inode's bytes stay too (the reader that opened it before
\* a publication keeps reading a consistent image).
NeverInPlace ==
  [][dir[Target] # NIL /\ dir'[Target] = dir[Target]
       => image'[dir[Target]] = image[dir[Target]]]_vars

\* An update that drops a page another call published had copied the file
\* before that publication, or had taken the file's length before it and the
\* page lies past that length: every other change of the target since the call
\* opened it is noticed by verify_changes.  (Callers must exclude concurrent
\* writers; this is how far the code itself notices one.)
StaleOnlyAfterCopy ==
  [][\A w \in Writers :
       (pc[w] = "publish" /\ kind[w] = "update" /\ dir[Target] # NIL
          /\ dir'[Target] = mine[w] /\ raced[w] # "copy")
       => \A p \in 1 .. Size(image[dir[Target]]) :
            (p # page[w] /\ (raced[w] = "length" => p <= stat[w].len))
            => p \in DOMAIN want[w] /\ want[w][p] = image[dir[Target]][p]]_vars

\* A call that reports an error before publication has not published: in no
\* crash outcome does the target name its private file.
FailedMeansUnpublished ==
  [][\A w \in Writers :
       (result[w] # "failed" /\ result'[w] = "failed" /\ mine[w] # NIL)
       => \A d \in dirs : d[Target] # mine[w]]_vars

\* A failed call that leaves its private file behind says so: the error holds
\* a cleanup error whenever the private name still names the private file.
LeftoverReported ==
  [][\A w \in Writers :
       (pc[w] = "drop" /\ pc'[w] = "done" /\ dir'[attempt[w]] = mine[w])
       => cleanupError'[w]]_vars

\* A file a hook put in the place of a private copy is not this operation's to
\* remove: its entry goes only in the removal a create does after publication
\* (which does not check identity again), or in a crash.
ForeignEntriesSurvive ==
  [][\A n \in Names :
       (dir[n] # NIL /\ image[dir[n]] = Foreign /\ dir'[n] # dir[n]
          /\ crashes' = crashes)
       => \E w \in Writers : pc[w] = "unlink" /\ attempt[w] = n]_vars

\* Two calls in flight never share a private file, and no private file of a
\* call that has not published is reachable through the target's name.
PrivateFilesArePrivate ==
  \A w \in Writers : pc[w] \in Unpublished \union {"cleanup"} =>
    /\ \A v \in Writers \ {w} : pc[v] \notin Quiet => mine[v] # mine[w]
    /\ \A d \in dirs : d[Target] # mine[w]
=============================================================================
