--------------------------- MODULE LogView_proofs ---------------------------
(***************************************************************************)
(* The readers of the logs, for any number of sessions, entries and files  *)
(* and whatever the writers do meanwhile, one session after another: what  *)
(* a viewer prints is in the order in which it was written, without a gap; *)
(* what a follower prints is what was completed.                           *)
(***************************************************************************)
EXTENDS LogView, RotatingLog_proofs, Induction, SequenceTheorems, FiniteSetTheorems

-----------------------------------------------------------------------------
(* One session after another: the invariant *)

USE LogAssumption DEF MaybeInode, dirVars, logVars, tryVars, jobVars, histVars,
    Goto, JobGoto

Idle(s) == pc[s] \in {"start", "closed", "dead"}
Jobless(s) == \A i \in Index : jpc[<<s, i>>] = "none"
Opening == {"start", "opOpen", "opClaim"}
Pruning == {"prCheck", "prUnlock", "prRemove"}
Size(n) == Cardinality(data[dir[n]])

\* What a session has in hand, by where it is.
Manners(s) ==
  /\ Idle(s) => file[s] = None /\ matches[s] = {} /\ Jobless(s)
  /\ pc[s] \in Opening => path[s] = None
  /\ path[s] = None => Jobless(s)
  /\ closing[s] => file[s] = None /\ pc[s] \in {"waiting", "closed", "dead"} \cup Pruning
  /\ closing[s] /\ pc[s] \in Pruning => Jobless(s)
  /\ file[s] # None => /\ jpc[<<s, path[s]>>] = "none"
                       /\ pc[s] \in {"open", "prList"} \cup Pruning
  /\ matches[s] # {} <=> pc[s] \in Pruning

\* What it goes for is there, or is newer than all there is.
Aims(s) ==
  /\ pc[s] \in {"opOpen", "opClaim"} => /\ dir[Log(index[s])] # None
                                        /\ dir[Archive(index[s])] = None
                                        /\ Size(Log(index[s])) >= written[s]
  /\ pc[s] = "opClaim" => dir[Log(index[s])] = fd[s]
  /\ pc[s] = "rotCreate" => \A n \in Present : n[1] < index[s]
  /\ pc[s] = "rotClaim" =>
       /\ dir[Log(index[s])] = fd[s]
       /\ \A n \in Present : n[1] < index[s] \/ n = Log(index[s])
       /\ jpc[<<s, index[s]>>] = "none"

\* Its file has its name, with no archive, and a new one is the newest.
Writes(s) ==
  file[s] # None =>
    /\ dir[Log(path[s])] = file[s]
    /\ dir[Archive(path[s])] = None
    /\ Size(Log(path[s])) >= written[s]
    /\ Log(path[s]) \notin matches[s]
    /\ pc[s] # "open" => \A n \in Present : n[1] <= path[s]

\* It prunes neither the newest file nor one it is compressing.
Spares(s) ==
  /\ closing[s] /\ pc[s] \in Pruning =>
       \E k \in Present \ matches[s] : \A n \in Present : n[1] <= k[1]
  /\ pc[s] \in {"prUnlock", "prRemove"} =>
       \A n \in Oldest(matches[s]) : jpc[<<s, n[1]>>] = "none"

\* The files of a compression.
JobFiles(j) ==
  /\ jpc[j] \notin {"none", "release"} => dir[Log(j[2])] # None /\ Size(Log(j[2])) >= MaxSize
  /\ jpc[j] \notin {"none", "openSrc", "release"} => dir[Log(j[2])] = jsrc[j]
  /\ jpc[j] \in {"openSrc", "claimSrc", "openDst"} => dir[Archive(j[2])] = None
  /\ jpc[j] \in {"claimDst", "copy"} => dir[Archive(j[2])] = jdst[j] /\ data[jdst[j]] = {}
  /\ jpc[j] \in {"unlink", "release"} => dir[Archive(j[2])] # None
  /\ jpc[j] = "unlink" => data[dir[Log(j[2])]] \subseteq data[dir[Archive(j[2])]]

\* A log file beside an archive is full.
FullDoubles ==
  \A i \in Index : dir[Log(i)] # None /\ dir[Archive(i)] # None => Size(Log(i)) >= MaxSize

OneBusy == \A s, t \in Session : s # t => Idle(s) \/ Idle(t)
SessionOK(s) == Manners(s) /\ Aims(s) /\ Writes(s) /\ Spares(s)
Accounts ==
  /\ written \in [Session -> Nat]
  /\ \A i \in Inode : IsFiniteSet(data[i])
  /\ \A s \in Session : \A i \in Inode : \A e \in data[i] : e[1] = s => e[2] <= sent[s]

AloneInv ==
  /\ OneBusy /\ Accounts /\ FullDoubles
  /\ \A s \in Session : SessionOK(s)
  /\ \A j \in Job : JobFiles(j)

\* A step that one session, or one compression, takes alone.
AloneStep(s) == SessionStep(s) /\ \A t \in Session : pc'[t] # pc[t] => Alone(t)

\* Nothing of a session changes; nothing of a compression changes.
SessionSame(t) ==
  UNCHANGED <<pc[t], file[t], path[t], written[t], fd[t], index[t], matches[t], closing[t]>>
JobSame(j) == UNCHANGED <<jpc[j], jsrc[j], jdst[j]>>

LEMMA SessionFrame ==
  ASSUME LogInv, written \in [Session -> Nat], NEW s \in Session, SessionStep(s)
  PROVE  /\ \A t \in Session : t # s => SessionSame(t)
         /\ \A j \in Job : j[1] # s => JobSame(j)
<1> USE DEF LogInv, Shape, SessionSame, JobSame
<1>1. CASE Write(s)
  <2>1. path[s] \in Index /\ <<s, path[s]>>[1] = s
    BY <1>1, WriteCases DEF Write, InHand
  <2>2. CASE Full(written[s] + 1)
    <3>1. PICK dup \in BOOLEAN : StartCompression(s, dup)
      BY <1>1, <2>2 DEF Write
    <3>2. \A j \in Job : j[1] # s => JobSame(j)
      BY <2>1, <3>1 DEF StartCompression
    <3> QED BY <1>1, <2>2, <3>2 DEF Write
  <2>3. CASE ~Full(written[s] + 1)
    BY <1>1, <2>3 DEF Write
  <2> QED BY <2>2, <2>3
<1>2. CASE FindLastFile(s) \/ CloseFile(s) \/ RotateFail(s) \/ OpenLast(s) \/ ClaimLast(s)
  BY <1>2 DEF FindLastFile, CloseFile, RotateFail, OpenLast, ClaimLast
<1>3. CASE Crash(s)
  BY <1>3 DEF Crash
<1>4. CASE FindNextIndex(s) \/ RotateCreate(s) \/ RotateClaim(s)
  BY <1>4 DEF FindNextIndex, RotateCreate, RotateClaim, NextIndex
<1>5. CASE PruneList(s) \/ PruneCheck(s) \/ PruneUnlock(s) \/ PruneRemove(s)
  BY <1>5 DEF PruneList, PruneCheck, PruneUnlock, PruneRemove, Pruned
<1> QED BY <1>1, <1>2, <1>3, <1>4, <1>5 DEF SessionStep, Step

LEMMA CompressFrame ==
  ASSUME LogInv, NEW j \in Job, Compress(j)
  PROVE  /\ UNCHANGED <<pc, file, path, written, sent, fd, index, matches, closing>>
         /\ \A k \in Job : k # j => JobSame(k)
<1> USE DEF LogInv, Shape, JobSame
<1> QED BY DEF Compress, OpenSource, ClaimSource, OpenArchive, ClaimArchive, Copy,
         CopyDone, CopyFailed, RemoveSource, ReleaseSource, EndJob, LeaveSource

\* Only a session that nobody is busy beside takes a step.
LEMMA OthersIdle ==
  ASSUME AloneInv, LogInv, NEW s \in Session, NEW t \in Session, t # s,
         AloneStep(s) \/ \E j \in Job : j[1] = s /\ Compress(j)
  PROVE  Idle(t)
<1>1. CASE ~Idle(s)
  BY <1>1 DEF AloneInv, OneBusy
<1>2. CASE Idle(s)
  <2>1. Jobless(s)
    BY <1>2 DEF AloneInv, SessionOK, Manners
  <2>2. ASSUME NEW j \in Job, j[1] = s PROVE ~Compress(j)
    <3>1. j = <<s, j[2]>> /\ j[2] \in Index
      BY <2>2 DEF Job
    <3>2. jpc[j] = "none"
      BY <2>1, <3>1 DEF Jobless
    <3> QED BY <3>2 DEF Compress, OpenSource, ClaimSource, OpenArchive, ClaimArchive, Copy,
             RemoveSource, ReleaseSource
  <2>3. AloneStep(s)
    BY <2>2
  <2>4. FindLastFile(s)
    BY <1>2, <2>3 DEF AloneStep, Idle, SessionStep, Step, FindLastFile, Write, CloseFile,
       RotateFail, Crash, OpenLast, ClaimLast, FindNextIndex, RotateCreate, RotateClaim,
       PruneList, PruneCheck, PruneUnlock, PruneRemove
  <2>5. pc'[s] # pc[s]
    BY <2>4 DEF FindLastFile, LogInv, Shape
  <2>6. Alone(s)
    BY <2>3, <2>5 DEF AloneStep
  <2> QED BY <2>6 DEF Alone, Idle
<1> QED BY <1>1, <1>2

\* An idle session stays as it is.
LEMMA IdleKept ==
  ASSUME AloneInv, LogInv, NEW t \in Session, Idle(t), SessionSame(t),
         \A j \in Job : j[1] = t => JobSame(j)
  PROVE  /\ Idle(t)' /\ SessionOK(t)'
         /\ \A j \in Job : j[1] = t => JobFiles(j)'
<1>1. file[t] = None /\ matches[t] = {} /\ Jobless(t) /\ Manners(t)
  BY DEF AloneInv, SessionOK, Manners
<1>2. \A i \in Index : <<t, i>> \in Job /\ <<t, i>>[1] = t
  BY Names
<1>3. Jobless(t)'
  BY <1>1, <1>2 DEF Jobless, JobSame
<1>4. Idle(t)'
  BY DEF Idle, SessionSame
<1>5. Manners(t)'
  BY <1>1, <1>3, <1>4 DEF Manners, SessionSame, Idle, Opening, Pruning
<1>6. Aims(t)' /\ Writes(t)' /\ Spares(t)'
  BY <1>1, <1>4 DEF Aims, Writes, Spares, SessionSame, Idle, Pruning
<1>7. ASSUME NEW j \in Job, j[1] = t PROVE JobFiles(j)'
  <2>1. j = <<t, j[2]>> /\ j[2] \in Index
    BY <1>7 DEF Job
  <2>2. jpc'[j] = "none"
    BY <1>3, <2>1 DEF Jobless
  <2> QED BY <2>2 DEF JobFiles
<1> QED BY <1>4, <1>5, <1>6, <1>7 DEF SessionOK

\* So what is to be shown of a step is about the session that takes it.
LEMMA AloneKept ==
  ASSUME AloneInv, LogInv, NEW s \in Session,
         AloneStep(s) \/ \E j \in Job : j[1] = s /\ Compress(j),
         Accounts', FullDoubles', SessionOK(s)', \A j \in Job : j[1] = s => JobFiles(j)'
  PROVE  AloneInv'
<1>1. \A t \in Session : t # s => Idle(t)
  BY OthersIdle
<1>2. /\ \A t \in Session : t # s => SessionSame(t)
      /\ \A j \in Job : j[1] # s => JobSame(j)
  <2>1. CASE AloneStep(s)
    BY <2>1, SessionFrame DEF AloneStep, AloneInv, Accounts
  <2>2. ASSUME NEW j \in Job, j[1] = s, Compress(j)
        PROVE  /\ \A t \in Session : t # s => SessionSame(t)
               /\ \A k \in Job : k[1] # s => JobSame(k)
    BY <2>2, CompressFrame DEF SessionSame
  <2> QED BY <2>1, <2>2
<1>3. ASSUME NEW t \in Session, t # s
      PROVE  Idle(t)' /\ SessionOK(t)' /\ \A j \in Job : j[1] = t => JobFiles(j)'
  <2>1. \A j \in Job : j[1] = t => JobSame(j)
    BY <1>2, <1>3
  <2> QED BY <1>1, <1>2, <1>3, <2>1, IdleKept
<1>4. OneBusy'
  BY <1>3 DEF OneBusy
<1>5. ASSUME NEW j \in Job PROVE JobFiles(j)'
  <2>1. j[1] \in Session
    BY Names
  <2> QED BY <1>3, <2>1
<1>6. \A t \in Session : SessionOK(t)'
  BY <1>3
<1> QED BY <1>4, <1>5, <1>6 DEF AloneInv

LEMMA AccountsKept ==
  ASSUME AloneInv, PlaceInv, Next
  PROVE  Accounts'
<1> USE DEF AloneInv, Accounts, PlaceInv, Contents
<1>1. ASSUME NEW s \in Session, SessionStep(s) PROVE written' \in [Session -> Nat]
  <2>1. CASE FindLastFile(s)
    <3>1. ASSUME NEW i \in Index, dir[Log(i)] # None PROVE Size(Log(i)) \in Nat
      <4>1. dir[Log(i)] \in Inode
        BY <3>1, Names, OneName
      <4> QED BY <4>1, FS_CardinalityType DEF Size
    <3> QED BY <2>1, <3>1 DEF FindLastFile, Size
  <2>2. ~FindLastFile(s) => written' \in [Session -> Nat]
    BY <1>1 DEF SessionStep, Step, Write, CloseFile, RotateFail, Crash, OpenLast, ClaimLast,
       FindNextIndex, RotateCreate, RotateClaim, PruneList, PruneCheck, PruneUnlock, PruneRemove
  <2> QED BY <2>1, <2>2
<1>2. ASSUME NEW i \in Inode PROVE IsFiniteSet(data'[i])
  <2>1. ASSUME NEW s \in Session, Write(s) PROVE IsFiniteSet(data'[i])
    <3>1. data'[i] = data[i] \/ data'[i] = data[i] \cup {<<s, sent[s] + 1>>}
      BY <2>1, WriteCases DEF Write
    <3>2. IsFiniteSet(data[i])
      BY DEF AloneInv, Accounts
    <3>3. IsFiniteSet(data[i] \cup {<<s, sent[s] + 1>>})
      BY <3>2, FS_AddElement
    <3> QED BY <3>1, <3>2, <3>3
  <2>2. ASSUME NEW s \in Session, SessionStep(s), ~Write(s) PROVE data'[i] \in {data[i], {}}
    BY <2>2 DEF SessionStep, Step, FindLastFile, CloseFile, RotateFail, Crash, OpenLast, ClaimLast,
       FindNextIndex, RotateCreate, RotateClaim, PruneList, PruneCheck, PruneUnlock, PruneRemove
  <2>3. ASSUME NEW j \in Job, Compress(j) PROVE data'[i] \in {data[i], {}, data[jsrc[j]]}
    BY <2>3 DEF Compress, OpenSource, ClaimSource, OpenArchive, ClaimArchive, Copy, CopyDone,
       CopyFailed, RemoveSource, ReleaseSource, LeaveSource
  <2>4. ASSUME NEW j \in Job, Copy(j) PROVE jsrc[j] \in Inode
    BY <2>4 DEF Copy, LogInv, Shape, InHand
  <2>5. ASSUME NEW j \in Job, Compress(j), ~Copy(j) PROVE data'[i] \in {data[i], {}}
    BY <2>5 DEF Compress, OpenSource, ClaimSource, OpenArchive, ClaimArchive,
       RemoveSource, ReleaseSource, LeaveSource
  <2> QED BY <2>1, <2>2, <2>3, <2>4, <2>5, FS_EmptySet DEF Next, SessionStep
<1>3. ASSUME NEW t \in Session, NEW i \in Inode, NEW e \in data'[i], e[1] = t
      PROVE  e[2] <= sent'[t]
  <2>1. ASSUME NEW s \in Session, Write(s) PROVE e[2] <= sent'[t]
    <3>1. /\ data'[i] = data[i] \/ data'[i] = data[i] \cup {<<s, sent[s] + 1>>}
          /\ sent' = [sent EXCEPT ![s] = @ + 1]
      BY <2>1, WriteCases DEF Write
    <3>2. CASE e \in data[i]
      <4>1. e[2] <= sent[t] /\ e[2] \in Nat
        BY <1>3, <3>2 DEF Entry
      <4>2. sent'[t] \in {sent[t], sent[t] + 1} /\ sent[t] \in Nat
        BY <3>1
      <4> QED BY <4>1, <4>2
    <3>3. CASE e = <<s, sent[s] + 1>>
      BY <1>3, <3>1, <3>3
    <3> QED BY <1>3, <3>1, <3>2, <3>3
  <2>2. ASSUME NEW s \in Session, SessionStep(s), ~Write(s) PROVE e[2] <= sent'[t]
    <3>1. data'[i] \in {data[i], {}} /\ sent' = sent
      BY <2>2 DEF SessionStep, Step, FindLastFile, CloseFile, RotateFail, Crash, OpenLast, ClaimLast,
         FindNextIndex, RotateCreate, RotateClaim, PruneList, PruneCheck, PruneUnlock, PruneRemove
    <3> QED BY <1>3, <3>1
  <2>3. ASSUME NEW j \in Job, Compress(j), ~Copy(j) PROVE e[2] <= sent'[t]
    <3>1. data'[i] \in {data[i], {}} /\ sent' = sent
      BY <2>3 DEF Compress, OpenSource, ClaimSource, OpenArchive, ClaimArchive,
         RemoveSource, ReleaseSource, LeaveSource
    <3> QED BY <1>3, <3>1
  <2>4. ASSUME NEW j \in Job, Copy(j) PROVE e[2] <= sent'[t]
    <3>1. data'[i] \in {data[i], data[jsrc[j]]} /\ sent' = sent /\ jsrc[j] \in Inode
      BY <2>4 DEF Copy, CopyDone, CopyFailed, LogInv, Shape, InHand
    <3> QED BY <1>3, <3>1
  <2> QED BY <2>1, <2>2, <2>3, <2>4 DEF Next, SessionStep
<1>4. written' \in [Session -> Nat]
  <2>1. ASSUME NEW j \in Job, Compress(j) PROVE written' \in [Session -> Nat]
    BY <2>1, CompressFrame
  <2> QED BY <1>1, <2>1 DEF Next, SessionStep
<1> QED BY <1>2, <1>3, <1>4

\* A step of a session that leaves the files alone keeps what its compressions rely on.
LEMMA JobsKept ==
  ASSUME AloneInv, NEW s \in Session, UNCHANGED <<dir, data>>,
         \A j \in Job : j[1] = s => JobSame(j)
  PROVE  FullDoubles' /\ \A j \in Job : j[1] = s => JobFiles(j)'
<1>1. FullDoubles'
  BY DEF AloneInv, FullDoubles, Size
<1>2. \A j \in Job : j[1] = s => JobFiles(j)'
  BY DEF AloneInv, JobFiles, Size, JobSame
<1> QED BY <1>1, <1>2

-----------------------------------------------------------------------------
(* One session after another: the steps of a session *)

LEMMA OpeningKept ==
  ASSUME AloneInv, PlaceInv, NEW s \in Session,
         FindLastFile(s) \/ OpenLast(s) \/ ClaimLast(s)
  PROVE  SessionOK(s)'
<1> USE DEF PlaceInv, LogInv, Shape
<1>1. Manners(s) /\ Aims(s) /\ Writes(s)
  BY DEF AloneInv, SessionOK
<1>2. pc[s] \in Opening /\ path[s] = None /\ Jobless(s) /\ ~closing[s] /\ file[s] = None
      /\ matches[s] = {}
  BY <1>1 DEF FindLastFile, OpenLast, ClaimLast, Manners, Opening, Pruning, Idle
<1>3. UNCHANGED <<dir, data, jpc, matches, closing>>
  BY DEF FindLastFile, OpenLast, ClaimLast
<1>4. Jobless(s)'
  BY <1>2, <1>3 DEF Jobless
<1>5. CASE FindLastFile(s)
  <2>1. file'[s] = None /\ path'[s] = None /\ pc'[s] \in {"opOpen", "rotIndex"}
    BY <1>2, <1>5 DEF FindLastFile
  <2>2. Manners(s)'
    BY <1>2, <1>3, <1>4, <2>1 DEF Manners, Idle, Opening, Pruning
  <2>3. Writes(s)' /\ Spares(s)'
    BY <1>2, <1>3, <2>1 DEF Writes, Spares, Pruning
  <2>4. ASSUME pc'[s] = "opOpen"
        PROVE  /\ dir[Log(index'[s])] # None /\ dir[Archive(index'[s])] = None
               /\ Size(Log(index'[s])) >= written'[s]
    <3>1. PICK i \in Index : /\ dir[Log(i)] # None /\ ~Full(Size(Log(i)))
                             /\ index' = [index EXCEPT ![s] = i]
                             /\ written' = [written EXCEPT ![s] = Size(Log(i))]
      BY <1>5, <2>4 DEF FindLastFile, Size
    <3>2. index'[s] = i /\ written'[s] = Size(Log(i))
      BY <3>1 DEF AloneInv, Accounts
    <3>3. Size(Log(i)) \in Nat
      <4>1. dir[Log(i)] \in Inode
        BY <3>1, Names, OneName
      <4> QED BY <4>1, FS_CardinalityType DEF Size, AloneInv, Accounts
    <3>4. dir[Archive(i)] = None
      BY <3>1, <3>3 DEF AloneInv, FullDoubles, Full
    <3> QED BY <3>1, <3>2, <3>3, <3>4
  <2>5. Aims(s)'
    BY <1>3, <2>1, <2>4 DEF Aims, Size
  <2> QED BY <2>2, <2>3, <2>5 DEF SessionOK
<1>6. CASE OpenLast(s)
  <2>1. /\ file'[s] = None /\ path'[s] = None /\ pc'[s] \in {"opClaim", "rotIndex"}
        /\ written' = written /\ index' = index
        /\ pc'[s] = "opClaim" => fd'[s] = dir[Log(index[s])]
    BY <1>2, <1>6 DEF OpenLast
  <2>2. Manners(s)'
    BY <1>2, <1>3, <1>4, <2>1 DEF Manners, Idle, Opening, Pruning
  <2>3. Writes(s)' /\ Spares(s)'
    BY <1>2, <1>3, <2>1 DEF Writes, Spares, Pruning
  <2>4. Aims(s)'
    BY <1>1, <1>3, <1>6, <2>1 DEF Aims, Size, OpenLast
  <2> QED BY <2>2, <2>3, <2>4 DEF SessionOK
<1>7. CASE ClaimLast(s)
  <2>1. pc[s] = "opClaim" /\ index[s] \in Index /\ written' = written
    BY <1>7 DEF ClaimLast, InHand
  <2>2. CASE pc'[s] = "rotIndex" /\ file'[s] = None /\ path'[s] = None
    <3>1. Manners(s)'
      BY <1>2, <1>3, <1>4, <2>2 DEF Manners, Idle, Opening, Pruning
    <3> QED BY <1>3, <2>2, <3>1 DEF SessionOK, Aims, Writes, Spares, Pruning
  <2>3. CASE pc'[s] = "open" /\ file'[s] = fd[s] /\ path'[s] = index[s]
    <3>1. jpc'[<<s, path'[s]>>] = "none"
      BY <1>4, <2>1, <2>3 DEF Jobless
    <3>2. Manners(s)'
      BY <1>2, <1>3, <1>4, <2>3, <3>1 DEF Manners, Idle, Opening, Pruning
    <3>3. Writes(s)'
      BY <1>1, <1>2, <1>3, <2>1, <2>3 DEF Writes, Aims, Size
    <3>4. Aims(s)' /\ Spares(s)'
      BY <2>3 DEF Aims, Spares, Pruning
    <3> QED BY <3>2, <3>3, <3>4 DEF SessionOK
  <2> QED BY <1>2, <1>7, <2>2, <2>3 DEF ClaimLast
<1> QED BY <1>5, <1>6, <1>7

LEMMA RotationKept ==
  ASSUME AloneInv, PlaceInv, NEW s \in Session,
         FindNextIndex(s) \/ RotateFail(s) \/ RotateClaim(s)
  PROVE  SessionOK(s)'
<1> USE DEF PlaceInv, LogInv, Shape
<1>1. Manners(s) /\ Aims(s) /\ Writes(s)
  BY DEF AloneInv, SessionOK
<1>2. ~closing[s] /\ file[s] = None /\ matches[s] = {}
  BY <1>1 DEF FindNextIndex, RotateFail, RotateClaim, Manners, Pruning
<1>3. UNCHANGED <<dir, data, jpc, matches, closing>>
  BY DEF FindNextIndex, RotateFail, RotateClaim
<1>4. Jobless(s)' <=> Jobless(s)
  BY <1>3 DEF Jobless
<1>5. CASE FindNextIndex(s) \/ RotateFail(s)
  <2>1. file'[s] = None /\ path'[s] = path[s]
        /\ (pc'[s] \in {"rotCreate", "broken"} \/ (pc'[s] = "closed" /\ path[s] = None))
    BY <1>2, <1>5 DEF FindNextIndex, RotateFail
  <2>2. Manners(s)'
    BY <1>1, <1>2, <1>3, <1>4, <2>1 DEF Manners, Idle, Opening, Pruning
  <2>3. Writes(s)' /\ Spares(s)'
    BY <1>2, <1>3, <2>1 DEF Writes, Spares, Pruning
  <2>4. pc'[s] = "rotCreate" => \A n \in Present : n[1] < index'[s]
    BY <1>5 DEF FindNextIndex, RotateFail
  <2>5. Aims(s)'
    BY <1>3, <2>1, <2>4 DEF Aims, Present
  <2> QED BY <2>2, <2>3, <2>5 DEF SessionOK
<1>6. CASE RotateClaim(s)
  <2>1. /\ pc[s] = "rotClaim" /\ index[s] \in Index /\ dir[Log(index[s])] = fd[s] /\ fd[s] # None
        /\ \A n \in Present : n[1] < index[s] \/ n = Log(index[s])
        /\ jpc[<<s, index[s]>>] = "none"
    BY <1>1, <1>6 DEF RotateClaim, InHand, Aims
  <2>n. index[s] \in Nat /\ Index \subseteq Nat /\ \A n \in Present : n[1] \in Nat
    BY <2>1, Names DEF Present, Name
  <2>2. CASE /\ pc'[s] = "rotCreate" /\ file'[s] = None /\ path'[s] = path[s]
             /\ index'[s] = index[s] + 1
    <3>1. Manners(s)'
      BY <1>1, <1>2, <1>3, <1>4, <2>1, <2>2 DEF Manners, Idle, Opening, Pruning
    <3>2. \A n \in Present : n[1] < index[s] + 1
      BY <2>1, <2>n DEF Log
    <3>3. Aims(s)'
      BY <1>3, <2>2, <3>2 DEF Aims, Present
    <3> QED BY <1>3, <2>2, <3>1, <3>3 DEF SessionOK, Writes, Spares, Pruning
  <2>3. CASE pc'[s] = "prList" /\ file'[s] = fd[s] /\ path'[s] = index[s] /\ written'[s] = 0
    <3>1. Manners(s)'
      BY <1>1, <1>2, <1>3, <1>4, <2>1, <2>3 DEF Manners, Idle, Opening, Pruning
    <3>2. dir[Archive(index[s])] = None
      <4>1. Archive(index[s]) \in Name /\ Archive(index[s])[1] = index[s]
            /\ Archive(index[s]) # Log(index[s])
        BY <2>1, Names DEF Archive
      <4>2. ~(index[s] < index[s])
        BY <2>n
      <4> QED BY <2>1, <4>1, <4>2 DEF Present
    <3>3. Size(Log(index[s])) \in Nat
      BY <2>1, FS_CardinalityType DEF Size, AloneInv, Accounts
    <3>4. \A n \in Present : n[1] <= index[s]
      BY <2>1, <2>n DEF Log
    <3>5. Writes(s)'
      BY <1>2, <1>3, <2>1, <2>3, <3>2, <3>3, <3>4 DEF Writes, Size, Present
    <3>6. Aims(s)' /\ Spares(s)'
      BY <2>3 DEF Aims, Spares, Pruning
    <3> QED BY <3>1, <3>5, <3>6 DEF SessionOK
  <2> QED BY <1>2, <1>6, <2>1, <2>2, <2>3 DEF RotateClaim, NextIndex, AloneInv, Accounts
<1> QED BY <1>5, <1>6

\* Names are told apart by Before.
LEMMA BeforeOrder ==
  /\ \A n \in Name : n[1] \in Nat /\ n[1] \in Index /\ (n = Log(n[1]) \/ n = Archive(n[1]))
  /\ \A m, n \in Name : Before(m, n) => m[1] <= n[1] /\ ~Before(n, m)
  /\ \A m, n \in Name : m # n => Before(m, n) \/ Before(n, m)
<1>1. \A n \in Name : n[1] \in Nat /\ n[1] \in Index /\ n[2] \in {"log", "gz"} /\ n = <<n[1], n[2]>>
  BY DEF Name, Index
<1> QED BY <1>1 DEF Before, Log, Archive

LEMMA OldestOne ==
  ASSUME NEW S \in SUBSET Name, NEW m \in Oldest(S), NEW n \in Oldest(S)
  PROVE  m = n /\ m \in S
<1>1. m \in S /\ n \in S /\ (m # n => Before(m, n) /\ Before(n, m))
  BY DEF Oldest
<1> QED BY <1>1, BeforeOrder

LEMMA NamesFinite == IsFiniteSet(Name)
<1>1. IsFiniteSet(Index)
  BY FS_Interval DEF Index
<1>2. IsFiniteSet({"log", "gz"})
  <2>1. IsFiniteSet({"log"})
    BY FS_Singleton
  <2>2. {"log", "gz"} = {"log"} \cup {"gz"}
    OBVIOUS
  <2> QED BY <2>1, <2>2, FS_AddElement
<1> QED BY <1>1, <1>2, FS_Product DEF Name

\* The newest name is not among those above the cap.
LEMMA NewestSpared ==
  ASSUME NEW n \in Present, \A m \in Present \ {n} : Before(m, n)
  PROVE  ~(Cardinality({m \in Present : Before(m, n)}) + MaxFiles < Cardinality(Present))
<1>1. Present \subseteq Name
  BY DEF Present
<1>2. {m \in Present : Before(m, n)} = Present \ {n}
  BY <1>1, BeforeOrder
<1>3. IsFiniteSet(Present)
  BY <1>1, NamesFinite, FS_Subset
<1>4. Cardinality(Present \ {n}) = Cardinality(Present) - 1 /\ Cardinality(Present) \in Nat
  BY <1>3, FS_RemoveElement, FS_CardinalityType
<1>5. MaxFiles >= 1 /\ MaxFiles \in Nat
  BY LogAssumption
<1> DEFINE c == Cardinality(Present)
<1>6. Cardinality({m \in Present : Before(m, n)}) = c - 1 /\ c \in Nat
  BY <1>2, <1>4
<1> HIDE DEF c
<1>7. ~((c - 1) + MaxFiles < c)
  BY <1>5, <1>6
<1> QED BY <1>6, <1>7 DEF c

\* There is a newest name.
LEMMA HasNewest ==
  ASSUME NEW S \in SUBSET Name, S # {}
  PROVE  \E n \in S : \A m \in S \ {n} : Before(m, n)
<1> DEFINE T == {n[1] : n \in S}
<1>1. S \subseteq Name
  OBVIOUS
<1>2. T \in SUBSET (0..MaxIndex) /\ T # {}
  BY <1>1, BeforeOrder DEF Index
<1>3. PICK i \in T : \A k \in T : k <= i
  BY <1>2, Greatest
<1>4. \A m \in S : m[1] <= i /\ m[1] \in Nat
  BY <1>1, <1>3, BeforeOrder
<1>5. i \in Nat
  BY <1>2
<1> HIDE DEF T
<1>6. PICK k \in S : k[1] = i
  BY <1>3 DEF T
<1>7. CASE Archive(i) \in S
  <2>1. \A m \in S \ {Archive(i)} : Before(m, Archive(i))
    <3>1. \A m \in S : m[1] < i \/ m = Archive(i) \/ m = Log(i)
      BY <1>1, <1>4, <1>5, BeforeOrder
    <3> QED BY <3>1 DEF Before, Log, Archive
  <2> QED BY <1>7, <2>1
<1>8. CASE Archive(i) \notin S
  <2>1. \A m \in S : m[1] < i \/ m = Log(i)
    BY <1>1, <1>4, <1>5, <1>8, BeforeOrder
  <2>2. k = Log(i)
    BY <1>5, <1>6, <2>1
  <2>3. \A m \in S \ {k} : Before(m, k)
    BY <1>6, <2>1, <2>2 DEF Before
  <2> QED BY <2>3
<1> QED BY <1>7, <1>8

LEMMA ListKept ==
  ASSUME AloneInv, PlaceInv, NEW s \in Session, PruneList(s)
  PROVE  SessionOK(s)'
<1> USE DEF PlaceInv, LogInv, Shape
<1> DEFINE old == {n \in Present : Cardinality({m \in Present : Before(m, n)})
                                     + MaxFiles < Cardinality(Present)}
<1>1. Manners(s) /\ Writes(s)
  BY DEF AloneInv, SessionOK
<1>2. /\ UNCHANGED <<dir, data, jpc, file, path, written, closing>> /\ matches'[s] = old
      /\ \/ old # {} /\ pc'[s] = "prCheck"
         \/ old = {} /\ pc'[s] = (IF closing[s] THEN "closed" ELSE "open")
  BY DEF PruneList, Pruned
<1>3. pc[s] \in {"prList", "waiting"} /\ (pc[s] = "waiting" => Jobless(s))
  BY DEF PruneList, Jobless
<1>4. closing[s] => pc[s] = "waiting" /\ file[s] = None
  BY <1>1, <1>3 DEF Manners, Pruning
<1>5. pc[s] = "waiting" => file[s] = None /\ closing[s]
  BY <1>1 DEF Manners, Pruning, InHand
<1>6. Jobless(s)' <=> Jobless(s)
  BY <1>2 DEF Jobless
<1>7. pc'[s] # "closed" \/ (file[s] = None /\ old = {} /\ Jobless(s))
  BY <1>2, <1>3, <1>4
<1>8. Manners(s)'
  BY <1>1, <1>2, <1>3, <1>4, <1>6, <1>7 DEF Manners, Idle, Opening, Pruning
<1>9. Aims(s)'
  BY <1>2 DEF Aims
<1>10. file[s] # None => Log(path[s]) \notin old
  <2> SUFFICES ASSUME file[s] # None PROVE Log(path[s]) \notin old
    OBVIOUS
  <2>1. /\ dir[Log(path[s])] # None /\ dir[Archive(path[s])] = None /\ path[s] \in Index
        /\ \A n \in Present : n[1] <= path[s]
    BY <1>1, <1>3, <1>5 DEF Writes, InHand
  <2>2. Log(path[s]) \in Present /\ Log(path[s])[1] = path[s]
    BY <2>1, Names DEF Present, Log
  <2>3. \A m \in Present \ {Log(path[s])} : Before(m, Log(path[s]))
    <3>1. Present \subseteq Name /\ path[s] \in Nat
      BY <2>1, Names DEF Present
    <3>2. \A m \in Present : m[1] < path[s] \/ m = Log(path[s])
      BY <2>1, <3>1, BeforeOrder DEF Present
    <3> QED BY <3>2 DEF Before, Log
  <2> QED BY <2>2, <2>3, NewestSpared
<1>11. Writes(s)'
  BY <1>1, <1>2, <1>3, <1>5, <1>10 DEF Writes, Size, Present
<1>12. ASSUME old # {} PROVE \E k \in Present \ old : \A n \in Present : n[1] <= k[1]
  <2>0. Present \in SUBSET Name /\ Present # {}
    BY <1>12 DEF Present
  <2>1. PICK k \in Present : \A m \in Present \ {k} : Before(m, k)
    BY <2>0, HasNewest
  <2>2. k \notin old
    BY <2>1, NewestSpared
  <2>3. Present \subseteq Name
    BY DEF Present
  <2>4. \A n \in Present : n[1] <= k[1]
    BY <2>1, <2>3, BeforeOrder
  <2> QED BY <2>2, <2>4
<1>13. Spares(s)'
  <2> HIDE DEF old
  <2> QED BY <1>2, <1>12 DEF Spares, Present, Pruning
<1> QED BY <1>8, <1>9, <1>11, <1>13 DEF SessionOK

LEMMA CheckKept ==
  ASSUME AloneInv, PlaceInv, NEW s \in Session, PruneCheck(s) \/ PruneUnlock(s)
  PROVE  SessionOK(s)'
<1> USE DEF PlaceInv, LogInv, Shape
<1>1. Manners(s) /\ Writes(s) /\ Spares(s)
  BY DEF AloneInv, SessionOK
<1>2. UNCHANGED <<dir, data, jpc, file, path, written, closing>> /\ pc[s] \in Pruning
  BY DEF PruneCheck, PruneUnlock, Pruning
<1>3. Jobless(s)' <=> Jobless(s)
  BY <1>2 DEF Jobless
<1>4. CASE /\ matches'[s] = {} /\ pc[s] = "prCheck"
           /\ pc'[s] = (IF closing[s] THEN "closed" ELSE "open")
  <2>1. pc'[s] = "closed" => file[s] = None /\ Jobless(s)
    BY <1>1, <1>2, <1>4 DEF Manners
  <2>2. Manners(s)'
    BY <1>1, <1>2, <1>3, <1>4, <2>1 DEF Manners, Idle, Opening, Pruning
  <2>3. Writes(s)'
    BY <1>1, <1>2, <1>4 DEF Writes, Size, Present
  <2> QED BY <1>4, <2>2, <2>3 DEF SessionOK, Aims, Spares, Pruning
<1>5. CASE /\ matches' = matches /\ pc'[s] \in {"prUnlock", "prRemove"}
           /\ \A n \in Oldest(matches[s]) : jpc[<<s, n[1]>>] = "none"
  <2>1. Manners(s)'
    BY <1>1, <1>2, <1>3, <1>5 DEF Manners, Idle, Opening, Pruning
  <2>2. Writes(s)'
    BY <1>1, <1>2, <1>5 DEF Writes, Size, Present, Pruning
  <2>3. Spares(s)'
    BY <1>1, <1>2, <1>5 DEF Spares, Present
  <2> QED BY <1>5, <2>1, <2>2, <2>3 DEF SessionOK, Aims
<1>6. CASE PruneUnlock(s)
  BY <1>1, <1>5, <1>6 DEF PruneUnlock, Spares
<1>7. CASE PruneCheck(s)
  <2>1. PICK n \in Oldest(matches[s]) :
          \/ matches' = [matches EXCEPT ![s] = {}] /\ Pruned(s)
          \/ /\ matches' = matches /\ ~CompressionOwns(s, n)
             /\ pc' = [pc EXCEPT ![s] = "prRemove"] \/ pc' = [pc EXCEPT ![s] = "prUnlock"]
    BY <1>7 DEF PruneCheck
  <2>2. CASE matches' = [matches EXCEPT ![s] = {}] /\ Pruned(s)
    BY <1>2, <1>4, <1>7, <2>2 DEF Pruned, PruneCheck
  <2>3. CASE /\ matches' = matches /\ ~CompressionOwns(s, n)
             /\ pc' = [pc EXCEPT ![s] = "prRemove"] \/ pc' = [pc EXCEPT ![s] = "prUnlock"]
    <3>1. n \in Name
      BY OldestOne
    <3>2. jpc[<<s, n[1]>>] = "none"
      BY <2>3, <3>1, BeforeOrder DEF CompressionOwns
    <3>3. \A m \in Oldest(matches[s]) : m = n
      BY OldestOne
    <3> QED BY <1>5, <2>3, <3>2, <3>3
  <2> QED BY <2>1, <2>2, <2>3
<1> QED BY <1>6, <1>7

LEMMA RemoveKept ==
  ASSUME AloneInv, PlaceInv, NEW s \in Session, PruneRemove(s)
  PROVE  SessionOK(s)' /\ FullDoubles' /\ \A j \in Job : j[1] = s => JobFiles(j)'
<1> USE DEF PlaceInv, LogInv, Shape
<1>1. Manners(s) /\ Writes(s) /\ Spares(s)
  BY DEF AloneInv, SessionOK
<1>2. UNCHANGED <<data, jpc, jsrc, jdst, file, path, written, closing>> /\ pc[s] = "prRemove"
  BY DEF PruneRemove
<1>3. PICK n \in Oldest(matches[s]) :
        /\ dir' = [dir EXCEPT ![n] = None]
        /\ matches'[s] = matches[s] \ {n}
        /\ IF matches[s] = {n} THEN pc'[s] = (IF closing[s] THEN "closed" ELSE "open")
           ELSE pc'[s] = "prCheck"
  BY DEF PruneRemove, Pruned
<1>4. n \in Name /\ n \in matches[s] /\ jpc[<<s, n[1]>>] = "none"
  BY <1>1, <1>2, OldestOne DEF Spares
<1>5. \A m \in Name : dir'[m] = IF m = n THEN None ELSE dir[m]
  BY <1>3
<1>6. Present' = Present \ {n}
  BY <1>5 DEF Present
<1>7. Jobless(s)' <=> Jobless(s)
  BY <1>2 DEF Jobless
<1>8. pc'[s] = "closed" => file[s] = None /\ Jobless(s)
  BY <1>1, <1>2, <1>3 DEF Manners, Pruning
<1>9. Manners(s)'
  <2>1. CASE matches[s] = {n}
    BY <1>1, <1>2, <1>3, <1>7, <1>8, <2>1 DEF Manners, Idle, Opening, Pruning
  <2>2. CASE matches[s] # {n}
    BY <1>1, <1>2, <1>3, <1>4, <1>7, <2>2 DEF Manners, Idle, Opening, Pruning
  <2> QED BY <2>1, <2>2
<1>10. Aims(s)'
  BY <1>3 DEF Aims
<1>11. Writes(s)'
  <2> SUFFICES ASSUME file[s] # None PROVE Writes(s)'
    BY <1>2 DEF Writes
  <2>1. path[s] \in Index /\ Log(path[s]) \in Name /\ Archive(path[s]) \in Name
    BY Names DEF InHand
  <2>2. Log(path[s]) # n /\ dir'[Log(path[s])] = dir[Log(path[s])]
        /\ dir'[Archive(path[s])] = None
    BY <1>1, <1>4, <1>5, <2>1 DEF Writes
  <2> QED BY <1>1, <1>2, <1>3, <1>6, <2>2 DEF Writes, Size, Pruning
<1>12. Spares(s)'
  BY <1>1, <1>2, <1>3, <1>4, <1>6 DEF Spares, Pruning
<1>13. FullDoubles'
  BY <1>2, <1>5, Names DEF AloneInv, FullDoubles, Size
<1>14. ASSUME NEW j \in Job, j[1] = s PROVE JobFiles(j)'
  <2>1. j = <<s, j[2]>> /\ j[2] \in Index /\ Log(j[2]) \in Name /\ Archive(j[2]) \in Name
        /\ Log(j[2])[1] = j[2] /\ Archive(j[2])[1] = j[2]
    <3>1. j = <<j[1], j[2]>> /\ j[2] \in Index
      BY DEF Job
    <3>2. Log(j[2])[1] = j[2] /\ Archive(j[2])[1] = j[2]
      BY DEF Log, Archive
    <3> QED BY <1>14, <3>1, <3>2, Names
  <2>2. JobFiles(j)
    BY DEF AloneInv
  <2>3. jpc[j] # "none" => dir'[Log(j[2])] = dir[Log(j[2])] /\ dir'[Archive(j[2])] = dir[Archive(j[2])]
    BY <1>4, <1>5, <2>1
  <2> QED BY <1>2, <2>2, <2>3 DEF JobFiles, Size
<1> QED BY <1>9, <1>10, <1>11, <1>12, <1>13, <1>14 DEF SessionOK

LEMMA CloseKept ==
  ASSUME AloneInv, PlaceInv, NEW s \in Session, CloseFile(s)
  PROVE  SessionOK(s)'
<1> USE DEF PlaceInv, LogInv, Shape
<1>1. Manners(s)
  BY DEF AloneInv, SessionOK
<1>2. /\ UNCHANGED <<dir, data, jpc, path, matches>> /\ file'[s] = None /\ closing'[s]
      /\ pc'[s] = "waiting" /\ pc[s] \in {"open", "broken"}
  BY DEF CloseFile
<1>3. Jobless(s)' <=> Jobless(s)
  BY <1>2 DEF Jobless
<1>4. Manners(s)'
  BY <1>1, <1>2, <1>3 DEF Manners, Idle, Opening, Pruning
<1> QED BY <1>2, <1>4 DEF SessionOK, Aims, Writes, Spares, Pruning

LEMMA CrashKept ==
  ASSUME AloneInv, PlaceInv, NEW s \in Session, Crash(s)
  PROVE  SessionOK(s)' /\ FullDoubles' /\ \A j \in Job : j[1] = s => JobFiles(j)'
<1> USE DEF PlaceInv, LogInv, Shape
<1>1. /\ UNCHANGED <<dir, data>> /\ file'[s] = None /\ pc'[s] = "dead" /\ matches'[s] = {}
      /\ \A j \in Job : j[1] = s => jpc'[j] = "none"
  BY DEF Crash
<1>2. Jobless(s)'
  <2>1. \A i \in Index : <<s, i>> \in Job /\ <<s, i>>[1] = s
    BY Names
  <2> QED BY <1>1, <2>1 DEF Jobless
<1>3. Manners(s)'
  BY <1>1, <1>2 DEF Manners, Idle, Opening, Pruning
<1>4. FullDoubles'
  BY <1>1 DEF AloneInv, FullDoubles, Size
<1> QED BY <1>1, <1>3, <1>4 DEF SessionOK, Aims, Writes, Spares, Pruning, JobFiles

\* A compression has one of the two names of its index.
LEMMA JobPresent ==
  ASSUME AloneInv, NEW j \in Job, jpc[j] # "none"
  PROVE  \E n \in Present : n[1] = j[2]
<1>1. Log(j[2]) \in Name /\ Archive(j[2]) \in Name /\ Log(j[2])[1] = j[2] /\ Archive(j[2])[1] = j[2]
  BY Names DEF Log, Archive
<1>2. dir[Log(j[2])] # None \/ dir[Archive(j[2])] # None
  BY DEF AloneInv, JobFiles
<1> QED BY <1>1, <1>2 DEF Present

LEMMA CreateKept ==
  ASSUME AloneInv, PlaceInv, NEW s \in Session, RotateCreate(s)
  PROVE  SessionOK(s)' /\ FullDoubles' /\ \A j \in Job : j[1] = s => JobFiles(j)'
<1> USE DEF PlaceInv, LogInv, Shape
<1>1. Manners(s) /\ Aims(s)
  BY DEF AloneInv, SessionOK
<1>2. /\ ~closing[s] /\ file[s] = None /\ matches[s] = {} /\ pc[s] = "rotCreate"
      /\ \A n \in Present : n[1] < index[s]
  BY <1>1 DEF RotateCreate, Manners, Pruning, Aims
<1>3. UNCHANGED <<jpc, jsrc, jdst, file, path, written, matches, closing>>
  BY DEF RotateCreate
<1>4. Jobless(s)' <=> Jobless(s)
  BY <1>3 DEF Jobless
<1>5. index[s] \in Index /\ index[s] \in Nat
  BY LogAssumption DEF RotateCreate, Index
<1>6. \A n \in Present : n[1] \in Nat
  BY BeforeOrder DEF Present
<1>7. pc'[s] \in {"rotCreate", "rotClaim"}
  BY <1>2 DEF RotateCreate, NextIndex
<1>8. Manners(s)'
  BY <1>1, <1>2, <1>3, <1>4, <1>7 DEF Manners, Idle, Opening, Pruning
<1>9. Writes(s)' /\ Spares(s)'
  BY <1>2, <1>3, <1>7 DEF Writes, Spares, Pruning
<1>10. CASE NextIndex(s) /\ UNCHANGED <<dir, data>>
  <2>1. pc'[s] = "rotCreate" /\ index'[s] = index[s] + 1
    BY <1>10 DEF NextIndex
  <2>2. \A n \in Present : n[1] < index[s] + 1
    BY <1>2, <1>5, <1>6
  <2>3. Aims(s)'
    BY <1>10, <2>1, <2>2 DEF Aims, Present
  <2>4. FullDoubles' /\ \A j \in Job : j[1] = s => JobFiles(j)'
    BY <1>3, <1>10, JobsKept DEF JobSame
  <2> QED BY <1>8, <1>9, <2>3, <2>4 DEF SessionOK
<1>11. CASE ~(NextIndex(s) /\ UNCHANGED <<dir, data>>)
  <2> DEFINE n == Log(index[s])
             x == NewInode(n)
  <2>1. /\ n \in Name /\ Spare(n) # {} /\ dir[n] = None /\ ~CompressionOwns(s, n)
        /\ dir' = [dir EXCEPT ![n] = x] /\ data' = [data EXCEPT ![x] = {}]
        /\ fd'[s] = x /\ index' = index /\ pc'[s] = "rotClaim"
    BY <1>5, <1>11, Names DEF RotateCreate
  <2>2. x \in Inode /\ x # None /\ \A m \in Name : dir[m] # x
    BY <2>1, NewInodeFresh
  <2>3. n[1] = index[s]
    BY DEF Log
  <2> HIDE DEF x, n
  <2>4. \A m \in Name : /\ dir'[m] = IF m = n THEN x ELSE dir[m]
                        /\ m # n /\ dir[m] # None => data'[dir[m]] = data[dir[m]]
    BY <2>1, <2>2, OneName DEF Contents
  <2>5. jpc[<<s, index[s]>>] = "none"
    BY <1>5, <2>1, <2>3 DEF CompressionOwns
  <2>6. Present' = Present \cup {n}
    BY <2>1, <2>2, <2>4 DEF Present
  <2>7. Aims(s)'
    BY <1>2, <1>3, <2>1, <2>4, <2>5, <2>6 DEF Aims, n
  <2>8. dir[Archive(index[s])] = None
    <3>1. Archive(index[s])[1] = index[s] /\ Archive(index[s]) \in Name
      BY <1>5, Names DEF Archive
    <3>2. ~(index[s] < index[s])
      BY <1>5
    <3> QED BY <1>2, <3>1, <3>2 DEF Present
  <2>9. FullDoubles'
    <3> SUFFICES ASSUME NEW i \in Index, dir'[Log(i)] # None, dir'[Archive(i)] # None
                 PROVE  Size(Log(i))' >= MaxSize
      BY DEF FullDoubles
    <3>1. Log(i) \in Name /\ Archive(i) \in Name /\ Archive(i) # n
      BY <1>5, Names DEF n
    <3>2. i # index[s]
      BY <2>4, <2>8, <3>1
    <3>3. Log(i) # n
      BY <1>5, <3>2, NamesApart DEF n
    <3> QED BY <2>4, <3>1, <3>3 DEF AloneInv, FullDoubles, Size
  <2>10. ASSUME NEW j \in Job, j[1] = s PROVE JobFiles(j)'
    <3>1. JobFiles(j)
      BY DEF AloneInv
    <3>2. CASE jpc[j] = "none"
      BY <1>3, <3>2 DEF JobFiles
    <3>3. CASE jpc[j] # "none"
      <4>1. j[2] # index[s] /\ j[2] \in Index
        BY <1>2, <1>5, <3>3, JobPresent, Names
      <4>2. Log(j[2]) # n /\ Archive(j[2]) # n /\ Log(j[2]) \in Name /\ Archive(j[2]) \in Name
        BY <1>5, <4>1, NamesApart, Names DEF n
      <4> QED BY <1>3, <2>4, <3>1, <4>2 DEF JobFiles, Size, InHand
    <3> QED BY <3>2, <3>3
  <2> QED BY <1>8, <1>9, <2>7, <2>9, <2>10 DEF SessionOK
<1> QED BY <1>10, <1>11

LEMMA WriteKept ==
  ASSUME AloneInv, PlaceInv, NEW s \in Session, Write(s)
  PROVE  SessionOK(s)' /\ FullDoubles' /\ \A j \in Job : j[1] = s => JobFiles(j)'
<1> USE DEF PlaceInv, LogInv, Shape
<1> DEFINE e == <<s, sent[s] + 1>>
<1>1. Manners(s) /\ Writes(s)
  BY DEF AloneInv, SessionOK
<1>a. PICK n \in Name : path[s] \in Index /\ n = Log(path[s])
  BY WriteCases, Names DEF Write, InHand
<1>b. UNCHANGED path /\ n = Log(path[s])'
  BY <1>a DEF Write, Log
<1>2. /\ file[s] \in Inode /\ UNCHANGED <<dir, path, fd, index, matches, closing>>
      /\ pc[s] = "open" /\ path[s] \in Index /\ n \in Name
      /\ data' = [data EXCEPT ![file[s]] = @ \cup {e}]
  BY <1>a, WriteCases DEF Write, InHand
<1>3. /\ dir[n] = file[s] /\ dir[n] # None /\ dir[Archive(path[s])] = None
      /\ Size(n) >= written[s] /\ jpc[<<s, path[s]>>] = "none"
      /\ ~closing[s] /\ path[s] # None /\ matches[s] = {}
  BY <1>a, <1>1, <1>2 DEF Writes, Manners, Pruning
<1>4. e \notin data[file[s]]
  <2>1. ~(sent[s] + 1 <= sent[s])
    BY DEF Contents
  <2> QED BY <1>2, <2>1 DEF AloneInv, Accounts
<1> HIDE DEF e
<1>5. written[s] \in Nat /\ Size(n) \in Nat /\ Size(n)' = Size(n) + 1
  <2>1. IsFiniteSet(data[file[s]]) /\ data'[file[s]] = data[file[s]] \cup {e}
    BY <1>2 DEF AloneInv, Accounts, Contents
  <2>2. Cardinality(data'[file[s]]) = Cardinality(data[file[s]]) + 1 /\ Cardinality(data[file[s]]) \in Nat
    <3> DEFINE S == data[file[s]]
    <3>1. IsFiniteSet(S) /\ data'[file[s]] = S \cup {e} /\ e \notin S
      BY <1>4, <2>1
    <3> HIDE DEF S
    <3>2. Cardinality(S \cup {e}) = Cardinality(S) + 1 /\ Cardinality(S) \in Nat
      BY <3>1, FS_AddElement, FS_CardinalityType
    <3> QED BY <3>1, <3>2 DEF S
  <2>3. written[s] \in Nat
    BY DEF AloneInv, Accounts
  <2>4. Size(n) = Cardinality(data[file[s]]) /\ Size(n)' = Cardinality(data'[file[s]])
    BY <1>2, <1>3 DEF Size
  <2> QED BY <2>2, <2>3, <2>4
<1>6. \A m \in Name : m # n /\ dir[m] # None => data'[dir[m]] = data[dir[m]]
  BY <1>2, <1>3, OneName DEF Contents
<1>7. FullDoubles'
  <2> SUFFICES ASSUME NEW i \in Index, dir[Log(i)] # None, dir[Archive(i)] # None
               PROVE  Size(Log(i))' >= MaxSize
    BY <1>2 DEF FullDoubles
  <2>1. Log(i) # n /\ Log(i) \in Name
    BY <1>a, <1>2, <1>3, Names, NamesApart
  <2> QED BY <1>2, <1>6, <2>1 DEF AloneInv, FullDoubles, Size
<1>8. ASSUME NEW j \in Job, j[1] = s, j # <<s, path[s]>>, JobSame(j) PROVE JobFiles(j)'
  <2>1. j = <<s, j[2]>> /\ j[2] \in Index
    BY <1>8 DEF Job
  <2>2. Log(j[2]) # n /\ Archive(j[2]) # n /\ Log(j[2]) \in Name /\ Archive(j[2]) \in Name
    BY <1>a, <1>2, <1>8, <2>1, NamesApart, Names
  <2>3. JobFiles(j)
    BY DEF AloneInv
  <2>4. UNCHANGED <<dir, jpc[j], jsrc[j], jdst[j]>>
    BY <1>2, <1>8 DEF JobSame
  <2>5. /\ dir[Log(j[2])] # None => data'[dir[Log(j[2])]] = data[dir[Log(j[2])]]
        /\ dir[Archive(j[2])] # None => data'[dir[Archive(j[2])]] = data[dir[Archive(j[2])]]
    BY <1>6, <2>2
  <2>6. jpc[j] \in {"claimDst", "copy"} => jdst[j] # None
    BY DEF InHand
  <2> QED BY <2>3, <2>4, <2>5, <2>6 DEF JobFiles, Size
<1>9. CASE ~Full(written[s] + 1)
  <2>1. /\ UNCHANGED <<pc, file, jpc, jsrc, jdst>> /\ written'[s] = written[s] + 1
    BY <1>9 DEF Write, AloneInv, Accounts
  <2>2. Manners(s)'
    BY <1>1, <1>2, <2>1 DEF Manners, Jobless, Idle, Opening, Pruning
  <2>3. Writes(s)'
    BY <1>a, <1>b, <1>1, <1>2, <1>3, <1>5, <2>1 DEF Writes
  <2>4. Aims(s)' /\ Spares(s)'
    BY <1>2, <2>1 DEF Aims, Spares, Pruning
  <2>5. ASSUME NEW j \in Job, j[1] = s PROVE JobFiles(j)'
    <3>1. CASE j = <<s, path[s]>>
      BY <1>3, <2>1, <3>1 DEF JobFiles
    <3>2. CASE j # <<s, path[s]>>
      BY <1>8, <2>1, <2>5, <3>2 DEF JobSame
    <3> QED BY <3>1, <3>2
  <2> QED BY <1>7, <2>2, <2>3, <2>4, <2>5 DEF SessionOK
<1>10. CASE Full(written[s] + 1)
  <2>0. PICK k \in Job : k = <<s, path[s]>> /\ k[1] = s /\ k[2] = path[s]
    <3>1. <<s, path[s]>> \in Job
      BY <1>2, Names
    <3> QED BY <3>1
  <2>1. /\ pc'[s] = "rotIndex" /\ file'[s] = None
        /\ \/ jpc' = [jpc EXCEPT ![k] = "openDst"] /\ jsrc' = [jsrc EXCEPT ![k] = file[s]]
           \/ jpc' = [jpc EXCEPT ![k] = "openSrc"] /\ jsrc' = [jsrc EXCEPT ![k] = None]
        /\ jdst' = jdst
    <3>1. PICK dup \in BOOLEAN : StartCompression(s, dup)
      BY <1>10 DEF Write
    <3>2. CASE dup
      BY <1>10, <2>0, <3>1, <3>2 DEF Write, StartCompression
    <3>3. CASE ~dup
      BY <1>10, <2>0, <3>1, <3>3 DEF Write, StartCompression
    <3> QED BY <3>2, <3>3
  <2>2. jpc'[k] \in {"openSrc", "openDst"} /\ (jpc'[k] = "openDst" => jsrc'[k] = file[s])
        /\ \A j \in Job : j # k => JobSame(j)
    BY <2>0, <2>1 DEF JobSame
  <2>3. Size(n)' >= MaxSize
    <3>1. MaxSize \in Nat /\ written[s] + 1 >= MaxSize
      BY <1>10, LogAssumption DEF Full
    <3> QED BY <1>3, <1>5, <3>1
  <2>4. JobFiles(k)'
    BY <1>a, <1>2, <1>3, <2>0, <2>2, <2>3 DEF JobFiles
  <2>5. \A j \in Job : j[1] = s => JobFiles(j)'
    <3> SUFFICES ASSUME NEW j \in Job, j[1] = s, j # k PROVE JobFiles(j)'
      BY <2>4
    <3>1. JobSame(j)
      BY <2>2
    <3>2. j # <<s, path[s]>>
      BY <2>0
    <3> QED BY <1>8, <3>1, <3>2
  <2>6. Manners(s)'
    BY <1>2, <1>3, <2>1 DEF Manners, Idle, Opening, Pruning
  <2>7. Aims(s)' /\ Writes(s)' /\ Spares(s)'
    BY <2>1 DEF Aims, Writes, Spares, Pruning
  <2> QED BY <1>7, <2>5, <2>6, <2>7 DEF SessionOK
<1> QED BY <1>9, <1>10

-----------------------------------------------------------------------------
(* One session after another: the steps of a compression *)

\* A step of a compression touches the two names of its index only.
Within(i) ==
  \A m \in Name : m[1] # i => /\ dir'[m] = dir[m]
                              /\ dir[m] # None => data'[dir[m]] = data[dir[m]]

LEMMA JobSession ==
  ASSUME AloneInv, PlaceInv, NEW j \in Job, Compress(j), Within(j[2])
  PROVE  SessionOK(j[1])'
<1> USE DEF PlaceInv, LogInv, Shape
<1> DEFINE s == j[1]
           i == j[2]
<1>1. /\ UNCHANGED <<pc, file, path, written, fd, index, matches, closing>>
      /\ \A k \in Job : k # j => JobSame(k)
  BY CompressFrame
<1>2. s \in Session /\ i \in Index /\ i \in Nat /\ j = <<s, i>>
  <2>1. j = <<j[1], j[2]>> /\ j[1] \in Session /\ j[2] \in Index
    BY DEF Job
  <2> QED BY <2>1, Names
<1>3. jpc[<<s, i>>] # "none"
  BY <1>2 DEF Compress, OpenSource, ClaimSource, OpenArchive, ClaimArchive, Copy,
     RemoveSource, ReleaseSource
<1>4. PICK p \in Present : p[1] = i
  BY <1>2, <1>3, JobPresent
<1>5. SessionOK(s)
  BY <1>2 DEF AloneInv
<1> HIDE DEF s, i
<1>6. ~Jobless(s)
  BY <1>2, <1>3 DEF Jobless
<1>7. path[s] # None /\ pc[s] \notin Opening /\ ~Idle(s) /\ ~(closing[s] /\ pc[s] \in Pruning)
  BY <1>5, <1>6 DEF SessionOK, Manners
<1>8. \A k \in Index : k # i => jpc'[<<s, k>>] = jpc[<<s, k>>]
  BY <1>1, <1>2, Names DEF JobSame
<1>9. file[s] # None => path[s] # i /\ path[s] \in Index
  <2>1. file[s] # None => jpc[<<s, path[s]>>] = "none"
    BY <1>5 DEF SessionOK, Manners
  <2>2. file[s] # None => path[s] \in Index
    BY <1>2 DEF InHand
  <2> QED BY <1>3, <2>1, <2>2
<1>10. Manners(s)'
  BY <1>1, <1>5, <1>7, <1>8, <1>9 DEF SessionOK, Manners, Idle, Opening
<1>11. \A n \in Present' : n \in Name /\ n[1] \in Nat /\ (n \in Present \/ n[1] = i)
  BY <1>2, BeforeOrder DEF Within, Present, i
<1>12. \A n \in Present : n[1] \in Nat
  BY BeforeOrder DEF Present
<1>13. Aims(s)'
  <2>1. pc[s] = "rotCreate" => \A n \in Present' : n[1] < index[s]
    BY <1>4, <1>5, <1>11 DEF SessionOK, Aims
  <2>2. ASSUME pc[s] = "rotClaim"
        PROVE  /\ dir'[Log(index[s])] = fd[s] /\ jpc'[<<s, index[s]>>] = "none"
               /\ \A n \in Present' : n[1] < index[s] \/ n = Log(index[s])
    <3>1. index[s] \in Index /\ Log(index[s]) \in Name /\ Log(index[s])[1] = index[s]
      BY <1>2, <2>2, Names DEF InHand, Log
    <3>2. /\ jpc[<<s, index[s]>>] = "none" /\ dir[Log(index[s])] = fd[s]
          /\ \A n \in Present : n[1] < index[s] \/ n = Log(index[s])
      BY <1>5, <2>2 DEF SessionOK, Aims
    <3>3. i # index[s]
      BY <1>3, <3>2
    <3>4. i < index[s]
      BY <1>4, <3>1, <3>2, <3>3
    <3>5. dir'[Log(index[s])] = dir[Log(index[s])]
      BY <3>1, <3>3 DEF Within, i
    <3> QED BY <1>8, <1>11, <3>1, <3>2, <3>3, <3>4, <3>5
  <2> QED BY <1>1, <1>7, <2>1, <2>2 DEF Aims, Opening
<1>14. Writes(s)'
  <2> SUFFICES ASSUME file[s] # None PROVE Writes(s)'
    BY <1>1 DEF Writes
  <2>1. /\ Log(path[s]) \in Name /\ Archive(path[s]) \in Name
        /\ Log(path[s])[1] = path[s] /\ Archive(path[s])[1] = path[s]
    BY <1>9, Names DEF Log, Archive
  <2>2. dir'[Log(path[s])] = dir[Log(path[s])] /\ dir'[Archive(path[s])] = dir[Archive(path[s])]
    BY <1>9, <2>1 DEF Within, i
  <2>3. Size(Log(path[s]))' = Size(Log(path[s]))
    BY <1>1, <1>5, <1>9, <2>1, <2>2 DEF Within, Size, SessionOK, Writes, i
  <2>4. pc[s] # "open" => \A n \in Present' : n[1] <= path[s]
    BY <1>4, <1>5, <1>11 DEF SessionOK, Writes
  <2> QED BY <1>1, <1>5, <2>2, <2>3, <2>4 DEF SessionOK, Writes
<1>15. Spares(s)'
  <2>1. ASSUME pc[s] \in {"prUnlock", "prRemove"}, NEW n \in Oldest(matches[s])
        PROVE  jpc'[<<s, n[1]>>] = "none"
    <3>1. jpc[<<s, n[1]>>] = "none"
      BY <1>5, <2>1 DEF SessionOK, Spares
    <3>2. n \in Name
      BY <1>2, OldestOne
    <3> QED BY <1>3, <1>8, <3>1, <3>2, BeforeOrder
  <2> QED BY <1>1, <1>7, <2>1 DEF Spares
<1> QED BY <1>10, <1>13, <1>14, <1>15 DEF SessionOK, s

\* So the other compressions of the session keep theirs.
LEMMA JobKept ==
  ASSUME AloneInv, PlaceInv, NEW j \in Job, Compress(j), Within(j[2]), JobFiles(j)',
         dir'[Log(j[2])] # None /\ dir'[Archive(j[2])] # None => Size(Log(j[2]))' >= MaxSize
  PROVE  /\ SessionOK(j[1])' /\ FullDoubles'
         /\ \A k \in Job : k[1] = j[1] => JobFiles(k)'
<1> USE DEF PlaceInv, LogInv, Shape
<1>1. \A k \in Job : k # j => JobSame(k)
  BY CompressFrame
<1>2. ASSUME NEW k \in Job, k[1] = j[1], k # j PROVE JobFiles(k)'
  <2>1. j = <<j[1], j[2]>> /\ k = <<k[1], k[2]>> /\ k[2] \in Index
    BY DEF Job
  <2>2. k[2] # j[2]
    BY <1>2, <2>1
  <2>3. /\ Log(k[2]) \in Name /\ Archive(k[2]) \in Name
        /\ Log(k[2])[1] = k[2] /\ Archive(k[2])[1] = k[2]
    BY <2>1, Names DEF Log, Archive
  <2>4. /\ dir'[Log(k[2])] = dir[Log(k[2])] /\ dir'[Archive(k[2])] = dir[Archive(k[2])]
        /\ dir[Log(k[2])] # None => data'[dir[Log(k[2])]] = data[dir[Log(k[2])]]
        /\ dir[Archive(k[2])] # None => data'[dir[Archive(k[2])]] = data[dir[Archive(k[2])]]
    BY <2>2, <2>3 DEF Within
  <2>5. JobFiles(k) /\ JobSame(k)
    BY <1>1, <1>2 DEF AloneInv
  <2> QED BY <2>4, <2>5 DEF JobFiles, JobSame, Size, InHand
<1>3. FullDoubles'
  <2> SUFFICES ASSUME NEW i \in Index, dir'[Log(i)] # None, dir'[Archive(i)] # None
               PROVE  Size(Log(i))' >= MaxSize
    BY DEF FullDoubles
  <2>1. CASE i = j[2]
    BY <2>1
  <2>2. CASE i # j[2]
    <3>1. /\ Log(i) \in Name /\ Archive(i) \in Name /\ Log(i)[1] = i /\ Archive(i)[1] = i
      BY Names DEF Log, Archive
    <3>2. dir'[Log(i)] = dir[Log(i)] /\ dir'[Archive(i)] = dir[Archive(i)]
      BY <2>2, <3>1 DEF Within
    <3>3. data'[dir[Log(i)]] = data[dir[Log(i)]]
      BY <2>2, <3>1, <3>2 DEF Within
    <3> QED BY <3>2, <3>3 DEF AloneInv, FullDoubles, Size
  <2> QED BY <2>1, <2>2
<1> QED BY <1>2, <1>3, JobSession

LEMMA CompressKept ==
  ASSUME AloneInv, PlaceInv, NEW j \in Job, Compress(j)
  PROVE  /\ SessionOK(j[1])' /\ FullDoubles' /\ Within(j[2])
         /\ \A k \in Job : k[1] = j[1] => JobFiles(k)'
<1> USE DEF PlaceInv, LogInv, Shape
<1> DEFINE l == Log(j[2])
           n == Archive(j[2])
<1>1. /\ j[2] \in Index /\ l \in Name /\ n \in Name /\ l # n /\ l[1] = j[2] /\ n[1] = j[2]
  BY Names DEF Log, Archive
<1>2. JobFiles(j)
  BY DEF AloneInv
<1>3. \A m \in Name : m[1] # j[2] => m # l /\ m # n
  BY <1>1
<1>4. dir[l] # None /\ dir[n] # None => Size(l) >= MaxSize
  BY <1>1 DEF AloneInv, FullDoubles
<1> HIDE DEF l, n
<1>5. SUFFICES /\ Within(j[2]) /\ JobFiles(j)'
               /\ dir'[l] # None /\ dir'[n] # None => Size(l)' >= MaxSize
  BY JobKept DEF l, n
<1>6. CASE UNCHANGED <<dir, data>> /\ JobFiles(j)'
  <2>1. Within(j[2]) /\ Size(l)' = Size(l)
    BY <1>6 DEF Within, Size
  <2> QED BY <1>4, <1>6, <2>1
<1>7. CASE UNCHANGED <<dir, data>> /\ EndJob(j)
  <2>1. jpc'[j] = "none"
    BY <1>7 DEF EndJob
  <2> QED BY <1>6, <1>7, <2>1 DEF JobFiles
<1>8. CASE OpenSource(j) /\ ~EndJob(j)
  <2>1. /\ UNCHANGED <<dir, data>> /\ jpc[j] = "openSrc" /\ jpc'[j] = "claimSrc" /\ jsrc'[j] = dir[l]
    BY <1>8 DEF OpenSource, l
  <2> QED BY <1>2, <1>6, <2>1 DEF JobFiles, Size, l, n
<1>9. CASE ClaimSource(j) /\ ~EndJob(j)
  <2>1. /\ UNCHANGED <<dir, data, jsrc>> /\ jpc[j] = "claimSrc" /\ jpc'[j] = "openDst"
    BY <1>9 DEF ClaimSource
  <2> QED BY <1>2, <1>6, <2>1 DEF JobFiles, Size, l, n
<1>10. CASE OpenArchive(j) /\ ~(UNCHANGED <<dir, data>> /\ EndJob(j))
  <2> DEFINE x == NewInode(n)
  <2>1. dir[n] = None /\ dir[l] # None /\ Size(l) >= MaxSize /\ dir[l] = jsrc[j]
    BY <1>2, <1>10 DEF OpenArchive, JobFiles, l, n
  <2>2. /\ Spare(n) # {} /\ dir' = [dir EXCEPT ![n] = x] /\ data' = [data EXCEPT ![x] = {}]
        /\ jdst'[j] = x /\ jpc'[j] = "claimDst" /\ jsrc' = jsrc
    BY <1>10, <2>1 DEF OpenArchive, LeaveSource, n
  <2>3. x \in Inode /\ x # None /\ \A m \in Name : dir[m] # x
    BY <1>1, <2>2, NewInodeFresh
  <2> HIDE DEF x
  <2>4. \A m \in Name : m # n => dir'[m] = dir[m] /\ (dir[m] # None => data'[dir[m]] = data[dir[m]])
    BY <1>1, <2>2, <2>3, OneName DEF Contents
  <2>5. dir'[n] = x /\ data'[x] = {}
    BY <1>1, <2>2, <2>3 DEF Contents
  <2>6. Within(j[2])
    BY <1>3, <2>4 DEF Within
  <2>7. dir'[l] = dir[l] /\ Size(l)' >= MaxSize
    BY <1>1, <2>1, <2>4 DEF Size
  <2>8. JobFiles(j)'
    BY <2>1, <2>2, <2>5, <2>7 DEF JobFiles, l, n
  <2> QED BY <2>6, <2>7, <2>8
<1>11. CASE ClaimArchive(j) /\ ~EndJob(j)
  <2>1. /\ UNCHANGED <<dir, jsrc, jdst>> /\ jpc[j] = "claimDst" /\ jpc'[j] = "copy"
        /\ data' = [data EXCEPT ![jdst[j]] = {}]
    BY <1>11 DEF ClaimArchive, LeaveSource
  <2>2. data[jdst[j]] = {}
    BY <1>2, <2>1 DEF JobFiles
  <2>3. data' = data
    BY <2>1, <2>2 DEF Contents
  <2> QED BY <1>2, <1>6, <2>1, <2>3 DEF JobFiles, Size
<1>12. CASE Copy(j) /\ CopyDone(j)
  <2>1. /\ UNCHANGED <<dir, jsrc>> /\ jpc[j] = "copy" /\ jpc'[j] = "unlink"
        /\ data' = [data EXCEPT ![jdst[j]] = data[jsrc[j]]] /\ jdst[j] \in Inode
        /\ dir[l] # None /\ dir[l] = jsrc[j] /\ dir[n] = jdst[j] /\ Size(l) >= MaxSize
    BY <1>2, <1>12 DEF Copy, CopyDone, JobFiles, l, n, InHand
  <2>2. \A m \in Name : m # n /\ dir[m] # None => data'[dir[m]] = data[dir[m]]
    BY <1>1, <2>1, OneName DEF Contents
  <2>3. data'[dir[n]] = data[dir[l]] /\ data'[dir[l]] = data[dir[l]]
    BY <1>1, <2>1, <2>2 DEF Contents
  <2>4. Within(j[2])
    BY <1>3, <2>1, <2>2 DEF Within
  <2>5. JobFiles(j)'
    BY <2>1, <2>3 DEF JobFiles, Size, l, n
  <2> QED BY <2>1, <2>3, <2>4, <2>5 DEF Size
<1>13. CASE Copy(j) /\ CopyFailed(j)
  <2>1. /\ dir' = [dir EXCEPT ![n] = None] /\ data' = data /\ jpc'[j] = "none"
    BY <1>13 DEF Copy, CopyFailed, EndJob, n
  <2>2. Within(j[2]) /\ dir'[n] = None
    BY <1>1, <1>3, <2>1 DEF Within
  <2> QED BY <2>1, <2>2 DEF JobFiles
<1>14. CASE RemoveSource(j)
  <2>1. /\ dir' = [dir EXCEPT ![l] = None] /\ data' = data /\ jpc[j] = "unlink"
        /\ jpc'[j] = "release"
    BY <1>14 DEF RemoveSource, l
  <2>2. Within(j[2]) /\ dir'[l] = None /\ dir'[n] = dir[n]
    BY <1>1, <1>3, <2>1 DEF Within
  <2>3. dir[n] # None
    BY <1>2, <2>1 DEF JobFiles, n
  <2> QED BY <2>1, <2>2, <2>3 DEF JobFiles, n
<1>15. CASE ReleaseSource(j)
  BY <1>7, <1>15 DEF ReleaseSource
<1>16. CASE OpenSource(j) \/ ClaimSource(j)
  <2>1. UNCHANGED <<dir, data>>
    BY <1>16 DEF OpenSource, ClaimSource
  <2> QED BY <1>7, <1>8, <1>9, <1>16, <2>1
<1>17. CASE ClaimArchive(j)
  <2>1. EndJob(j) => UNCHANGED <<dir, data>>
    <3>1. jpc[j] = "claimDst" /\ jpc \in [Job -> JobPC]
      BY <1>17 DEF ClaimArchive
    <3>2. EndJob(j) => jpc'[j] = "none"
      BY <3>1 DEF EndJob
    <3>3. JobGoto(j, "copy") => jpc'[j] = "copy"
      BY <3>1 DEF JobGoto
    <3> QED BY <1>17, <3>2, <3>3 DEF ClaimArchive
  <2> QED BY <1>7, <1>11, <1>17, <2>1
<1>18. CASE Copy(j)
  BY <1>12, <1>13, <1>18 DEF Copy
<1> QED BY <1>7, <1>10, <1>14, <1>15, <1>16, <1>17, <1>18 DEF Compress

-----------------------------------------------------------------------------
(* One session after another: every step *)

\* A step of the writers while one session at a time is at work.
AloneNext == Next /\ \A t \in Session : pc'[t] # pc[t] => Alone(t)

LEMMA InitAlone == Init => AloneInv
<1> SUFFICES ASSUME Init PROVE AloneInv
  OBVIOUS
<1>1. Accounts
  BY FS_EmptySet DEF Init, Accounts
<1>2. ASSUME NEW s \in Session PROVE SessionOK(s)
  <2>1. Jobless(s)
    BY Names DEF Init, Jobless
  <2>2. Manners(s)
    BY <2>1 DEF Init, Manners, Idle, Opening, Pruning
  <2> QED BY <2>2 DEF Init, SessionOK, Aims, Writes, Spares, Pruning
<1>3. OneBusy /\ FullDoubles /\ \A j \in Job : JobFiles(j)
  BY Names DEF Init, OneBusy, Idle, FullDoubles, JobFiles
<1> QED BY <1>1, <1>2, <1>3 DEF AloneInv

LEMMA AloneStepKept ==
  ASSUME AloneInv, PlaceInv, NEW s \in Session, AloneStep(s)
  PROVE  SessionOK(s)' /\ FullDoubles' /\ \A j \in Job : j[1] = s => JobFiles(j)'
<1> USE DEF AloneStep
<1>1. CASE Write(s) \/ RotateCreate(s) \/ PruneRemove(s) \/ Crash(s)
  BY <1>1, WriteKept, CreateKept, RemoveKept, CrashKept
<1>2. CASE ~(Write(s) \/ RotateCreate(s) \/ PruneRemove(s) \/ Crash(s))
  <2>1. UNCHANGED <<dir, data, jpc, jsrc, jdst>>
    BY <1>2 DEF SessionStep, Step, FindLastFile, CloseFile, RotateFail, OpenLast, ClaimLast,
       FindNextIndex, RotateClaim, PruneList, PruneCheck, PruneUnlock
  <2>2. SessionOK(s)'
    BY <1>2, OpeningKept, RotationKept, ListKept, CheckKept, CloseKept DEF SessionStep, Step
  <2> QED BY <2>1, <2>2, JobsKept DEF JobSame
<1> QED BY <1>1, <1>2

\* With one session at a time at work, every file is where whoever uses it takes it to be.
LEMMA AloneNextKept ==
  ASSUME AloneInv, PlaceInv, AloneNext
  PROVE  AloneInv'
<1>1. Accounts'
  BY AccountsKept DEF AloneNext
<1>2. ASSUME NEW s \in Session, SessionStep(s) PROVE AloneInv'
  <2>1. AloneStep(s)
    BY <1>2 DEF AloneStep, AloneNext
  <2> QED BY <1>1, <2>1, AloneStepKept, AloneKept DEF PlaceInv
<1>3. ASSUME NEW j \in Job, Compress(j) PROVE AloneInv'
  <2>1. j[1] \in Session
    BY Names
  <2> QED BY <1>1, <1>3, <2>1, CompressKept, AloneKept DEF PlaceInv
<1> QED BY <1>2, <1>3 DEF AloneNext, Next, SessionStep

-----------------------------------------------------------------------------
(* What a step does to the files *)

\* Of the other names nothing changes.
Others(c) ==
  \A m \in Name : m # c => dir'[m] = dir[m] /\ (dir[m] # None => data'[dir[m]] = data[dir[m]])

Appended(c) ==
  \E s \in Session :
    /\ c = Log(path[s]) /\ path[s] \in Index /\ pc[s] = "open"
    /\ file[s] # None /\ dir[c] = file[s] /\ dir' = dir
    /\ data' = [data EXCEPT ![file[s]] = @ \cup {<<s, sent[s] + 1>>}]
    /\ sent' = [sent EXCEPT ![s] = @ + 1] /\ dropped' = dropped

Created(c) ==
  /\ c[2] = "log" /\ dir[c] = None /\ dir'[c] # None /\ data'[dir'[c]] = {}
  /\ \A m \in Present : m[1] < c[1]
  /\ UNCHANGED <<sent, dropped>>

Removed(c) ==
  /\ dir'[c] = None /\ (dir[c] # None => data[dir[c]] \subseteq dropped') /\ dropped \subseteq dropped'
  /\ \E k \in Present \ {c} : \A n \in Present : n[1] <= k[1]
  /\ UNCHANGED <<sent, data>>

\* An archive is made empty, beside its log file, then filled from it or removed; only
\* then the log file is.
ArchiveMade(c) ==
  /\ c[2] = "gz" /\ dir[c] = None /\ dir'[c] # None /\ data'[dir'[c]] = {}
  /\ dir[Log(c[1])] # None
  /\ UNCHANGED <<sent, dropped>>
ArchiveFilled(c) ==
  /\ c[2] = "gz" /\ dir[c] # None /\ data[dir[c]] = {} /\ dir' = dir
  /\ dir[Log(c[1])] # None /\ data'[dir[c]] = data[dir[Log(c[1])]]
  /\ UNCHANGED <<sent, dropped>>
ArchiveLost(c) ==
  /\ c[2] = "gz" /\ dir[c] # None /\ data[dir[c]] = {} /\ dir'[c] = None
  /\ dir[Log(c[1])] # None
  /\ UNCHANGED <<sent, dropped, data>>
SourceRemoved(c) ==
  /\ c[2] = "log" /\ dir[c] # None /\ dir'[c] = None
  /\ dir[Archive(c[1])] # None /\ data[dir[c]] \subseteq data[dir[Archive(c[1])]]
  /\ UNCHANGED <<sent, dropped, data>>

Changed(c) ==
  \/ Appended(c) \/ Created(c) \/ Removed(c)
  \/ ArchiveMade(c) \/ ArchiveFilled(c) \/ ArchiveLost(c) \/ SourceRemoved(c)

LEMMA FileStep ==
  ASSUME AloneInv, PlaceInv, AloneNext, ~UNCHANGED <<dir, data, sent, dropped>>
  PROVE  \E c \in Name : Others(c) /\ Changed(c)
<1> USE DEF PlaceInv, LogInv, Shape
<1>1. ASSUME NEW s \in Session, Write(s) PROVE \E c \in Name : Others(c) /\ Appended(c)
  <2> DEFINE c == Log(path[s])
  <2>1. /\ file[s] \in Inode /\ dir' = dir /\ path[s] \in Index /\ c \in Name /\ pc[s] = "open"
        /\ data' = [data EXCEPT ![file[s]] = @ \cup {<<s, sent[s] + 1>>}]
        /\ sent' = [sent EXCEPT ![s] = @ + 1] /\ dropped' = dropped
    BY <1>1, WriteCases, Names DEF Write, InHand
  <2>2. file[s] # None /\ dir[c] = file[s]
    BY <2>1 DEF AloneInv, SessionOK, Writes
  <2>3. Others(c)
    BY <2>1, <2>2, OneName DEF Others, Contents
  <2>4. Appended(c)
    BY <2>1, <2>2 DEF Appended
  <2> QED BY <2>1, <2>3, <2>4
<1>2. ASSUME NEW s \in Session, RotateCreate(s), ~UNCHANGED <<dir, data, sent, dropped>>
      PROVE  \E c \in Name : Others(c) /\ Created(c)
  <2> DEFINE c == Log(index[s])
             x == NewInode(c)
  <2>1. \A n \in Present : n[1] < index[s]
    BY <1>2 DEF RotateCreate, AloneInv, SessionOK, Aims
  <2>2. /\ index[s] \in Index /\ c \in Name /\ c[1] = index[s] /\ c[2] = "log"
    BY <1>2, LogAssumption, Names DEF RotateCreate, Index, Log
  <2>3. /\ Spare(c) # {} /\ dir[c] = None /\ UNCHANGED <<sent, dropped>>
        /\ dir' = [dir EXCEPT ![c] = x] /\ data' = [data EXCEPT ![x] = {}]
    BY <1>2 DEF RotateCreate
  <2>4. x \in Inode /\ x # None /\ \A m \in Name : dir[m] # x
    BY <2>2, <2>3, NewInodeFresh
  <2> HIDE DEF x, c
  <2>5. dir'[c] = x /\ data'[x] = {}
    BY <2>2, <2>3, <2>4 DEF Contents
  <2>6. Others(c)
    BY <2>2, <2>3, <2>4, OneName DEF Others, Contents
  <2>7. Created(c)
    BY <2>1, <2>2, <2>3, <2>4, <2>5 DEF Created
  <2> QED BY <2>2, <2>6, <2>7
<1>3. ASSUME NEW s \in Session, PruneRemove(s) PROVE \E c \in Name : Others(c) /\ Removed(c)
  <2>1. PICK c \in Oldest(matches[s]) :
          /\ dir' = [dir EXCEPT ![c] = None] /\ dropped \subseteq dropped'
          /\ dir[c] # None => data[dir[c]] \subseteq dropped'
    BY <1>3 DEF PruneRemove
  <2>2. c \in Name /\ c \in matches[s] /\ UNCHANGED <<sent, data>> /\ pc[s] = "prRemove"
    BY <1>3, OldestOne DEF PruneRemove
  <2>3. Writes(s) /\ Spares(s) /\ (closing[s] \/ file[s] # None)
    BY <2>2 DEF AloneInv, SessionOK, InHand
  <2>4. \E k \in Present \ {c} : \A n \in Present : n[1] <= k[1]
    <3>1. CASE file[s] # None
      <4>1. path[s] \in Index /\ Log(path[s]) \in Name /\ Log(path[s])[1] = path[s]
        BY <3>1, Names DEF InHand, Log
      <4>2. Log(path[s]) \in Present \ {c} /\ \A n \in Present : n[1] <= path[s]
        BY <2>2, <2>3, <3>1, <4>1 DEF Writes, Present
      <4> QED BY <4>1, <4>2
    <3>2. CASE closing[s]
      BY <2>2, <2>3, <3>2 DEF Spares, Pruning
    <3> QED BY <2>3, <3>1, <3>2
  <2>5. Others(c) /\ dir'[c] = None
    BY <2>1, <2>2 DEF Others
  <2>6. Removed(c)
    BY <2>1, <2>2, <2>4, <2>5 DEF Removed
  <2> QED BY <2>2, <2>5, <2>6
<1>4. ASSUME NEW s \in Session, SessionStep(s), ~Write(s), ~RotateCreate(s), ~PruneRemove(s)
      PROVE  UNCHANGED <<dir, data, sent, dropped>>
  BY <1>4 DEF SessionStep, Step, FindLastFile, CloseFile, RotateFail, Crash, OpenLast, ClaimLast,
     FindNextIndex, RotateClaim, PruneList, PruneCheck, PruneUnlock
<1>5. ASSUME NEW j \in Job, Compress(j), ~UNCHANGED <<dir, data, sent, dropped>>
      PROVE  \E c \in Name : Others(c) /\ Changed(c)
  <2> DEFINE l == Log(j[2])
             c == Archive(j[2])
  <2>1. /\ j[2] \in Index /\ l \in Name /\ c \in Name /\ l # c /\ Log(c[1]) = l /\ Archive(l[1]) = c
        /\ c[2] = "gz" /\ l[2] = "log"
    BY Names DEF Log, Archive
  <2>2. JobFiles(j)
    BY DEF AloneInv
  <2>3. UNCHANGED <<sent, dropped>>
    BY <1>5 DEF Compress, OpenSource, ClaimSource, OpenArchive, ClaimArchive, Copy,
       RemoveSource, ReleaseSource
  <2>4. JobFiles(j) <=>
          /\ jpc[j] \notin {"none", "release"} => dir[l] # None /\ Size(l) >= MaxSize
          /\ jpc[j] \notin {"none", "openSrc", "release"} => dir[l] = jsrc[j]
          /\ jpc[j] \in {"openSrc", "claimSrc", "openDst"} => dir[c] = None
          /\ jpc[j] \in {"claimDst", "copy"} => dir[c] = jdst[j] /\ data[jdst[j]] = {}
          /\ jpc[j] \in {"unlink", "release"} => dir[c] # None
          /\ jpc[j] = "unlink" => data[dir[l]] \subseteq data[dir[c]]
    BY DEF JobFiles
  <2>5. CASE OpenArchive(j)
    <3> DEFINE x == NewInode(c)
    <3>1. dir[c] = None /\ dir[l] # None
      BY <2>2, <2>4, <2>5 DEF OpenArchive
    <3>2. /\ Spare(c) # {} /\ dir' = [dir EXCEPT ![c] = x] /\ data' = [data EXCEPT ![x] = {}]
      BY <1>5, <2>3, <2>5, <3>1 DEF OpenArchive
    <3>3. x \in Inode /\ x # None /\ \A m \in Name : dir[m] # x
      BY <2>1, <3>2, NewInodeFresh
    <3> HIDE DEF x, c, l
    <3>4. dir'[c] = x /\ data'[x] = {}
      BY <2>1, <3>2, <3>3 DEF Contents
    <3>5. Others(c)
      BY <2>1, <3>2, <3>3, OneName DEF Others, Contents
    <3>6. ArchiveMade(c)
      BY <2>1, <2>3, <3>1, <3>3, <3>4 DEF ArchiveMade
    <3> QED BY <2>1, <3>5, <3>6 DEF Changed
  <2>6. CASE ClaimArchive(j)
    <3>1. jpc[j] = "claimDst" /\ data[jdst[j]] = {} /\ dir' = dir
      BY <2>2, <2>6 DEF ClaimArchive, JobFiles
    <3>2. data' = data \/ data' = [data EXCEPT ![jdst[j]] = {}]
      BY <2>6 DEF ClaimArchive
    <3>2a. data' = data
      <4>1. PICK d : d = jdst[j]
        OBVIOUS
      <4>2. data[d] = {} /\ (data' = data \/ data' = [data EXCEPT ![d] = {}])
        BY <3>1, <3>2, <4>1
      <4>3. data = [i \in DOMAIN data |-> data[i]]
        BY DEF Contents
      <4> QED BY <4>2, <4>3
    <3> QED BY <1>5, <2>3, <3>1, <3>2a
  <2>7. CASE Copy(j) /\ CopyDone(j)
    <3>1. /\ dir' = dir /\ data' = [data EXCEPT ![jdst[j]] = data[jsrc[j]]] /\ jdst[j] \in Inode
          /\ dir[l] # None /\ dir[l] = jsrc[j] /\ dir[c] = jdst[j] /\ data[jdst[j]] = {}
      BY <2>2, <2>4, <2>7 DEF Copy, CopyDone, InHand
    <3> HIDE DEF c, l
    <3>2. Others(c)
      BY <2>1, <3>1, OneName DEF Others, Contents
    <3>3. ArchiveFilled(c)
      BY <2>1, <2>3, <3>1 DEF ArchiveFilled, Contents
    <3> QED BY <2>1, <3>2, <3>3 DEF Changed
  <2>8. CASE Copy(j) /\ CopyFailed(j)
    <3>1. /\ dir' = [dir EXCEPT ![c] = None] /\ data' = data /\ jdst[j] # None
          /\ dir[l] # None /\ dir[c] = jdst[j] /\ data[jdst[j]] = {}
      BY <2>2, <2>4, <2>8 DEF Copy, CopyFailed, InHand
    <3> HIDE DEF c, l
    <3>2. Others(c) /\ dir'[c] = None
      BY <2>1, <3>1 DEF Others
    <3>3. ArchiveLost(c)
      BY <2>1, <2>3, <3>1, <3>2 DEF ArchiveLost
    <3> QED BY <2>1, <3>2, <3>3 DEF Changed
  <2>9. CASE RemoveSource(j)
    <3>1. /\ dir' = [dir EXCEPT ![l] = None] /\ data' = data
          /\ dir[l] # None /\ dir[c] # None /\ data[dir[l]] \subseteq data[dir[c]]
      BY <2>2, <2>4, <2>9 DEF RemoveSource
    <3> HIDE DEF c, l
    <3>2. Others(l) /\ dir'[l] = None
      BY <2>1, <3>1 DEF Others
    <3>3. SourceRemoved(l)
      BY <2>1, <2>3, <3>1, <3>2 DEF SourceRemoved
    <3> QED BY <2>1, <3>2, <3>3 DEF Changed
  <2>10. ~OpenArchive(j) /\ ~ClaimArchive(j) /\ ~Copy(j) /\ ~RemoveSource(j) => UNCHANGED <<dir, data>>
    BY <1>5 DEF Compress, OpenSource, ClaimSource, ReleaseSource
  <2> QED BY <1>5, <2>3, <2>5, <2>6, <2>7, <2>8, <2>9, <2>10 DEF Copy
<1> QED BY <1>1, <1>2, <1>3, <1>4, <1>5 DEF AloneNext, Next, SessionStep, Changed

\* Some name is as new as the newest there was.
LEMMA TopKept ==
  ASSUME AloneInv, PlaceInv, AloneNext, NEW n \in Present
  PROVE  \E m \in Present' : n[1] <= m[1]
<1> USE DEF Present
<1>1. \A m \in Name : m[1] \in Nat
  BY BeforeOrder
<1>2. CASE UNCHANGED <<dir, data, sent, dropped>>
  BY <1>1, <1>2
<1>3. ASSUME NEW c \in Name, Others(c), Changed(c) PROVE \E m \in Present' : n[1] <= m[1]
  <2>1. CASE dir'[n] # None
    BY <1>1, <2>1
  <2>2. CASE dir'[n] = None
    <3>1. n = c
      BY <1>3, <2>2 DEF Others
    <3>2. CASE Removed(c)
      <4>1. PICK k \in Present \ {c} : n[1] <= k[1]
        BY <3>2 DEF Removed
      <4> QED BY <1>3, <4>1 DEF Others
    <3>3. CASE ArchiveLost(c)
      <4>1. c[1] \in Index /\ Log(c[1]) \in Name /\ Log(c[1])[1] = c[1] /\ Log(c[1]) # c
        BY <3>3, BeforeOrder, Names DEF ArchiveLost, Log
      <4> QED BY <1>1, <1>3, <3>1, <3>3, <4>1 DEF Others, ArchiveLost
    <3>4. CASE SourceRemoved(c)
      <4>1. c[1] \in Index /\ Archive(c[1]) \in Name /\ Archive(c[1])[1] = c[1] /\ Archive(c[1]) # c
        BY <3>4, BeforeOrder, Names DEF SourceRemoved, Archive
      <4> QED BY <1>1, <1>3, <3>1, <3>4, <4>1 DEF Others, SourceRemoved
    <3> QED BY <1>3, <2>2, <3>1, <3>2, <3>3, <3>4 DEF Changed, Appended, Created, ArchiveMade, ArchiveFilled
  <2> QED BY <2>1, <2>2
<1> QED BY <1>2, <1>3, FileStep

\* A name is made only if it is newer than all there are, or is an archive beside its log file.
LEMMA MadeNewer ==
  ASSUME AloneInv, PlaceInv, AloneNext, NEW n \in Name, dir[n] = None, dir'[n] # None,
         n[2] = "log", NEW m \in Present
  PROVE  m[1] < n[1]
<1>1. CASE UNCHANGED <<dir, data, sent, dropped>>
  BY <1>1
<1>2. ASSUME NEW c \in Name, Others(c), Changed(c) PROVE m[1] < n[1]
  <2>1. n = c
    BY <1>2 DEF Others
  <2> QED BY <1>2, <2>1 DEF Changed, Appended, Created, Removed, ArchiveMade, ArchiveFilled,
          ArchiveLost, SourceRemoved
<1> QED BY <1>1, <1>2, FileStep

-----------------------------------------------------------------------------
(* The order of writing *)

HIDE LogAssumption DEF MaybeInode, dirVars, logVars, tryVars, jobVars, histVars,
    Goto, JobGoto

WroteInv ==
  /\ wrote \in Seq(Entry)
  /\ \A m, n \in 1..Len(wrote) : wrote[m] = wrote[n] => m = n
  /\ \A s \in Session, k \in Nat : (\E m \in 1..Len(wrote) : wrote[m] = <<s, k>>) <=> k \in 1..sent[s]

\* What the writers' steps are.
LEMMA WriterStep ==
  ASSUME AloneInv, PlaceInv, WriterSteps
  PROVE  /\ AloneNext
         /\ UNCHANGED <<does, viewVars, followVars>>
         /\ \/ sent' = sent /\ wrote' = wrote
            \/ \E s \in Session :
                 /\ pc[s] = "open" /\ file[s] # None /\ path[s] \in Index
                 /\ dir[Log(path[s])] = file[s]
                 /\ Others(Log(path[s])) /\ dir' = dir /\ dropped' = dropped
                 /\ data' = [data EXCEPT ![file[s]] = @ \cup {<<s, sent[s] + 1>>}]
                 /\ sent' = [sent EXCEPT ![s] = @ + 1]
                 /\ wrote' = Append(wrote, <<s, sent[s] + 1>>)
                 /\ sent[s] + 1 \in 1..Quota[s]
<1>1. AloneNext
  BY DEF WriterSteps, AloneNext
<1>2. CASE sent' = sent
  BY <1>1, <1>2 DEF WriterSteps
<1>3. CASE sent' # sent
  <2>1. PICK c \in Name : Others(c) /\ Changed(c)
    BY <1>1, <1>3, FileStep
  <2>2. Appended(c)
    BY <1>3, <2>1 DEF Changed, Created, Removed, ArchiveMade, ArchiveFilled, ArchiveLost, SourceRemoved
  <2>3. PICK s \in Session :
          /\ c = Log(path[s]) /\ path[s] \in Index /\ pc[s] = "open"
          /\ file[s] # None /\ dir[c] = file[s] /\ dir' = dir
          /\ data' = [data EXCEPT ![file[s]] = @ \cup {<<s, sent[s] + 1>>}]
          /\ sent' = [sent EXCEPT ![s] = @ + 1] /\ dropped' = dropped
    BY <2>2 DEF Appended
  <2>4. PICK t \in Session : sent'[t] # sent[t] /\ wrote' = Append(wrote, <<t, sent'[t]>>)
    BY <1>3 DEF WriterSteps
  <2>5. sent \in [Session -> Nat]
    BY DEF PlaceInv, Contents
  <2>6. t = s /\ sent'[s] = sent[s] + 1
    BY <2>3, <2>4, <2>5
  <2>7. sent'[s] <= Quota[s]
    <3>1. ASSUME NEW u \in Session, Write(u) PROVE sent'[u] <= Quota[u] /\ sent' = [sent EXCEPT ![u] = @ + 1]
      <4>1. sent[u] < Quota[u] /\ sent' = [sent EXCEPT ![u] = @ + 1]
        BY <3>1 DEF Write
      <4>2. Quota[u] \in Nat /\ sent[u] \in Nat /\ sent'[u] = sent[u] + 1
        BY <2>5, <4>1, LogAssumption
      <4> QED BY <4>1, <4>2
    <3>2. \E u \in Session : Write(u)
      <4>1. ASSUME NEW u \in Session, SessionStep(u), ~Write(u) PROVE sent' = sent
        BY <4>1 DEF SessionStep, Step, FindLastFile, CloseFile, RotateFail, Crash, OpenLast, ClaimLast,
           FindNextIndex, RotateCreate, RotateClaim, PruneList, PruneCheck, PruneUnlock, PruneRemove,
           logVars
      <4>2. \A j \in Job : Compress(j) => sent' = sent
        BY CompressFrame DEF PlaceInv
      <4> QED BY <1>1, <1>3, <4>1, <4>2 DEF AloneNext, Next, SessionStep
    <3>3. PICK u \in Session : Write(u)
      BY <3>2
    <3>4. u = s
      <4>1. sent'[u] = sent[u] + 1 /\ sent[u] \in Nat
        BY <2>5, <3>1, <3>3
      <4>2. u # s => sent'[u] = sent[u]
        BY <2>3, <2>5
      <4> QED BY <4>1, <4>2
    <3> QED BY <3>1, <3>3, <3>4
  <2>8. sent[s] + 1 \in 1..Quota[s]
    BY <2>5, <2>6, <2>7, LogAssumption
  <2>9. wrote' = Append(wrote, <<s, sent[s] + 1>>)
    BY <2>4, <2>6
  <2>10. UNCHANGED <<does, viewVars, followVars>>
    BY DEF WriterSteps
  <2>11. Others(Log(path[s])) /\ dir[Log(path[s])] = file[s]
    BY <2>1, <2>3
  <2> QED BY <1>1, <2>3, <2>8, <2>9, <2>10, <2>11
<1> QED BY <1>2, <1>3

LEMMA WroteKept ==
  ASSUME AloneInv, PlaceInv, WroteInv, WriterSteps
  PROVE  WroteInv'
<1>1. CASE sent' = sent /\ wrote' = wrote
  BY <1>1 DEF WroteInv
<1>2. ASSUME NEW s \in Session, sent' = [sent EXCEPT ![s] = @ + 1], sent[s] + 1 \in 1..Quota[s],
             wrote' = Append(wrote, <<s, sent[s] + 1>>)
      PROVE  WroteInv'
  <2> DEFINE e == <<s, sent[s] + 1>>
  <2>1. sent \in [Session -> Nat] /\ e \in Entry
    BY <1>2 DEF PlaceInv, Contents, Entry
  <2>2. /\ wrote' \in Seq(Entry) /\ Len(wrote') = Len(wrote) + 1 /\ Len(wrote) \in Nat
        /\ wrote'[Len(wrote) + 1] = e /\ \A m \in 1..Len(wrote) : wrote'[m] = wrote[m]
    BY <1>2, <2>1 DEF WroteInv
  <2>3. \A m \in 1..Len(wrote) : wrote[m] # e
    <3>1. sent[s] + 1 \in Nat /\ sent[s] + 1 \notin 1..sent[s]
      BY <2>1
    <3> QED BY <3>1 DEF WroteInv
  <2>4. \A m, n \in 1..Len(wrote') : wrote'[m] = wrote'[n] => m = n
    <3>1. \A m \in 1..Len(wrote') : m \in 1..Len(wrote) \/ m = Len(wrote) + 1
      BY <2>2
    <3> QED BY <2>2, <2>3, <3>1 DEF WroteInv
  <2>5. ASSUME NEW t \in Session, NEW k \in Nat
        PROVE  (\E m \in 1..Len(wrote') : wrote'[m] = <<t, k>>) <=> k \in 1..sent'[t]
    <3>1. (\E m \in 1..Len(wrote') : wrote'[m] = <<t, k>>)
            <=> (\E m \in 1..Len(wrote) : wrote[m] = <<t, k>>) \/ e = <<t, k>>
      <4>1. \A m \in 1..Len(wrote') : m \in 1..Len(wrote) \/ m = Len(wrote) + 1
        BY <2>2
      <4>2. Len(wrote) + 1 \in 1..Len(wrote') /\ \A m \in 1..Len(wrote) : m \in 1..Len(wrote')
        BY <2>2
      <4> QED BY <2>2, <4>1, <4>2
    <3>2. (\E m \in 1..Len(wrote) : wrote[m] = <<t, k>>) <=> k \in 1..sent[t]
      BY DEF WroteInv
    <3>3. k \in 1..sent'[t] <=> k \in 1..sent[t] \/ e = <<t, k>>
      <4>1. CASE t = s
        BY <1>2, <2>1, <4>1
      <4>2. CASE t # s
        BY <1>2, <2>1, <4>2
      <4> QED BY <4>1, <4>2
    <3> QED BY <3>1, <3>2, <3>3
  <2> QED BY <2>2, <2>4, <2>5 DEF WroteInv
<1> QED BY <1>1, <1>2, WriterStep

\* What is in a file was written; what is written next is in none.
LEMMA DataWrote ==
  ASSUME AloneInv, PlaceInv, WroteInv, NEW i \in Inode
  PROVE  /\ \A e \in data[i] : e \in Entry /\ \E m \in 1..Len(wrote) : wrote[m] = e
         /\ \A s \in Session : <<s, sent[s] + 1>> \notin data[i]
<1>1. ASSUME NEW e \in data[i] PROVE e \in Entry /\ \E m \in 1..Len(wrote) : wrote[m] = e
  <2>1. e \in Entry
    BY DEF PlaceInv, Contents
  <2>2a. PICK s \in Session : e \in {s} \X (1..Quota[s])
    BY <2>1 DEF Entry
  <2>2. PICK k \in 1..Quota[s] : e = <<s, k>>
    BY <2>2a
  <2>3. k <= sent[s] /\ sent[s] \in Nat
    BY <2>2 DEF AloneInv, Accounts, PlaceInv, Contents
  <2>4. k \in Nat /\ k \in 1..sent[s]
    BY <2>2, <2>3
  <2> QED BY <2>1, <2>2, <2>4 DEF WroteInv
<1>2. ASSUME NEW s \in Session PROVE <<s, sent[s] + 1>> \notin data[i]
  <2>1. ~(sent[s] + 1 <= sent[s])
    BY DEF PlaceInv, Contents
  <2> QED BY <2>1 DEF AloneInv, Accounts
<1> QED BY <1>1, <1>2

\* The lines of a file.
LEMMA LinesType ==
  ASSUME AloneInv, PlaceInv, WroteInv, NEW i \in Inode
  PROVE  /\ Lines(i) \in Seq(Entry)
         /\ \A e : e \in Range(Lines(i)) <=> e \in data[i]
<1>1. wrote \in Seq(Entry)
  BY DEF WroteInv
<1>2. \A e : e \in Range(Lines(i)) <=> e \in data[i] /\ e \in Range(wrote)
  BY <1>1, SiftedRange DEF Lines
<1>3. \A e \in data[i] : e \in Range(wrote)
  <2>1. DOMAIN wrote = 1..Len(wrote)
    BY <1>1
  <2> QED BY <2>1, DataWrote DEF Range
<1> QED BY <1>1, <1>2, <1>3, SiftedRange DEF Lines

\* A file's lines are those it had, and the one that is being appended to it.
LEMMA LinesStep ==
  ASSUME AloneInv, PlaceInv, WroteInv, WriterSteps, NEW n \in Name, dir[n] # None, dir'[n] # None,
         n[2] = "log"
  PROVE  /\ dir'[n] = dir[n]
         /\ \/ Lines(dir[n])' = Lines(dir[n])
            \/ \E e \in Entry : Lines(dir[n])' = Append(Lines(dir[n]), e)
<1> DEFINE i == dir[n]
<1>1. i \in Inode /\ wrote \in Seq(Entry)
  BY OneName DEF WroteInv
<1>2. AloneNext
  BY WriterStep
<1>3. dir'[n] = dir[n]
  <2>1. CASE UNCHANGED <<dir, data, sent, dropped>>
    BY <2>1
  <2>2. ASSUME NEW c \in Name, Others(c), Changed(c) PROVE dir'[n] = dir[n]
    BY <2>2 DEF Others, Changed, Appended, Created, Removed, ArchiveMade, ArchiveFilled, ArchiveLost,
       SourceRemoved
  <2> QED BY <1>2, <2>1, <2>2, FileStep
<1>4. CASE sent' = sent /\ wrote' = wrote
  <2>1. data'[i] = data[i]
    <3>1. CASE UNCHANGED <<dir, data, sent, dropped>>
      BY <3>1
    <3>2. ASSUME NEW c \in Name, Others(c), Changed(c) PROVE data'[i] = data[i]
      <4>1. ~Appended(c)
        BY <1>4 DEF Appended, PlaceInv, Contents
      <4> QED BY <3>2, <4>1 DEF Others, Changed, Created, Removed, ArchiveMade, ArchiveFilled, ArchiveLost,
              SourceRemoved
    <3> QED BY <1>2, <3>1, <3>2, FileStep
  <2>2. Lines(i)' = Sifted(wrote', data'[i])
    BY <1>3 DEF Lines
  <2> QED BY <1>3, <1>4, <2>1, <2>2 DEF Lines
<1>5. ASSUME NEW s \in Session, file[s] # None, path[s] \in Index, dir[Log(path[s])] = file[s],
             Others(Log(path[s])),
             data' = [data EXCEPT ![file[s]] = @ \cup {<<s, sent[s] + 1>>}],
             wrote' = Append(wrote, <<s, sent[s] + 1>>), sent[s] + 1 \in 1..Quota[s]
      PROVE  Lines(i)' = Lines(i) \/ \E e \in Entry : Lines(i)' = Append(Lines(i), e)
  <2> DEFINE e == <<s, sent[s] + 1>>
  <2>1. e \in Entry
    BY <1>5 DEF Entry
  <2>2. Lines(i)' = Sifted(Append(wrote, e), data'[i])
    BY <1>3, <1>5 DEF Lines
  <2>3. Lines(i)' = IF e \in data'[i] THEN Append(Sifted(wrote, data'[i]), e) ELSE Sifted(wrote, data'[i])
    <3>1. Sifted(Append(wrote, e), data'[i]) =
            IF e \in data'[i] THEN Append(Sifted(wrote, data'[i]), e) ELSE Sifted(wrote, data'[i])
      <4> HIDE DEF e
      <4> QED BY <1>1, <2>1, SiftedAppend
    <3> HIDE DEF e, i
    <3> QED BY <2>2, <3>1
  <2>4. data'[i] = data[i] \/ data'[i] = data[i] \cup {e}
    BY <1>1, <1>5 DEF PlaceInv, Contents
  <2>5. \A k \in 1..Len(wrote) : wrote[k] # e
    <3>1. sent[s] \in Nat
      BY DEF PlaceInv, Contents
    <3>2. sent[s] + 1 \in Nat /\ sent[s] + 1 \notin 1..sent[s]
      BY <3>1
    <3> QED BY <3>2 DEF WroteInv
  <2>6. \A k \in 1..Len(wrote) : wrote[k] \in data'[i] <=> wrote[k] \in data[i]
    BY <2>4, <2>5
  <2>7. Sifted(wrote, data'[i]) = Lines(i)
    BY <1>1, <2>6, SiftedSame DEF Lines
  <2> QED BY <2>1, <2>3, <2>7
<1> QED BY <1>3, <1>4, <1>5, WriterStep

-----------------------------------------------------------------------------
(* The follower *)

\* What has been printed of a file with these lines, by how far it has been read.
Told(all) ==
  /\ from <= offset /\ offset <= 2 * Len(all) + 1
  /\ offset % 2 = 1 => from = offset
  /\ news = SubSeq(all, (from + 1) \div 2 + 1, offset \div 2)

FollowInv ==
  /\ offset \in Nat /\ from \in Nat
  /\ followed # None => followed \in Index /\ \E n \in Present : followed <= n[1]
  /\ at \in {"idle", "stat"} => offset = 0 /\ from = 0 /\ news = <<>>
  /\ at = "tail" => followed # None
  /\ followed # None /\ dir[Log(followed)] # None => Told(Lines(dir[Log(followed)]))

LEMMA Halves ==
  ASSUME NEW k \in Nat
  PROVE  /\ k \div 2 \in Nat /\ k % 2 \in {0, 1} /\ k = (2 * (k \div 2)) + (k % 2)
         /\ (k + 1) \div 2 = (k \div 2) + (k % 2)
  OBVIOUS

\* Nothing printed of a file changes when a line is added.
LEMMA ToldMore ==
  ASSUME NEW all \in Seq(Entry), NEW e \in Entry, offset \in Nat, from \in Nat, Told(all),
         UNCHANGED <<offset, from, news>>
  PROVE  Told(all)' /\ Told(Append(all, e))'
<1> DEFINE a == (from + 1) \div 2 + 1
           b == offset \div 2
<1>1. a \in Nat /\ b \in Nat /\ 1 <= a /\ b <= Len(all) /\ Len(all) \in Nat
  BY Halves DEF Told
<1>2. Len(Append(all, e)) = Len(all) + 1 /\ \A k \in 1..Len(all) : Append(all, e)[k] = all[k]
  BY AppendProperties
<1>3. SubSeq(Append(all, e), a, b) = SubSeq(all, a, b)
  <2>1. \A k \in a..b : k \in 1..Len(all) /\ all[k] \in Entry /\ Append(all, e)[k] \in Entry
    BY <1>1, <1>2
  <2> DEFINE s == SubSeq(all, a, b)
             t == SubSeq(Append(all, e), a, b)
  <2> HIDE DEF a, b
  <2>2. s \in Seq(Entry) /\ Len(s) = (IF a <= b THEN b - a + 1 ELSE 0)
        /\ \A k \in 1..(b - a + 1) : s[k] = all[a + k - 1]
    BY <1>1, <2>1, SubSeqProperties
  <2>3. t \in Seq(Entry) /\ Len(t) = (IF a <= b THEN b - a + 1 ELSE 0)
        /\ \A k \in 1..(b - a + 1) : t[k] = Append(all, e)[a + k - 1]
    BY <1>1, <2>1, SubSeqProperties
  <2> HIDE DEF s, t
  <2>4. ASSUME NEW k \in 1..Len(s) PROVE s[k] = t[k]
    <3>1. k \in 1..(b - a + 1) /\ a + k - 1 \in 1..Len(all)
      BY <1>1, <2>2
    <3> QED BY <1>2, <2>2, <2>3, <3>1
  <2>5. s = t
    BY <2>2, <2>3, <2>4, SeqEqual
  <2> QED BY <2>5 DEF s, t
<1>4. 2 * Len(all) + 1 <= 2 * (Len(all) + 1) + 1
  BY <1>1
<1>5. offset <= 2 * Len(Append(all, e)) + 1
  BY <1>1, <1>2, <1>4 DEF Told
<1>6. Told(all)'
  BY DEF Told
<1>7. news = SubSeq(Append(all, e), (from + 1) \div 2 + 1, offset \div 2)
  BY <1>3 DEF Told
<1> QED BY <1>5, <1>6, <1>7 DEF Told

LEMMA FollowWriter ==
  ASSUME AloneInv, PlaceInv, WroteInv, FollowInv, WriterSteps
  PROVE  FollowInv'
<1>1. AloneNext /\ UNCHANGED <<at, followed, offset, from, news>>
  BY WriterStep DEF viewVars, followVars
<1>2. ASSUME followed # None
      PROVE  followed \in Index /\ \E n \in Present' : followed <= n[1]
  <2>1. PICK n \in Present : followed <= n[1]
    BY <1>2 DEF FollowInv
  <2>2. PICK m \in Present' : n[1] <= m[1]
    BY <1>1, TopKept
  <2>3. n[1] \in Nat /\ m[1] \in Nat /\ followed \in Index /\ followed \in Nat
    BY <1>2, BeforeOrder, Names DEF FollowInv, Present
  <2> QED BY <2>1, <2>2, <2>3
<1>3. ASSUME followed # None, dir'[Log(followed)] # None
      PROVE  Told(Lines(dir[Log(followed)]))'
  <2>1. PICK n \in Name : n = Log(followed) /\ n[1] = followed /\ n[2] = "log"
    BY <1>3, Names DEF FollowInv, Log
  <2>1a. followed \in Index /\ followed \in Nat
    BY <1>3, Names DEF FollowInv
  <2>2. dir[n] # None
    <3>1. PICK m \in Present : followed <= m[1]
      BY <1>3 DEF FollowInv
    <3>2. m[1] \in Nat
      BY BeforeOrder DEF Present
    <3> QED BY <1>1, <1>3, <2>1, <2>1a, <3>1, <3>2, MadeNewer
  <2>3. /\ dir'[n] = dir[n]
        /\ \/ Lines(dir[n])' = Lines(dir[n])
           \/ \E e \in Entry : Lines(dir[n])' = Append(Lines(dir[n]), e)
    <3>1. dir'[n] # None
      BY <1>1, <1>3, <2>1 DEF Log
    <3> QED BY <2>1, <2>2, <3>1, LinesStep
  <2>4. Told(Lines(dir[n])) /\ Lines(dir[n]) \in Seq(Entry)
    BY <1>3, <2>1, <2>2, OneName, LinesType DEF FollowInv
  <2>5. offset \in Nat /\ from \in Nat
    BY DEF FollowInv
  <2>6. ASSUME Lines(dir[n])' = Lines(dir[n]) PROVE Told(Lines(dir[n]))'
    <3> DEFINE all == Lines(dir[n])
    <3>1. Told(all) /\ all' = all
      BY <2>4, <2>6
    <3>2. Told(all)'
      <4> HIDE DEF all
      <4> QED BY <1>1, <3>1 DEF Told
    <3> QED BY <3>2
  <2>7. ASSUME NEW e \in Entry, Lines(dir[n])' = Append(Lines(dir[n]), e)
        PROVE  Told(Lines(dir[n]))'
    <3> DEFINE all == Lines(dir[n])
    <3>1. all' = Append(all, e)
      BY <2>7
    <3>2. from <= offset /\ offset <= 2 * Len(Append(all, e)) + 1 /\ (offset % 2 = 1 => from = offset)
          /\ news = SubSeq(Append(all, e), (from + 1) \div 2 + 1, offset \div 2)
      <4> HIDE DEF all
      <4>1. all \in Seq(Entry) /\ Told(all)
        BY <2>4 DEF all
      <4> QED BY <1>1, <2>5, <4>1, ToldMore DEF Told
    <3> QED BY <1>1, <3>1, <3>2 DEF Told
  <2>8. Told(Lines(dir[n]))'
    BY <2>3, <2>6, <2>7
  <2>9. Log(followed)' = n
    BY <1>1, <2>1 DEF Log
  <2> QED BY <2>8, <2>9
<1> QED BY <1>1, <1>2, <1>3 DEF FollowInv

\* The newest of the log files there are is one of them.
LEMMA CurrentThere ==
  ASSUME PlaceInv, Current # None
  PROVE  Current \in Index /\ Current \in Nat /\ dir[Log(Current)] # None
<1>1. Actives # {} /\ Actives \in SUBSET Name
  BY DEF Current, Actives, Present
<1> DEFINE n == CHOOSE m \in Newest(Actives) : TRUE
<1>2. Newest(Actives) # {}
  BY <1>1, HasNewest DEF Newest
<1>3. n \in Newest(Actives)
  BY <1>2
<1>4. Current = n[1]
  BY <1>1 DEF Current
<1> HIDE DEF n
<1>5. n \in Actives /\ n \in Name /\ n[2] = "log"
  BY <1>1, <1>3 DEF Newest, Actives
<1>6. n = Log(n[1]) /\ n[1] \in Index /\ n[1] \in Nat
  BY <1>5, BeforeOrder DEF Archive
<1> QED BY <1>4, <1>5, <1>6 DEF Actives, Present

LEMMA SizesAre ==
  ASSUME AloneInv, PlaceInv, WroteInv, NEW i \in Inode, NEW size \in Sizes(i)
  PROVE  /\ Len(Lines(i)) \in Nat /\ size \in Nat
         /\ size \in {2 * Len(Lines(i)), 2 * Len(Lines(i)) + 1}
<1>1. Len(Lines(i)) \in Nat
  BY LinesType
<1>2. size = 2 * Len(Lines(i)) \/ size = 2 * Len(Lines(i)) + 1
  BY DEF Sizes
<1> QED BY <1>1, <1>2

\* Nothing is printed of a file that is followed from where it ends.
LEMMA ToldNone ==
  ASSUME NEW all \in Seq(Entry), offset \in Nat, from = offset, news = <<>>,
         offset <= 2 * Len(all) + 1
  PROVE  Told(all)
<1> DEFINE a == (from + 1) \div 2 + 1
           b == offset \div 2
<1>1. a \in Int /\ b \in Int /\ b < a
  BY Halves
<1>2. SubSeq(all, a, b) = <<>>
  <2> HIDE DEF a, b
  <2> QED BY <1>1, SubSeqEmpty
<1> QED BY <1>2 DEF Told

LEMMA ToldRest ==
  ASSUME NEW all \in Seq(Entry), offset \in Nat, from \in Nat, Told(all),
         NEW size \in {2 * Len(all), 2 * Len(all) + 1}, size > offset,
         from' = from,
         offset' = IF 2 * Len(all) > offset THEN 2 * Len(all) ELSE offset,
         news' = news \o SubSeq(all, (offset + 1) \div 2 + 1, Len(all))
  PROVE  Told(all)' /\ offset' \in Nat
<1> DEFINE n == Len(all)
           a == (from + 1) \div 2 + 1
           b == offset \div 2
           c == (offset + 1) \div 2
<1>1. n \in Nat /\ offset' = 2 * n
  <2>1. n \in Nat
    OBVIOUS
  <2> HIDE DEF n
  <2>2. 2 * n > offset \/ 2 * n = offset \/ (offset = 2 * n + 1 /\ size <= offset)
    BY <2>1 DEF Told, n
  <2> QED BY <2>1, <2>2 DEF n
<1>2. offset' % 2 = 0 /\ offset' \div 2 = n
  <2> HIDE DEF n
  <2>1. 2 * n \in Nat
    BY <1>1
  <2>2. (2 * n) % 2 = 0 /\ (2 * n) \div 2 = n
    BY <1>1, <2>1, Halves
  <2> QED BY <1>1, <2>2
<1>3. a \in Nat /\ b \in Nat /\ c \in Nat /\ 1 <= a /\ a <= c + 1 /\ b <= c /\ c <= n
  BY <1>1, Halves DEF Told
<1>4. news' = SubSeq(all, a, n)
  <2>1. CASE offset % 2 = 1
    <3>1. from = offset /\ a = c + 1 /\ b < a
      BY <1>3, <2>1, Halves DEF Told
    <3>2. news = SubSeq(all, a, b)
      BY DEF Told
    <3>3. SubSeq(all, c + 1, n) \in Seq(Entry)
      <4>1. \A k \in (c + 1)..n : all[k] \in Entry
        BY <1>1, <1>3
      <4> HIDE DEF c, n
      <4> QED BY <1>1, <1>3, <4>1, SubSeqProperties
    <3>4. news' = news \o SubSeq(all, c + 1, n)
      OBVIOUS
    <3> HIDE DEF a, b, c, n
    <3>5. news = <<>>
      BY <1>3, <3>1, <3>2, SubSeqEmpty
    <3> QED BY <3>1, <3>3, <3>4, <3>5, ConcatEmptySeq
  <2>2. CASE offset % 2 # 1
    <3>1. c = b
      BY <2>2, Halves
    <3>2. news = SubSeq(all, a, b)
      BY DEF Told
    <3>3. news' = news \o SubSeq(all, c + 1, n)
      OBVIOUS
    <3>4. a \in 1..(Len(all) + 1) /\ b \in (a - 1)..Len(all) /\ n \in b..Len(all)
      BY <1>1, <1>3, <3>1
    <3> HIDE DEF a, b, c, n
    <3>5. SubSeq(all, a, b) \o SubSeq(all, b + 1, n) = SubSeq(all, a, n)
      BY <3>4, ConcatAdjacentSubSeq
    <3> QED BY <3>1, <3>2, <3>3, <3>5
  <2> QED BY <2>1, <2>2
<1>5. from <= offset' /\ offset' <= 2 * Len(all) + 1
  <2> HIDE DEF n
  <2>1. from <= offset /\ (2 * n > offset \/ offset' = offset)
    BY DEF Told, n
  <2>2. offset' <= 2 * n + 1 /\ from <= offset'
    BY <1>1, <2>1
  <2> QED BY <2>2 DEF n
<1>6. news' = SubSeq(all, (from' + 1) \div 2 + 1, offset' \div 2)
  BY <1>2, <1>4
<1>7. offset' \in Nat
  BY <1>1
<1>8. from' <= offset'
  BY <1>5
<1>9. (offset' % 2 = 1) => (from' = offset')
  <2>1. 0 # 1
    OBVIOUS
  <2> QED BY <1>2, <2>1, Zenon
<1> QED BY <1>5, <1>6, <1>7, <1>8, <1>9 DEF Told

LEMMA FollowReader ==
  ASSUME AloneInv, PlaceInv, WroteInv, FollowInv, ReaderSteps
  PROVE  FollowInv'
<1>1. /\ UNCHANGED <<dir, data, wrote>> /\ Present' = Present
      /\ \A i : Lines(i)' = Sifted(wrote, data[i])
  BY DEF ReaderSteps, vars, dirVars, Present, Lines
<1>2. Lines(dir[Log(followed)])' = Sifted(wrote, data[dir[Log(followed')]])
  BY <1>1 DEF Lines
<1>3. ASSUME NEW i \in Index, dir[Log(i)] # None
      PROVE  /\ dir[Log(i)] \in Inode /\ Log(i) \in Present /\ Log(i)[1] = i
             /\ Sifted(wrote, data[dir[Log(i)]]) \in Seq(Entry)
  <2>1. Log(i) \in Name /\ Log(i)[1] = i
    BY Names DEF Log
  <2>2. dir[Log(i)] \in Inode
    BY <1>3, <2>1, OneName
  <2> QED BY <1>3, <2>1, <2>2, LinesType DEF Lines, Present
<1>4. CASE (ListActives \/ ListArchives \/ ReadNext \/ PrintEntries) /\ UNCHANGED followVars
  <2>1. UNCHANGED <<followed, offset, from, news>> /\ at' \notin {"idle", "stat", "tail"}
    BY <1>4 DEF followVars, ListActives, ListArchives, ReadNext, PrintEntries
  <2>2. followed # None /\ dir[Log(followed)] # None => Told(Lines(dir[Log(followed)]))'
    BY <1>1, <1>2, <2>1 DEF FollowInv, Told, Lines
  <2> QED BY <1>1, <2>1, <2>2 DEF FollowInv
<1>5. CASE ShowRecent
  <2>1. /\ offset = 0 /\ from = 0 /\ news = <<>> /\ UNCHANGED <<offset, from, news>>
        /\ at' = "stat" /\ followed' = Current
    BY <1>5 DEF ShowRecent, FollowInv
  <2>2. followed' # None => /\ followed' \in Index /\ followed' \in Nat /\ dir[Log(followed')] # None
    BY <2>1, CurrentThere
  <2>3. ASSUME followed' # None PROVE Told(Lines(dir[Log(followed)]))'
    <3> DEFINE all == Sifted(wrote, data[dir[Log(followed')]])
    <3>1. all \in Seq(Entry) /\ Len(all) \in Nat
      BY <1>3, <2>2, <2>3
    <3> HIDE DEF all
    <3>2. Told(all)
      BY <2>1, <3>1, ToldNone
    <3> QED BY <1>2, <2>1, <3>2 DEF Told, all
  <2>4. followed' # None => \E n \in Present' : followed' <= n[1]
    BY <1>1, <1>3, <2>2
  <2> QED BY <1>1, <2>1, <2>2, <2>3, <2>4 DEF FollowInv
<1>6. CASE StatRecent
  <2>1. offset = 0 /\ from = 0 /\ news = <<>> /\ news' = <<>> /\ at' = "look"
    BY <1>6 DEF StatRecent, FollowInv
  <2>2. CASE followed' = None /\ UNCHANGED <<offset, from>>
    BY <2>1, <2>2 DEF FollowInv
  <2>3. CASE /\ followed' = followed /\ followed # None /\ dir[Log(followed)] # None
             /\ \E size \in Sizes(dir[Log(followed)]) : offset' = size /\ from' = size
    <3> DEFINE all == Lines(dir[Log(followed)])
    <3>1. followed \in Index /\ dir[Log(followed)] \in Inode /\ all \in Seq(Entry)
      BY <1>3, <2>3 DEF FollowInv, Lines
    <3>2. PICK size \in Sizes(dir[Log(followed)]) : offset' = size /\ from' = size
      BY <2>3
    <3>3. size \in Nat /\ size \in {2 * Len(all), 2 * Len(all) + 1} /\ Len(all) \in Nat
      BY <3>1, SizesAre
    <3>4. Lines(dir[Log(followed)])' = all
      BY <1>2, <2>3 DEF Lines
    <3> HIDE DEF all
    <3>5. Told(Lines(dir[Log(followed)]))'
      <4> DEFINE a == (size + 1) \div 2 + 1
                 b == size \div 2
      <4>1. a \in Int /\ b \in Int /\ b < a
        BY <3>3, Halves
      <4>2. SubSeq(all, a, b) = <<>>
        <5> HIDE DEF a, b
        <5> QED BY <4>1, SubSeqEmpty
      <4>3. size <= 2 * Len(all) + 1
        BY <3>3
      <4> USE DEF Told
      <4>4. SubSeq(all, (from' + 1) \div 2 + 1, offset' \div 2) = <<>>
        BY <3>2, <4>2
      <4>5. from' <= offset' /\ offset' <= 2 * Len(all) + 1
        BY <3>2, <3>3, <4>3
      <4>6. from' <= offset' /\ offset' <= 2 * Len(all) + 1 /\ (offset' % 2 = 1 => from' = offset')
            /\ news' = SubSeq(all, (from' + 1) \div 2 + 1, offset' \div 2)
        BY <2>1, <3>2, <4>4, <4>5
      <4> QED BY <3>4, <4>6
    <3> QED BY <1>1, <2>1, <2>3, <3>1, <3>2, <3>3, <3>5 DEF FollowInv
  <2> QED BY <1>6, <2>2, <2>3 DEF StatRecent
<1>7. CASE LookForFile
  <2>1. /\ Current # None /\ followed' = Current /\ at' = "tail"
        /\ Current \in Index /\ Current \in Nat /\ dir[Log(Current)] # None
    BY <1>7, CurrentThere DEF LookForFile
  <2> DEFINE all == Sifted(wrote, data[dir[Log(Current)]])
  <2>2. all \in Seq(Entry) /\ Len(all) \in Nat /\ Lines(dir[Log(followed)])' = all
    BY <1>2, <1>3, <2>1
  <2>3. \E n \in Present' : Current <= n[1]
    BY <1>1, <1>3, <2>1
  <2>4. CASE Current = followed /\ UNCHANGED <<offset, from, news>>
    <3>1. Told(all)
      BY <2>1, <2>4 DEF FollowInv, Lines
    <3> HIDE DEF all
    <3>2. Told(Lines(dir[Log(followed)]))'
      BY <2>2, <2>4, <3>1 DEF Told
    <3> QED BY <2>1, <2>3, <2>4, <3>2 DEF FollowInv
  <2>5. CASE offset' = 0 /\ from' = 0 /\ news' = <<>>
    <3> HIDE DEF all
    <3>1. SubSeq(all, 1, 0) = <<>>
      BY SubSeqEmpty
    <3>2. (0 + 1) \div 2 + 1 = 1 /\ 0 \div 2 = 0 /\ 0 % 2 = 0
      OBVIOUS
    <3>3. Told(Lines(dir[Log(followed)]))'
      BY <2>2, <2>5, <3>1, <3>2 DEF Told
    <3> QED BY <2>1, <2>3, <2>5, <3>3 DEF FollowInv
  <2> QED BY <1>7, <2>4, <2>5 DEF LookForFile
<1>8. CASE TailFile
  <2>1. followed # None /\ UNCHANGED <<followed, from>> /\ at' = "look" /\ offset \in Nat /\ from \in Nat
    BY <1>8 DEF TailFile, FollowInv
  <2>2. CASE UNCHANGED <<offset, news>>
    <3>1. dir[Log(followed)] # None => Told(Lines(dir[Log(followed)]))'
      BY <1>1, <1>2, <2>1, <2>2 DEF FollowInv, Told, Lines
    <3> QED BY <1>1, <2>1, <2>2, <3>1 DEF FollowInv
  <2>3. CASE ~UNCHANGED <<offset, news>>
    <3> DEFINE i == dir[Log(followed)]
               all == Lines(i)
    <3>1. i # None /\ followed \in Index /\ i \in Inode /\ all \in Seq(Entry)
      BY <1>3, <1>8, <2>1, <2>3 DEF TailFile, FollowInv, Lines
    <3>2. PICK size \in Sizes(i) :
            /\ size > offset
            /\ offset' = IF 2 * Len(all) > offset THEN 2 * Len(all) ELSE offset
            /\ news' = news \o SubSeq(all, (offset + 1) \div 2 + 1, Len(all))
      <4>1. \A size \in Sizes(i) : size \in Nat
        BY <3>1, SizesAre
      <4>2. PICK size \in Sizes(i) :
              /\ ~(size <= offset)
              /\ offset' = IF Consumed(i, size) > offset THEN Consumed(i, size) ELSE offset
              /\ news' = news \o SubSeq(Lines(i), (offset + 1) \div 2 + 1, Len(Lines(i)))
        BY <1>8, <2>3, <3>1 DEF TailFile
      <4>3. size > offset
        BY <2>1, <4>1, <4>2
      <4> QED BY <4>2, <4>3 DEF Consumed
    <3>3. size \in {2 * Len(all), 2 * Len(all) + 1}
      BY <3>1, SizesAre
    <3>4. Told(all)
      BY <2>1, <3>1 DEF FollowInv
    <3>5. Lines(dir[Log(followed)])' = all
      BY <1>2, <2>1 DEF Lines
    <3> HIDE DEF all
    <3>6. offset' \in Nat /\ from' <= offset' /\ offset' <= 2 * Len(all) + 1
          /\ (offset' % 2 = 1 => from' = offset')
          /\ news' = SubSeq(all, (from' + 1) \div 2 + 1, offset' \div 2)
      BY <2>1, <3>1, <3>2, <3>3, <3>4, ToldRest DEF Told
    <3>7. Told(Lines(dir[Log(followed)]))'
      BY <3>5, <3>6 DEF Told
    <3> QED BY <1>1, <2>1, <3>1, <3>6, <3>7 DEF FollowInv
  <2> QED BY <2>2, <2>3
<1> QED BY <1>4, <1>5, <1>6, <1>7, <1>8 DEF ReaderSteps

-----------------------------------------------------------------------------
(* Sequences in the order of writing *)

Sorted(s) == \A m, n \in 1..Len(s) : m < n => Precedes(s[m], s[n])

LEMMA PrecedesThrough ==
  ASSUME WroteInv, NEW d, NEW e, NEW f, Precedes(d, e), Precedes(e, f)
  PROVE  Precedes(d, f)
<1>1. PICK k, l \in 1..Len(wrote) : k < l /\ wrote[k] = d /\ wrote[l] = e
  BY DEF Precedes
<1>2. PICK m, n \in 1..Len(wrote) : m < n /\ wrote[m] = e /\ wrote[n] = f
  BY DEF Precedes
<1>3. l = m
  BY <1>1, <1>2 DEF WroteInv
<1>4. Len(wrote) \in Nat
  BY DEF WroteInv
<1>5. k < n
  BY <1>1, <1>2, <1>3, <1>4
<1> QED BY <1>1, <1>2, <1>5 DEF Precedes

\* What was written before stays before, and before what is written next.
LEMMA PrecedesStep ==
  ASSUME WroteInv, NEW x \in Entry, wrote' = Append(wrote, x) \/ wrote' = wrote
  PROVE  /\ \A d, e : Precedes(d, e) => Precedes(d, e)'
         /\ wrote' = Append(wrote, x) => \A d : (\E m \in 1..Len(wrote) : wrote[m] = d) => Precedes(d, x)'
<1>1. wrote \in Seq(Entry) /\ Len(wrote) \in Nat
  BY DEF WroteInv
<1>2. CASE wrote' = wrote /\ wrote' # Append(wrote, x)
  BY <1>2 DEF Precedes
<1>3. CASE wrote' = Append(wrote, x)
  <2>1. /\ Len(wrote') = Len(wrote) + 1 /\ wrote'[Len(wrote) + 1] = x
        /\ \A m \in 1..Len(wrote) : wrote'[m] = wrote[m]
    BY <1>1, <1>3, AppendProperties
  <2>2. /\ \A m \in 1..Len(wrote) : m \in 1..Len(wrote') /\ m < Len(wrote) + 1
        /\ Len(wrote) + 1 \in 1..Len(wrote')
    BY <1>1, <2>1
  <2>3. ASSUME NEW d, NEW e, Precedes(d, e) PROVE Precedes(d, e)'
    <3>1. PICK m, n \in 1..Len(wrote) : m < n /\ wrote[m] = d /\ wrote[n] = e
      BY <2>3 DEF Precedes
    <3> QED BY <2>1, <2>2, <3>1 DEF Precedes
  <2>4. ASSUME NEW d, NEW m \in 1..Len(wrote), wrote[m] = d PROVE Precedes(d, x)'
    BY <2>1, <2>2, <2>4 DEF Precedes
  <2> QED BY <2>3, <2>4
<1> QED BY <1>2, <1>3

LEMMA SortedConcat ==
  ASSUME NEW s \in Seq(Entry), NEW t \in Seq(Entry), Sorted(s), Sorted(t),
         \A d \in Range(s), e \in Range(t) : Precedes(d, e)
  PROVE  Sorted(s \o t)
<1>1. /\ Len(s) \in Nat /\ Len(t) \in Nat /\ Len(s \o t) = Len(s) + Len(t)
      /\ \A i \in 1..(Len(s) + Len(t)) : (s \o t)[i] = IF i <= Len(s) THEN s[i] ELSE t[i - Len(s)]
  BY ConcatProperties
<1>2. (\A i \in 1..Len(s) : s[i] \in Range(s)) /\ (\A i \in 1..Len(t) : t[i] \in Range(t))
  BY DEF Range
<1> SUFFICES ASSUME NEW m \in 1..Len(s \o t), NEW n \in 1..Len(s \o t), m < n
             PROVE  Precedes((s \o t)[m], (s \o t)[n])
  BY DEF Sorted
<1>3. CASE n <= Len(s)
  <2>1. m \in 1..Len(s) /\ n \in 1..Len(s) /\ m <= Len(s)
    BY <1>1, <1>3
  <2> QED BY <1>1, <1>3, <2>1 DEF Sorted
<1>4. CASE m <= Len(s) /\ ~(n <= Len(s))
  <2>1. m \in 1..Len(s) /\ n - Len(s) \in 1..Len(t)
    BY <1>1, <1>4
  <2> QED BY <1>1, <1>2, <1>4, <2>1
<1>5. CASE ~(m <= Len(s)) /\ ~(n <= Len(s))
  <2>1. m - Len(s) \in 1..Len(t) /\ n - Len(s) \in 1..Len(t) /\ m - Len(s) < n - Len(s)
    BY <1>1, <1>5
  <2> QED BY <1>1, <1>5, <2>1 DEF Sorted
<1>6. m <= Len(s) \/ ~(n <= Len(s)) \/ n <= Len(s)
  OBVIOUS
<1> QED BY <1>1, <1>3, <1>4, <1>5

\* A part of a sequence.
LEMMA SortedPart ==
  ASSUME NEW s \in Seq(Entry), Sorted(s), NEW a \in Nat, 1 <= a, NEW b \in Nat, b <= Len(s)
  PROVE  /\ SubSeq(s, a, b) \in Seq(Entry) /\ Sorted(SubSeq(s, a, b))
         /\ Range(SubSeq(s, a, b)) \subseteq Range(s)
         /\ Len(SubSeq(s, a, b)) = IF a <= b THEN b - a + 1 ELSE 0
         /\ \A i \in 1..(b - a + 1) : SubSeq(s, a, b)[i] = s[a + i - 1]
<1> DEFINE t == SubSeq(s, a, b)
<1>1. Len(s) \in Nat /\ \A i \in a..b : i \in 1..Len(s) /\ s[i] \in Entry
  OBVIOUS
<1>2. /\ t \in Seq(Entry) /\ Len(t) = (IF a <= b THEN b - a + 1 ELSE 0)
      /\ \A i \in 1..(b - a + 1) : t[i] = s[a + i - 1]
  BY <1>1, SubSeqProperties
<1> HIDE DEF t
<1>3. ASSUME NEW i \in 1..Len(t)
      PROVE  i \in 1..(b - a + 1) /\ a + i - 1 \in 1..Len(s) /\ t[i] = s[a + i - 1]
  <2>1. a <= b /\ Len(t) = b - a + 1
    BY <1>2
  <2>2. i \in 1..(b - a + 1) /\ a + i - 1 \in 1..Len(s)
    BY <1>1, <2>1
  <2> QED BY <1>2, <2>2
<1>4. Sorted(t)
  BY <1>1, <1>3 DEF Sorted
<1>5. Range(t) \subseteq Range(s)
  BY <1>2, <1>3 DEF Range
<1> QED BY <1>2, <1>4, <1>5 DEF t

\* The last n of a sorted sequence, and what is not among them.
LEMMA LastOfIs ==
  ASSUME NEW s \in Seq(Entry), Sorted(s), NEW n \in Nat
  PROVE  /\ LastOf(n, s) \in Seq(Entry) /\ Sorted(LastOf(n, s))
         /\ Range(LastOf(n, s)) \subseteq Range(s)
         /\ \A e \in Range(s) : \/ e \in Range(LastOf(n, s))
                                \/ /\ Len(LastOf(n, s)) >= n
                                   /\ LastOf(n, s) = <<>> \/ Precedes(e, LastOf(n, s)[1])
<1> DEFINE a == Len(s) - (IF Len(s) > n THEN n ELSE Len(s)) + 1
           t == SubSeq(s, a, Len(s))
<1>1. /\ Len(s) \in Nat /\ a \in Nat /\ 1 <= a /\ a <= Len(s) + 1
      /\ a > 1 => Len(s) - a + 1 = n
  <2>1. Len(s) \in Nat
    OBVIOUS
  <2>2. CASE Len(s) > n
    <3>1. a = Len(s) - n + 1
      BY <2>2
    <3> HIDE DEF a
    <3> QED BY <2>1, <2>2, <3>1
  <2>3. CASE ~(Len(s) > n)
    <3>1. a = Len(s) - Len(s) + 1
      BY <2>3
    <3> HIDE DEF a
    <3> QED BY <2>1, <2>3, <3>1
  <2> QED BY <2>2, <2>3
<1>2. LastOf(n, s) = t
  BY DEF LastOf
<1> HIDE DEF a
<1>3. /\ t \in Seq(Entry) /\ Sorted(t) /\ Range(t) \subseteq Range(s)
      /\ Len(t) = (IF a <= Len(s) THEN Len(s) - a + 1 ELSE 0)
      /\ \A i \in 1..(Len(s) - a + 1) : t[i] = s[a + i - 1]
  BY <1>1, SortedPart
<1> HIDE DEF t
<1>4. Len(t) = Len(s) - a + 1 /\ Len(t) \in Nat
  BY <1>1, <1>3
<1>5. ASSUME NEW e \in Range(s), e \notin Range(t)
      PROVE  Len(t) >= n /\ (t = <<>> \/ Precedes(e, t[1]))
  <2>1. PICK k \in 1..Len(s) : s[k] = e
    BY <1>5 DEF Range
  <2>2. k < a
    <3>1. SUFFICES ASSUME ~(k < a) PROVE FALSE
      OBVIOUS
    <3>2. k - a + 1 \in 1..Len(t) /\ a + (k - a + 1) - 1 = k
      BY <1>1, <1>4, <3>1
    <3>3. t[k - a + 1] = e
      BY <1>3, <1>4, <2>1, <3>2
    <3> QED BY <1>3, <1>5, <3>2, <3>3 DEF Range
  <2>3. a > 1 /\ Len(t) = n
    BY <1>1, <1>4, <2>1, <2>2
  <2>4. ASSUME t # <<>> PROVE Precedes(e, t[1])
    <3>1. Len(t) >= 1 /\ 1 \in 1..Len(t)
      BY <1>3, <1>4, <2>4, EmptySeq
    <3>2. t[1] = s[a] /\ a \in 1..Len(s)
      BY <1>1, <1>3, <1>4, <3>1
    <3> QED BY <2>1, <2>2, <3>2 DEF Sorted
  <2> QED BY <1>4, <2>3, <2>4
<1> QED BY <1>2, <1>3, <1>5

LEMMA SortedSifted ==
  ASSUME NEW s \in Seq(Entry), NEW S, Sorted(s)
  PROVE  Sorted(Sifted(s, S))
<1> DEFINE t == Sifted(s, S)
<1>1. t \in Seq(Entry) /\ \E p : Picks(p, t, s, S, Len(s))
  BY SiftedPicks
<1> HIDE DEF t
<1>2. PICK p : Picks(p, t, s, S, Len(s))
  BY <1>1
<1>3. ASSUME NEW m \in 1..Len(t), NEW n \in 1..Len(t), m < n PROVE Precedes(t[m], t[n])
  <2>1. p[m] \in 1..Len(s) /\ p[n] \in 1..Len(s) /\ p[m] < p[n] /\ t[m] = s[p[m]] /\ t[n] = s[p[n]]
    BY <1>2, <1>3 DEF Picks
  <2> QED BY <2>1 DEF Sorted
<1> QED BY <1>3 DEF Sorted, t

LEMMA SortedLines ==
  ASSUME WroteInv, NEW i
  PROVE  Sorted(Lines(i))
<1>1. wrote \in Seq(Entry) /\ Sorted(wrote)
  BY DEF WroteInv, Sorted, Precedes
<1> QED BY <1>1, SortedSifted DEF Lines

-----------------------------------------------------------------------------
(* The order of the names *)

\* An entry is under one of the names of an index.
At(e, i) == \E m \in Present : m[1] = i /\ e \in data[dir[m]]
Written(e) == \E m \in 1..Len(wrote) : wrote[m] = e

\* As long as no session goes on with an older file, the order of the names is that of
\* the entries under them.
OrderInv ==
  ~behind =>
    /\ \A i, k \in Index : i < k =>
         \A d, e : At(d, i) /\ At(e, k) => Precedes(d, e)
    /\ \A s \in Session : ~Older(s)

LEMMA AtFacts ==
  ASSUME AloneInv, PlaceInv, WroteInv, NEW e, NEW i, At(e, i)
  PROVE  e \in Entry /\ Written(e) /\ i \in Index /\ i \in Nat
<1>1. PICK m \in Present : m[1] = i /\ e \in data[dir[m]]
  BY DEF At
<1>2. m \in Name /\ dir[m] \in Inode
  BY OneName DEF Present
<1> QED BY <1>1, <1>2, DataWrote, BeforeOrder DEF Written

LEMMA OrderMore ==
  ASSUME AloneInv, PlaceInv, WroteInv, WriterSteps
  PROVE  /\ \A d, e : Precedes(d, e) => Precedes(d, e)'
         /\ \A d : Written(d) => Written(d)'
<1>1. CASE wrote' = wrote
  BY <1>1 DEF Precedes, Written
<1>2. ASSUME NEW s \in Session, wrote' = Append(wrote, <<s, sent[s] + 1>>), sent[s] + 1 \in 1..Quota[s]
      PROVE  /\ \A d, e : Precedes(d, e) => Precedes(d, e)'
             /\ \A d : Written(d) => Written(d)'
  <2> DEFINE x == <<s, sent[s] + 1>>
  <2>1. x \in Entry
    BY <1>2 DEF Entry
  <2>2. wrote' = Append(wrote, x)
    BY <1>2
  <2> HIDE DEF x
  <2>3. \A d, e : Precedes(d, e) => Precedes(d, e)'
    BY <2>1, <2>2, PrecedesStep
  <2>4. wrote \in Seq(Entry)
    BY DEF WroteInv
  <2>5. Len(wrote) \in Nat /\ Len(wrote') = Len(wrote) + 1 /\ \A m \in 1..Len(wrote) : wrote'[m] = wrote[m]
    BY <2>1, <2>2, <2>4, AppendProperties
  <2>6. \A d : Written(d) => Written(d)'
    BY <2>5 DEF Written
  <2> QED BY <2>3, <2>6
<1> QED BY <1>1, <1>2, WriterStep

\* Under a name are the entries there were under its index, and the one that is being
\* written, to the newest of all.
LEMMA AtStep ==
  ASSUME AloneInv, PlaceInv, WroteInv, OrderInv, WriterSteps, ~behind', NEW e, NEW i, At(e, i)'
  PROVE  \/ At(e, i)
         \/ /\ \A n \in Present : n[1] <= i
            /\ i \in Index /\ \A d : Written(d) => Precedes(d, e)'
<1>1. PICK m \in Present' : m[1] = i /\ e \in data'[dir'[m]]
  BY DEF At
<1>2. m \in Name /\ dir'[m] # None
  BY <1>1 DEF Present
<1>3. ASSUME NEW c \in Name, Others(c), m # c PROVE At(e, i)
  BY <1>1, <1>2, <1>3 DEF Others, At, Present
<1>4. CASE sent' = sent
  <2>1. CASE UNCHANGED <<dir, data, sent, dropped>>
    BY <1>1, <1>2, <2>1 DEF At, Present
  <2>2. ASSUME NEW c \in Name, Others(c), Changed(c), m = c PROVE At(e, i)
    <3>1. ~Appended(c)
      BY <1>4 DEF Appended, PlaceInv, Contents
    <3>2. ArchiveFilled(c)
      BY <1>1, <1>2, <2>2, <3>1 DEF Changed, Created, Removed, ArchiveMade, ArchiveLost, SourceRemoved
    <3>3. Log(c[1]) \in Name /\ Log(c[1])[1] = c[1]
      BY BeforeOrder, Names DEF Log
    <3> QED BY <1>1, <2>2, <3>2, <3>3 DEF ArchiveFilled, At, Present
  <2> QED BY <1>3, <2>1, <2>2, WriterStep, FileStep
<1>5. ASSUME NEW s \in Session, file[s] # None, path[s] \in Index, dir[Log(path[s])] = file[s],
             Others(Log(path[s])), dir' = dir,
             data' = [data EXCEPT ![file[s]] = @ \cup {<<s, sent[s] + 1>>}],
             wrote' = Append(wrote, <<s, sent[s] + 1>>), sent[s] + 1 \in 1..Quota[s]
      PROVE  \/ At(e, i)
             \/ /\ \A n \in Present : n[1] <= i
                /\ i \in Index /\ \A d : Written(d) => Precedes(d, e)'
  <2>a. PICK c \in Name : c = Log(path[s]) /\ c[1] = path[s]
    BY <1>5, Names DEF Log
  <2>b. PICK x \in Entry : x = <<s, sent[s] + 1>>
    <3>1. <<s, sent[s] + 1>> \in Entry
      BY <1>5 DEF Entry
    <3> QED BY <3>1
  <2>1. c \in Name /\ c[1] = path[s] /\ x \in Entry /\ dir[c] \in Inode
    BY <1>5, <2>a, OneName
  <2>2. CASE m # c \/ e # x
    <3>1. CASE m # c
      BY <1>3, <1>5, <2>a, <3>1
    <3>2. CASE m = c /\ e # x
      <4>1. e \in data[dir[c]]
        BY <1>1, <1>5, <2>a, <2>b, <2>1, <3>2 DEF PlaceInv, Contents
      <4> QED BY <1>1, <1>5, <2>1, <3>2, <4>1 DEF At, Present
    <3> QED BY <2>2, <3>1, <3>2
  <2>3. CASE m = c /\ e = x
    <3>1. ~behind
      BY DEF WriterSteps
    <3>2. \A n \in Present : ~(path[s] < n[1]) /\ n[1] \in Nat
      BY <1>5, <3>1, BeforeOrder DEF OrderInv, Older, Present
    <3>3. \A n \in Present : n[1] <= path[s]
      <4>1. path[s] \in Nat
        BY <1>5, Names
      <4> QED BY <3>2, <4>1
    <3>4. wrote' = Append(wrote, x)
      BY <1>5, <2>b
    <3>5. \A d : Written(d) => Precedes(d, x)'
      BY <2>1, <3>4, PrecedesStep DEF Written
    <3>6. i = path[s] /\ e = x
      BY <1>1, <2>1, <2>3
    <3> QED BY <1>5, <3>3, <3>5, <3>6
  <2> QED BY <2>2, <2>3
<1> QED BY <1>4, <1>5, WriterStep

LEMMA OrderKept ==
  ASSUME AloneInv, PlaceInv, WroteInv, OrderInv, WriterSteps
  PROVE  OrderInv'
<1> SUFFICES ASSUME ~behind' PROVE OrderInv'
  BY DEF OrderInv
<1>1. ~behind /\ \A s \in Session : ~Older(s)'
  BY DEF WriterSteps
<1>2. ASSUME NEW i \in Index, NEW k \in Index, i < k, NEW d, NEW e, At(d, i)', At(e, k)'
      PROVE  Precedes(d, e)'
  <2>1. i \in Nat /\ k \in Nat
    BY Names
  <2>2. \/ At(d, i) \/ \A n \in Present : n[1] <= i
    BY <1>2, AtStep
  <2>3. \/ At(e, k)
        \/ (\A n \in Present : n[1] <= k) /\ \A f : Written(f) => Precedes(f, e)'
    BY <1>2, AtStep
  <2>4. CASE At(d, i) /\ At(e, k)
    BY <1>1, <1>2, <2>4, OrderMore DEF OrderInv
  <2>5. CASE At(d, i) /\ ~At(e, k)
    BY <2>3, <2>5, AtFacts
  <2>6. CASE ~At(d, i)
    <3>1. \A n \in Present : n[1] <= i
      BY <2>2, <2>6
    <3>2. ~At(e, k)
      <4>1. \A n \in Present : n[1] # k
        BY <1>2, <2>1, <3>1
      <4> QED BY <4>1 DEF At
    <3>3. PICK m \in Present' : m[1] = i
      BY <1>2 DEF At
    <3>4. PICK n \in Present' : n[1] = k
      BY <1>2 DEF At
    <3>5. dir' = dir
      <4>1. sent' # sent
        <5>1. SUFFICES ASSUME sent' = sent PROVE FALSE
          OBVIOUS
        <5>2. UNCHANGED <<dir, data, sent, dropped>> => At(d, i)
          BY <1>2 DEF At, Present
        <5>3. PICK c \in Name : Others(c) /\ Changed(c)
          BY <2>6, <5>2, WriterStep, FileStep
        <5>4. ~Appended(c)
          BY <5>1 DEF Appended, PlaceInv, Contents
        <5>5. PICK p \in Present' : p[1] = i /\ d \in data'[dir'[p]]
          BY <1>2 DEF At
        <5>6. p \in Name /\ dir'[p] # None
          BY <5>5 DEF Present
        <5>7. p = c
          BY <2>6, <5>3, <5>5, <5>6 DEF Others, At, Present
        <5>8. ArchiveFilled(c)
          BY <5>3, <5>4, <5>5, <5>6, <5>7 DEF Changed, Created, Removed, ArchiveMade, ArchiveLost, SourceRemoved
        <5>9. Log(c[1]) \in Name /\ Log(c[1])[1] = c[1]
          BY BeforeOrder, Names DEF Log
        <5> QED BY <2>6, <5>5, <5>7, <5>8, <5>9 DEF ArchiveFilled, At, Present
      <4> QED BY <4>1, WriterStep
    <3>6. Present' = Present
      BY <3>5 DEF Present
    <3> QED BY <1>2, <2>1, <3>1, <3>4, <3>6
  <2> QED BY <2>4, <2>5, <2>6
<1> QED BY <1>1, <1>2 DEF OrderInv

-----------------------------------------------------------------------------
(* The viewer *)

\* What is read next is before, or after, all that has been gathered.
InStep(e, d) == IF does = "proxy" THEN Precedes(e, d) ELSE Precedes(d, e)
\* There is enough without the entry.
Cut(e) == does = "proxy" /\ Len(shown) >= Limit /\ (shown = <<>> \/ Precedes(e, shown[1]))
\* The entry will be found under a name that was listed, or is missed with a warning.
Unread(e) ==
  \E n \in toRead :
    /\ At(e, n[1])
    /\ IF dir[n] = None THEN n[2] = "log" ELSE e \in data[dir[n]]

\* The archives are still to be listed: a file that goes meanwhile has one.
Listing ==
  /\ shown = <<>> /\ toRead = listed /\ \A n \in listed : n[2] = "log"
  /\ \A e \in there \ dropped :
       \E n \in Present : e \in data[dir[n]] /\ (n[2] = "log" => n \in listed)
Gathered ==
  /\ shown \in Seq(Entry) /\ Sorted(shown)
  /\ \A d \in Range(shown) :
       Written(d) /\ \A n \in toRead : \A e \in Entry : At(e, n[1]) => InStep(e, d)
  /\ does = "proxy" /\ shown # <<>> => \A n \in toRead : \E m \in listed : n[1] < m[1]
NoneMissed ==
  \A e \in there \ dropped :
    Unread(e) \/ e \in Range(shown) \/ Cut(e) \/ (does = "internal" /\ e \notin Matching)
Gapless ==
  \A e \in (there \cap Matching) \ (dropped \cup Range(shown)) :
    shown = <<>> \/ Precedes(e, shown[1])

ViewInv ==
  /\ does \in {"proxy", "internal", "follow"}
  /\ toRead \subseteq listed /\ listed \subseteq Name /\ there \subseteq Entry
  /\ \A m \in listed : \E n \in Present : m[1] <= n[1]
  /\ at \in {"archives", "read"} => does # "follow"
  /\ at = "idle" => shown = <<>>
  /\ at = "archives" => Listing
  /\ ~behind /\ ~ListedTwice =>
       /\ at = "read" => Gathered /\ (~warned => NoneMissed)
       /\ at = "done" => Sorted(shown) /\ (~warned => Gapless)

\* An entry stays under its name, or moves to the archive of its index, until it is pruned.
LEMMA EntryKept ==
  ASSUME AloneInv, PlaceInv, AloneNext, NEW n \in Present, NEW e \in data[dir[n]], e \notin dropped'
  PROVE  \/ dir'[n] # None /\ e \in data'[dir'[n]]
         \/ /\ n[2] = "log" /\ dir'[n] = None
            /\ Archive(n[1]) \in Present' /\ e \in data'[dir'[Archive(n[1])]]
<1>1. n \in Name /\ dir[n] # None /\ dir[n] \in Inode
  BY OneName DEF Present
<1>2. CASE UNCHANGED <<dir, data, sent, dropped>>
  BY <1>1, <1>2
<1>3. ASSUME NEW c \in Name, Others(c), n # c PROVE dir'[n] # None /\ e \in data'[dir'[n]]
  BY <1>1, <1>3 DEF Others
<1>4. ASSUME NEW c \in Name, Others(c), Changed(c), n = c
      PROVE  \/ dir'[n] # None /\ e \in data'[dir'[n]]
             \/ /\ n[2] = "log" /\ dir'[n] = None
                /\ Archive(n[1]) \in Present' /\ e \in data'[dir'[Archive(n[1])]]
  <2>1. CASE Appended(c)
    <3>1. PICK s \in Session : dir' = dir /\ data' = [data EXCEPT ![file[s]] = @ \cup {<<s, sent[s] + 1>>}]
      BY <2>1 DEF Appended
    <3>2. e \in data'[dir[n]]
      BY <1>1, <3>1 DEF PlaceInv, Contents
    <3> QED BY <1>1, <3>1, <3>2
  <2>2. CASE SourceRemoved(c)
    <3> DEFINE a == Archive(n[1])
    <3>1. a \in Name /\ a # n
      BY <1>1, <1>4, <2>2, BeforeOrder, Names DEF SourceRemoved, Archive
    <3>2. dir[a] # None /\ e \in data[dir[a]] /\ n[2] = "log" /\ dir'[n] = None
      BY <1>4, <2>2 DEF SourceRemoved
    <3>3. dir'[a] = dir[a] /\ data'[dir[a]] = data[dir[a]]
      BY <1>4, <3>1, <3>2 DEF Others
    <3> QED BY <3>1, <3>2, <3>3 DEF Present
  <2>3. ~Created(c) /\ ~Removed(c) /\ ~ArchiveMade(c) /\ ~ArchiveFilled(c) /\ ~ArchiveLost(c)
    BY <1>1, <1>4 DEF Created, Removed, ArchiveMade, ArchiveFilled, ArchiveLost
  <2> QED BY <1>4, <2>1, <2>2, <2>3 DEF Changed
<1> QED BY <1>2, <1>3, <1>4, FileStep

LEMMA AtKept ==
  ASSUME AloneInv, PlaceInv, AloneNext, NEW e, NEW i, At(e, i), e \notin dropped'
  PROVE  At(e, i)'
<1>1. PICK n \in Present : n[1] = i /\ e \in data[dir[n]]
  BY DEF At
<1>2. CASE dir'[n] # None /\ e \in data'[dir'[n]]
  BY <1>1, <1>2 DEF At, Present
<1>3. CASE Archive(n[1]) \in Present' /\ e \in data'[dir'[Archive(n[1])]]
  <2>1. Archive(n[1])[1] = i
    BY <1>1 DEF Archive
  <2> QED BY <1>3, <2>1 DEF At
<1> QED BY <1>1, <1>2, <1>3, EntryKept

\* The invariant is kept by the writers.
LEMMA ReachKept ==
  ASSUME AloneInv, PlaceInv, ViewInv, AloneNext, listed' = listed
  PROVE  \A m \in listed' : \E n \in Present' : m[1] <= n[1]
<1> SUFFICES ASSUME NEW m \in listed PROVE \E n \in Present' : m[1] <= n[1]
  OBVIOUS
<1>1. PICK n \in Present : m[1] <= n[1]
  BY DEF ViewInv
<1>2. PICK k \in Present' : n[1] <= k[1]
  BY <1>1, TopKept
<1>3. m[1] \in Nat /\ n[1] \in Nat /\ k[1] \in Nat
  BY BeforeOrder DEF ViewInv, Present
<1> QED BY <1>1, <1>2, <1>3

LEMMA DroppedMore ==
  ASSUME AloneInv, PlaceInv, AloneNext
  PROVE  dropped \subseteq dropped'
<1>1. \A c \in Name : Changed(c) => dropped \subseteq dropped'
  BY DEF Changed, Appended, Created, Removed, ArchiveMade, ArchiveFilled, ArchiveLost, SourceRemoved
<1> QED BY <1>1, FileStep

LEMMA ListingKept ==
  ASSUME AloneInv, PlaceInv, ViewInv, Listing, WriterSteps
  PROVE  Listing'
<1>1. AloneNext /\ UNCHANGED <<does, at, toRead, shown, listed, there>>
  BY WriterStep DEF viewVars
<1>2. dropped \subseteq dropped'
  BY <1>1, DroppedMore
<1>3. ASSUME NEW e \in there, e \notin dropped'
      PROVE  \E n \in Present' : e \in data'[dir'[n]] /\ (n[2] = "log" => n \in listed)
  <2>1. PICK n \in Present : e \in data[dir[n]] /\ (n[2] = "log" => n \in listed)
    BY <1>2, <1>3 DEF Listing
  <2>2. CASE dir'[n] # None /\ e \in data'[dir'[n]]
    BY <2>1, <2>2 DEF Present
  <2>3. CASE Archive(n[1]) \in Present' /\ e \in data'[dir'[Archive(n[1])]]
    <3>1. Archive(n[1])[2] # "log"
      BY DEF Archive
    <3> QED BY <2>3, <3>1
  <2> QED BY <1>1, <1>3, <2>1, <2>2, <2>3, EntryKept
<1> QED BY <1>1, <1>3 DEF Listing

\* The step of a writer, at the time the files are read.
LEMMA GatheredKept ==
  ASSUME AloneInv, PlaceInv, WroteInv, OrderInv, ViewInv, WriterSteps, ~behind', Gathered, at = "read"
  PROVE  Gathered'
<1>1. AloneNext /\ UNCHANGED <<does, at, toRead, shown, listed, there>>
  BY WriterStep DEF viewVars
<1>2. Sorted(shown)'
  <2>1. shown \in Seq(Entry) /\ Sorted(shown)
    BY DEF Gathered
  <2>2. \A m, n \in 1..Len(shown) : m < n => Precedes(shown[m], shown[n])'
    BY <1>1, <2>1, OrderMore DEF Sorted
  <2> QED BY <1>1, <2>2 DEF Sorted
<1>3. ASSUME NEW d \in Range(shown) PROVE Written(d)'
  BY <1>3, OrderMore DEF Gathered
<1>4. ASSUME NEW d \in Range(shown), NEW n \in toRead, NEW e \in Entry, At(e, n[1])'
      PROVE  InStep(e, d)'
  <2>1. CASE At(e, n[1])
    <3>1. InStep(e, d)
      BY <1>4, <2>1 DEF Gathered
    <3> QED BY <1>1, <3>1, OrderMore DEF InStep
  <2>2. CASE ~At(e, n[1])
    <3>1. (\A m \in Present : m[1] <= n[1]) /\ \A f : Written(f) => Precedes(f, e)'
      BY <1>4, <2>2, AtStep
    <3>2. Written(d)
      BY <1>4 DEF Gathered
    <3>3. does # "proxy"
      <4>1. SUFFICES ASSUME does = "proxy" PROVE FALSE
        OBVIOUS
      <4>2. shown # <<>>
        BY <1>4 DEF Range
      <4>3. PICK m \in listed : n[1] < m[1]
        BY <4>1, <4>2 DEF Gathered
      <4>4. PICK k \in Present : m[1] <= k[1]
        BY DEF ViewInv
      <4>5. m[1] \in Nat /\ n[1] \in Nat /\ k[1] \in Nat /\ k[1] <= n[1]
        BY <3>1, BeforeOrder DEF ViewInv, Present
      <4> QED BY <4>3, <4>4, <4>5
    <3> QED BY <1>1, <3>1, <3>2, <3>3 DEF InStep
  <2> QED BY <2>1, <2>2
<1>5. does = "proxy" /\ shown # <<>> => \A n \in toRead : \E m \in listed : n[1] < m[1]
  BY DEF Gathered
<1>6. shown \in Seq(Entry)
  BY DEF Gathered
<1> QED BY <1>1, <1>2, <1>3, <1>4, <1>5, <1>6 DEF Gathered

LEMMA NoneMissedKept ==
  ASSUME AloneInv, PlaceInv, WroteInv, ViewInv, WriterSteps, NoneMissed
  PROVE  NoneMissed'
<1>1. AloneNext /\ UNCHANGED <<does, at, toRead, shown, listed, there>>
  BY WriterStep DEF viewVars
<1>2. ASSUME NEW e \in there, e \notin dropped', Unread(e) PROVE Unread(e)'
  <2>1. PICK n \in toRead : At(e, n[1]) /\ IF dir[n] = None THEN n[2] = "log" ELSE e \in data[dir[n]]
    BY <1>2 DEF Unread
  <2>2. At(e, n[1])' /\ n \in Name
    BY <1>1, <1>2, <2>1, AtKept DEF ViewInv
  <2>3. CASE dir[n] = None
    <3>1. dir'[n] = None
      <4>1. PICK k \in Present : n[1] <= k[1]
        BY DEF ViewInv
      <4>2. n[1] \in Nat /\ k[1] \in Nat
        BY <2>2, BeforeOrder DEF Present
      <4> QED BY <1>1, <2>1, <2>2, <2>3, <4>1, <4>2, MadeNewer
    <3> QED BY <1>1, <2>1, <2>2, <2>3, <3>1 DEF Unread
  <2>4. CASE dir[n] # None
    <3>1. n \in Present /\ e \in data[dir[n]]
      BY <2>1, <2>2, <2>4 DEF Present
    <3>2. IF dir'[n] = None THEN n[2] = "log" ELSE e \in data'[dir'[n]]
      BY <1>1, <1>2, <3>1, EntryKept
    <3> QED BY <1>1, <2>1, <2>2, <3>2 DEF Unread
  <2> QED BY <2>3, <2>4
<1>3. ASSUME NEW e, Cut(e) PROVE Cut(e)'
  BY <1>1, <1>3, OrderMore DEF Cut
<1>4. \A e \in there \ dropped' : e \in there \ dropped
  BY <1>1, DroppedMore
<1> QED BY <1>1, <1>2, <1>3, <1>4 DEF NoneMissed

LEMMA ViewWriter ==
  ASSUME AloneInv, PlaceInv, WroteInv, OrderInv, ViewInv, WriterSteps
  PROVE  ViewInv'
<1>1. AloneNext /\ UNCHANGED <<does, at, toRead, shown, listed, there, warned>> /\ at # "done"
  BY WriterStep DEF viewVars, WriterSteps
<1>2. \A m \in listed' : \E n \in Present' : m[1] <= n[1]
  BY <1>1, ReachKept
<1>3. at = "archives" => Listing'
  BY ListingKept DEF ViewInv
<1>4. ASSUME ~behind', ~ListedTwice', at = "read" PROVE Gathered' /\ (~warned => NoneMissed')
  <2>1. ~behind /\ ~ListedTwice
    BY <1>1, <1>4 DEF WriterSteps, ListedTwice
  <2> QED BY <1>4, <2>1, GatheredKept, NoneMissedKept DEF ViewInv
<1>5. /\ does' \in {"proxy", "internal", "follow"}
      /\ toRead' \subseteq listed' /\ listed' \subseteq Name /\ there' \subseteq Entry
      /\ at' \in {"archives", "read"} => does' # "follow"
      /\ at' = "idle" => shown' = <<>>
  BY <1>1 DEF ViewInv
<1> QED BY <1>1, <1>2, <1>3, <1>4, <1>5 DEF ViewInv

\* A reader's steps leave the files and the order of writing as they are.
LEMMA ReaderLeaves ==
  ASSUME ReaderSteps
  PROVE  /\ Present' = Present /\ dropped' = dropped /\ dir' = dir /\ data' = data
         /\ does' = does /\ behind' = behind /\ wrote' = wrote
         /\ \A e, i : At(e, i)' <=> At(e, i)
         /\ \A d, e : (Precedes(d, e)' <=> Precedes(d, e)) /\ (InStep(d, e)' <=> InStep(d, e))
         /\ \A d : Written(d)' <=> Written(d)
<1>1. UNCHANGED <<dir, data, dropped, wrote, behind, does>>
  BY DEF ReaderSteps, vars, dirVars, histVars
<1> QED BY <1>1 DEF Present, At, Precedes, InStep, Written

LEMMA ListActivesKept ==
  ASSUME AloneInv, PlaceInv, WroteInv, ViewInv, ReaderSteps, ListActives
  PROVE  ViewInv'
<1>1. /\ toRead' = Actives /\ listed' = Actives /\ there' = Linked /\ shown' = <<>>
      /\ at' = "archives" /\ does' = does /\ does # "follow"
  BY ReaderLeaves DEF ListActives, ViewInv
<1>2. Actives \subseteq Present /\ Actives \subseteq Name /\ \A n \in Actives : n[2] = "log"
  BY DEF Actives, Present
<1>3. \A n \in Present : dir[n] \in Inode
  BY OneName DEF Present
<1>4. Linked \subseteq Entry
  BY <1>3, DataWrote DEF Linked
<1>5. \A e \in Linked : \E n \in Present : e \in data[dir[n]] /\ (n[2] = "log" => n \in Actives)
  BY DEF Linked, Actives
<1>6. Listing'
  BY <1>1, <1>2, <1>5, ReaderLeaves DEF Listing
<1>7. \A m \in listed' : \E n \in Present' : m[1] <= n[1]
  <2>1. \A m \in Name : m[1] \in Nat
    BY BeforeOrder
  <2> QED BY <1>1, <1>2, <2>1, ReaderLeaves
<1> QED BY <1>1, <1>2, <1>4, <1>6, <1>7, ReaderLeaves DEF ViewInv

LEMMA ListArchivesKept ==
  ASSUME AloneInv, PlaceInv, WroteInv, ViewInv, ReaderSteps, ListArchives
  PROVE  ViewInv'
<1>1. /\ toRead' = toRead \cup (Present \ Actives) /\ listed' = toRead' /\ there' = there
      /\ shown' = shown /\ at' = "read" /\ does' = does /\ does # "follow" /\ Listing
  BY ReaderLeaves DEF ListArchives, ViewInv
<1>2. Present \subseteq Name /\ toRead = listed /\ shown = <<>>
  BY <1>1 DEF Present, Listing
<1>3. \A m \in listed' : \E n \in Present' : m[1] <= n[1]
  <2>1. \A m \in Name : m[1] \in Nat
    BY BeforeOrder
  <2> QED BY <1>1, <1>2, <2>1, ReaderLeaves DEF ViewInv
<1>4. Gathered'
  <2>1. Range(shown) = {} /\ Len(shown) = 0 /\ shown \in Seq(Entry)
    BY <1>2 DEF Range
  <2>2. Sorted(shown)'
    BY <1>1, <2>1 DEF Sorted
  <2> QED BY <1>1, <1>2, <2>1, <2>2 DEF Gathered
<1>5. ASSUME NEW e \in there, e \notin dropped PROVE Unread(e)'
  <2>1. PICK n \in Present : e \in data[dir[n]] /\ (n[2] = "log" => n \in listed)
    BY <1>1, <1>5 DEF Listing
  <2>2. n \in toRead'
    BY <1>1, <1>2, <2>1 DEF Actives
  <2>3. At(e, n[1])'
    BY <2>1, ReaderLeaves DEF At
  <2>4. dir'[n] # None /\ e \in data'[dir'[n]]
    BY <2>1, ReaderLeaves DEF Present
  <2> QED BY <2>2, <2>3, <2>4 DEF Unread
<1>6. NoneMissed'
  BY <1>1, <1>5, ReaderLeaves DEF NoneMissed
<1> QED BY <1>1, <1>2, <1>3, <1>4, <1>6 DEF ViewInv

\* The next name is apart from the others by its index.
LEMMA NextApart ==
  ASSUME ViewInv, ~ListedTwice, NEW n \in NextFile
  PROVE  /\ n \in toRead /\ n \in listed /\ n \in Name
         /\ \A m \in toRead \ {n} :
              IF does = "proxy" THEN m[1] < n[1] ELSE n[1] < m[1]
<1>1. n \in toRead /\ \A m \in toRead \ {n} : IF does = "proxy" THEN Before(m, n) ELSE Before(n, m)
  BY DEF NextFile, Newest, Oldest
<1>2. toRead \subseteq listed /\ listed \subseteq Name
  BY DEF ViewInv
<1>3. ASSUME NEW m \in toRead \ {n} PROVE m[1] # n[1]
  <2>1. SUFFICES ASSUME m[1] = n[1] PROVE FALSE
    OBVIOUS
  <2>2. n[1] \in Index /\ (m = Log(n[1]) \/ m = Archive(n[1])) /\ (n = Log(n[1]) \/ n = Archive(n[1]))
    BY <1>1, <1>2, <2>1, BeforeOrder
  <2>3. {Log(n[1]), Archive(n[1])} = {m, n}
    BY <2>2
  <2> QED BY <1>1, <1>2, <2>2, <2>3 DEF ListedTwice
<1>4. \A m \in toRead : m[1] \in Nat /\ n[1] \in Nat
  BY <1>1, <1>2, BeforeOrder
<1> QED BY <1>1, <1>2, <1>3, <1>4 DEF Before

\* What a file yields is in order, and from under its index.
LEMMA LinesAt ==
  ASSUME AloneInv, PlaceInv, WroteInv, NEW n \in Name, dir[n] # None
  PROVE  /\ Lines(dir[n]) \in Seq(Entry) /\ Sorted(Lines(dir[n]))
         /\ \A e : e \in Range(Lines(dir[n])) <=> e \in data[dir[n]]
         /\ \A e \in Range(Lines(dir[n])) : At(e, n[1]) /\ Written(e)
<1>1. dir[n] \in Inode
  BY OneName
<1>2. Lines(dir[n]) \in Seq(Entry) /\ \A e : e \in Range(Lines(dir[n])) <=> e \in data[dir[n]]
  BY <1>1, LinesType
<1>3. Sorted(Lines(dir[n]))
  BY SortedLines
<1>4. \A e \in data[dir[n]] : At(e, n[1]) /\ Written(e)
  BY <1>1, DataWrote DEF At, Present, Written
<1> QED BY <1>2, <1>3, <1>4

LEMMA BegunAt ==
  ASSUME AloneInv, PlaceInv, WroteInv, NEW n \in Name, NEW got \in Begun(n)
  PROVE  got \in Seq(Entry) /\ Sorted(got) /\ \A e \in Range(got) : At(e, n[1]) /\ Written(e)
<1> DEFINE l == Log(n[1])
           all == IF dir[l] = None THEN <<>> ELSE Lines(dir[l])
<1>1. l \in Name /\ l[1] = n[1]
  BY BeforeOrder, Names DEF Log
<1>2. all \in Seq(Entry) /\ Sorted(all) /\ \A e \in Range(all) : At(e, n[1]) /\ Written(e)
  <2>1. CASE dir[l] = None
    <3>1. all = <<>>
      BY <2>1
    <3> HIDE DEF all
    <3>2. all \in Seq(Entry) /\ Len(all) = 0 /\ DOMAIN all = {}
      BY <3>1
    <3>3. Range(all) = {} /\ Sorted(all)
      BY <3>2 DEF Range, Sorted
    <3> QED BY <3>2, <3>3
  <2>2. CASE dir[l] # None
    <3> HIDE DEF l
    <3>1. all = Lines(dir[l])
      BY <2>2
    <3> QED BY <1>1, <2>2, <3>1, LinesAt
  <2> QED BY <2>1, <2>2
<1>3. PICK k \in 0..Len(all) : got = SubSeq(all, 1, k)
  BY DEF Begun
<1> HIDE DEF all
<1>4. Len(all) \in Nat /\ k \in Nat /\ k <= Len(all)
  BY <1>2, <1>3
<1> QED BY <1>2, <1>3, <1>4, SortedPart

LEMMA ConcatRange ==
  ASSUME NEW s \in Seq(Entry), NEW t \in Seq(Entry)
  PROVE  s \o t \in Seq(Entry) /\ \A e : e \in Range(s \o t) <=> e \in Range(s) \/ e \in Range(t)
<1>1. /\ s \o t \in Seq(Entry) /\ Len(s) \in Nat /\ Len(t) \in Nat /\ Len(s \o t) = Len(s) + Len(t)
      /\ \A i \in 1..(Len(s) + Len(t)) : (s \o t)[i] = IF i <= Len(s) THEN s[i] ELSE t[i - Len(s)]
  BY ConcatProperties
<1>2. /\ \A e : e \in Range(s \o t) <=> \E i \in 1..(Len(s) + Len(t)) : (s \o t)[i] = e
      /\ \A e : e \in Range(s) <=> \E i \in 1..Len(s) : s[i] = e
      /\ \A e : e \in Range(t) <=> \E i \in 1..Len(t) : t[i] = e
  BY <1>1 DEF Range
<1>3. ASSUME NEW e, e \in Range(s \o t) PROVE e \in Range(s) \/ e \in Range(t)
  <2>1. PICK i \in 1..(Len(s) + Len(t)) : (s \o t)[i] = e
    BY <1>2, <1>3
  <2>2. i <= Len(s) => i \in 1..Len(s)
    BY <1>1
  <2>3. ~(i <= Len(s)) => i - Len(s) \in 1..Len(t)
    BY <1>1
  <2> QED BY <1>1, <1>2, <2>1, <2>2, <2>3
<1>4. ASSUME NEW e, e \in Range(s) PROVE e \in Range(s \o t)
  <2>1. PICK i \in 1..Len(s) : s[i] = e
    BY <1>2, <1>4
  <2>2. i \in 1..(Len(s) + Len(t)) /\ i <= Len(s)
    BY <1>1
  <2> QED BY <1>1, <1>2, <2>1, <2>2
<1>5. ASSUME NEW e, e \in Range(t) PROVE e \in Range(s \o t)
  <2>1. PICK i \in 1..Len(t) : t[i] = e
    BY <1>2, <1>5
  <2>2. i + Len(s) \in 1..(Len(s) + Len(t)) /\ ~(i + Len(s) <= Len(s)) /\ i + Len(s) - Len(s) = i
    BY <1>1
  <2> QED BY <1>1, <1>2, <2>1, <2>2
<1> QED BY <1>1, <1>3, <1>4, <1>5

\* The proxy's log: what is read now goes before what has been gathered, and the last
\* entries stay.
LEMMA ProxyGathers ==
  ASSUME AloneInv, PlaceInv, WroteInv, OrderInv, ViewInv, ~behind, ~ListedTwice, Gathered,
         ReaderSteps, does = "proxy", listed' = listed,
         NEW n \in NextFile, toRead' = toRead \ {n},
         NEW got \in Seq(Entry), Sorted(got), \A e \in Range(got) : At(e, n[1]) /\ Written(e),
         shown' = LastOf(Limit, got \o shown)
  PROVE  /\ Gathered'
         /\ \A e \in Range(got) \cup Range(shown) : e \in Range(shown') \/ Cut(e)'
<1>1. /\ n \in toRead /\ n \in listed /\ n \in Name /\ \A m \in toRead \ {n} : m[1] < n[1]
  BY NextApart
<1>2. shown \in Seq(Entry) /\ Sorted(shown)
  BY DEF Gathered
<1>3. \A d \in Range(got), e \in Range(shown) : Precedes(d, e)
  BY <1>1, AtFacts DEF Gathered, InStep
<1>4. /\ got \o shown \in Seq(Entry) /\ Sorted(got \o shown)
      /\ \A e : e \in Range(got \o shown) <=> e \in Range(got) \/ e \in Range(shown)
  BY <1>2, <1>3, SortedConcat, ConcatRange
<1>5. Limit \in Nat
  BY ViewAssumption
<1>6. /\ shown' \in Seq(Entry) /\ Sorted(shown') /\ Range(shown') \subseteq Range(got \o shown)
      /\ \A e \in Range(got \o shown) : \/ e \in Range(shown')
                                        \/ /\ Len(shown') >= Limit
                                           /\ shown' = <<>> \/ Precedes(e, shown'[1])
  BY <1>4, <1>5, LastOfIs
<1>7. Sorted(shown)'
  BY <1>6, ReaderLeaves DEF Sorted
<1>8. ASSUME NEW d \in Range(shown')
      PROVE  Written(d) /\ \A m \in toRead \ {n} : \A e \in Entry : At(e, m[1]) => Precedes(e, d)
  <2>1. CASE d \in Range(got)
    <3>1. At(d, n[1]) /\ Written(d) /\ n[1] \in Index
      BY <2>1, AtFacts
    <3>2. ASSUME NEW m \in toRead \ {n}, NEW e \in Entry, At(e, m[1]) PROVE Precedes(e, d)
      BY <1>1, <3>1, <3>2, AtFacts DEF OrderInv
    <3> QED BY <3>1, <3>2
  <2>2. CASE d \in Range(shown)
    BY <2>2 DEF Gathered, InStep
  <2> QED BY <1>4, <1>6, <2>1, <2>2
<1>9. Gathered'
  <2>1. \A d \in Range(shown') :
          Written(d)' /\ \A m \in toRead' : \A e \in Entry : At(e, m[1])' => InStep(e, d)'
    BY <1>8, ReaderLeaves DEF InStep
  <2>2. \A m \in toRead' : \E k \in listed' : m[1] < k[1]
    BY <1>1
  <2> QED BY <1>6, <1>7, <2>1, <2>2 DEF Gathered
<1>10. ASSUME NEW e \in Range(got) \cup Range(shown) PROVE e \in Range(shown') \/ Cut(e)'
  <2>1. e \in Range(shown') \/ (Len(shown') >= Limit /\ (shown' = <<>> \/ Precedes(e, shown'[1])))
    BY <1>4, <1>6
  <2> QED BY <2>1, ReaderLeaves DEF Cut
<1> QED BY <1>9, <1>10

\* The internal log: what is read now goes after what has been gathered.
LEMMA InternalGathers ==
  ASSUME AloneInv, PlaceInv, WroteInv, OrderInv, ViewInv, ~behind, ~ListedTwice, Gathered,
         ReaderSteps, does # "proxy", listed' = listed,
         NEW n \in NextFile, toRead' = toRead \ {n},
         NEW got \in Seq(Entry), Sorted(got), \A e \in Range(got) : At(e, n[1]) /\ Written(e),
         shown' = shown \o Match(got)
  PROVE  /\ Gathered'
         /\ \A e \in (Range(got) \cap Matching) \cup Range(shown) : e \in Range(shown')
<1> DEFINE some == Match(got)
<1>0. /\ some \in Seq(Entry) /\ Sorted(some)
      /\ \A e : e \in Range(some) <=> e \in Matching /\ e \in Range(got)
  BY SortedSifted, SiftedRange DEF Match
<1> HIDE DEF some
<1>1. /\ n \in toRead /\ n \in listed /\ n \in Name /\ \A m \in toRead \ {n} : n[1] < m[1]
  BY NextApart
<1>2. shown \in Seq(Entry) /\ Sorted(shown)
  BY DEF Gathered
<1>3. \A d \in Range(shown), e \in Range(some) : Precedes(d, e)
  BY <1>0, <1>1, AtFacts DEF Gathered, InStep
<1>4. /\ shown' \in Seq(Entry) /\ Sorted(shown')
      /\ \A e : e \in Range(shown') <=> e \in Range(shown) \/ e \in Range(some)
  <2>1. shown' = shown \o some
    BY DEF some
  <2> QED BY <1>0, <1>2, <1>3, <2>1, SortedConcat, ConcatRange
<1>7. Sorted(shown)'
  BY <1>4, ReaderLeaves DEF Sorted
<1>8. ASSUME NEW d \in Range(shown')
      PROVE  Written(d) /\ \A m \in toRead \ {n} : \A e \in Entry : At(e, m[1]) => Precedes(d, e)
  <2>1. CASE d \in Range(some)
    <3>1. At(d, n[1]) /\ Written(d) /\ n[1] \in Index
      BY <1>0, <2>1, AtFacts
    <3>2. ASSUME NEW m \in toRead \ {n}, NEW e \in Entry, At(e, m[1]) PROVE Precedes(d, e)
      BY <1>1, <3>1, <3>2, AtFacts DEF OrderInv
    <3> QED BY <3>1, <3>2
  <2>2. CASE d \in Range(shown)
    BY <2>2 DEF Gathered, InStep
  <2> QED BY <1>4, <2>1, <2>2
<1>9. Gathered'
  <2>1. \A d \in Range(shown') :
          Written(d)' /\ \A m \in toRead' : \A e \in Entry : At(e, m[1])' => InStep(e, d)'
    BY <1>8, ReaderLeaves DEF InStep
  <2>2. does' # "proxy"
    BY ReaderLeaves
  <2> QED BY <1>4, <1>7, <2>1, <2>2 DEF Gathered
<1> QED BY <1>0, <1>4, <1>9

LEMMA GatheredLess ==
  ASSUME Gathered, ReaderSteps, NEW n, toRead' = toRead \ {n}, UNCHANGED <<shown, listed>>
  PROVE  Gathered'
<1>1. shown \in Seq(Entry) /\ Sorted(shown)'
  BY ReaderLeaves DEF Gathered, Sorted
<1>2. \A d \in Range(shown) : Written(d)' /\ \A m \in toRead' : \A e \in Entry : At(e, m[1])' => InStep(e, d)'
  BY ReaderLeaves DEF Gathered
<1>3. does' = "proxy" /\ shown' # <<>> => \A m \in toRead' : \E k \in listed' : m[1] < k[1]
  BY ReaderLeaves DEF Gathered
<1> QED BY <1>1, <1>2, <1>3 DEF Gathered

\* What is not in the file that is read is still to be read.
LEMMA UnreadLess ==
  ASSUME ReaderSteps, NEW n, toRead' = toRead \ {n}, dir[n] # None, NEW e, Unread(e), e \notin data[dir[n]]
  PROVE  Unread(e)'
<1>1. PICK m \in toRead : At(e, m[1]) /\ IF dir[m] = None THEN m[2] = "log" ELSE e \in data[dir[m]]
  BY DEF Unread
<1>2. m # n
  BY <1>1
<1> QED BY <1>1, <1>2, ReaderLeaves DEF Unread

LEMMA ReadNextKept ==
  ASSUME AloneInv, PlaceInv, WroteInv, OrderInv, ViewInv, ReaderSteps, ReadNext
  PROVE  ViewInv'
<1>1. /\ at = "read" /\ at' = "read" /\ ~Enough /\ listed' = listed /\ there' = there /\ does' = does
      /\ does # "follow"
  BY ReaderLeaves DEF ReadNext, ViewInv
<1>2. PICK n \in NextFile :
        /\ toRead' = toRead \ {n}
        /\ \/ dir[n] = None /\ warned' = TRUE /\ UNCHANGED shown
           \/ dir[n] # None /\ does = "proxy" /\ ReadProxyFile(n)
           \/ dir[n] # None /\ does = "internal" /\ ReadInternalFile(n)
  BY DEF ReadNext
<1>3. ASSUME ~behind', ~ListedTwice' PROVE Gathered' /\ (~warned' => NoneMissed')
  <2>1. ~behind /\ ~ListedTwice /\ Gathered /\ (~warned => NoneMissed)
    BY <1>1, <1>3, ReaderLeaves DEF ListedTwice, ViewInv
  <2>2. n \in toRead /\ n \in Name
    BY <2>1, NextApart
  <2>3. CASE dir[n] = None
    BY <1>1, <1>2, <2>1, <2>3, GatheredLess
  <2>4. CASE dir[n] # None /\ does = "proxy"
    <3>1. ReadProxyFile(n) /\ ~(Len(shown) >= Limit)
      BY <1>1, <1>2, <2>4 DEF Enough
    <3>2. PICK got \in (IF HalfMade(n) THEN Begun(n) ELSE {Lines(dir[n])}) :
            shown' = LastOf(Limit, got \o shown) /\ warned' = warned
      BY <3>1 DEF ReadProxyFile
    <3>3. /\ got \in Seq(Entry) /\ Sorted(got) /\ \A e \in Range(got) : At(e, n[1]) /\ Written(e)
          /\ \A e \in data[dir[n]] : e \in Range(got)
      <4>1. CASE HalfMade(n)
        BY <2>2, <3>2, <4>1, BegunAt DEF HalfMade
      <4>2. CASE ~HalfMade(n)
        BY <2>2, <2>4, <3>2, <4>2, LinesAt
      <4> QED BY <4>1, <4>2
    <3>4. /\ Gathered'
          /\ \A e \in Range(got) \cup Range(shown) : e \in Range(shown') \/ Cut(e)'
      BY <1>1, <1>2, <2>1, <2>4, <3>2, <3>3, ProxyGathers
    <3>5. ASSUME ~warned', NEW e \in there', e \notin dropped' PROVE Unread(e)' \/ e \in Range(shown') \/ Cut(e)'
      <4>1. Unread(e) \/ e \in Range(shown) \/ Cut(e)
        BY <1>1, <2>1, <2>4, <3>2, <3>5, ReaderLeaves DEF NoneMissed
      <4>2. ~Cut(e)
        BY <3>1 DEF Cut
      <4>3. CASE e \in Range(shown) \/ e \in data[dir[n]]
        BY <3>3, <3>4, <4>3
      <4>4. CASE Unread(e) /\ e \notin data[dir[n]]
        BY <1>2, <2>4, <4>4, UnreadLess
      <4> QED BY <4>1, <4>2, <4>3, <4>4
    <3> QED BY <3>4, <3>5 DEF NoneMissed
  <2>5. CASE dir[n] # None /\ does = "internal" /\ HalfMade(n)
    <3>1. shown' = shown /\ warned' \in {TRUE, warned} /\ data[dir[n]] = {}
      BY <1>2, <2>5 DEF ReadInternalFile, HalfMade
    <3>2. Gathered'
      BY <1>1, <1>2, <2>1, <3>1, GatheredLess
    <3>3. ASSUME ~warned', NEW e \in there', e \notin dropped'
          PROVE  Unread(e)' \/ e \in Range(shown') \/ e \notin Matching
      <4>1. Unread(e) \/ e \in Range(shown) \/ e \notin Matching
        BY <1>1, <2>1, <2>5, <3>1, <3>3, ReaderLeaves DEF NoneMissed, Cut
      <4> QED BY <1>2, <2>5, <3>1, <4>1, UnreadLess
    <3> QED BY <1>1, <2>5, <3>2, <3>3 DEF NoneMissed
  <2>6. CASE dir[n] # None /\ does = "internal" /\ ~HalfMade(n)
    <3>1. shown' = shown \o Match(Lines(dir[n])) /\ warned' = warned
      BY <1>2, <2>6 DEF ReadInternalFile
    <3>2. /\ Lines(dir[n]) \in Seq(Entry) /\ Sorted(Lines(dir[n]))
          /\ \A e \in Range(Lines(dir[n])) : At(e, n[1]) /\ Written(e)
          /\ \A e \in data[dir[n]] : e \in Range(Lines(dir[n]))
      BY <2>2, <2>6, LinesAt
    <3>3. /\ Gathered'
          /\ \A e \in (Range(Lines(dir[n])) \cap Matching) \cup Range(shown) : e \in Range(shown')
      BY <1>1, <1>2, <2>1, <2>6, <3>1, <3>2, InternalGathers
    <3>4. ASSUME ~warned', NEW e \in there', e \notin dropped'
          PROVE  Unread(e)' \/ e \in Range(shown') \/ e \notin Matching
      <4>1. Unread(e) \/ e \in Range(shown) \/ e \notin Matching
        BY <1>1, <2>1, <2>6, <3>1, <3>4, ReaderLeaves DEF NoneMissed, Cut
      <4>2. CASE e \in data[dir[n]]
        BY <3>2, <3>3, <4>2
      <4>3. CASE e \notin data[dir[n]]
        BY <1>2, <2>6, <3>3, <4>1, <4>3, UnreadLess
      <4> QED BY <4>2, <4>3
    <3> QED BY <1>1, <2>6, <3>3, <3>4 DEF NoneMissed
  <2> QED BY <1>2, <2>3, <2>4, <2>5, <2>6
<1>4. \A m \in listed' : \E k \in Present' : m[1] <= k[1]
  BY <1>1, ReaderLeaves DEF ViewInv
<1>5. toRead' \subseteq listed' /\ listed' \subseteq Name /\ there' \subseteq Entry
      /\ does' \in {"proxy", "internal", "follow"}
  BY <1>1, <1>2 DEF ViewInv
<1> QED BY <1>1, <1>3, <1>4, <1>5 DEF ViewInv

LEMMA PrintKept ==
  ASSUME AloneInv, PlaceInv, WroteInv, OrderInv, ViewInv, ReaderSteps, PrintEntries
  PROVE  ViewInv'
<1>1. /\ at = "read" /\ at' = "done" /\ toRead' = {} /\ (toRead = {} \/ Enough)
      /\ listed' = listed /\ there' = there /\ warned' = warned /\ does' = does /\ does # "follow"
      /\ shown' = IF does = "proxy" THEN Match(shown) ELSE LastOf(Limit, shown)
  BY ReaderLeaves DEF PrintEntries, ViewInv
<1>2. ASSUME ~behind', ~ListedTwice' PROVE Sorted(shown)' /\ (~warned' => Gapless')
  <2>1. Gathered /\ (~warned => NoneMissed)
    BY <1>1, <1>2, ReaderLeaves DEF ListedTwice, ViewInv
  <2>2. shown \in Seq(Entry) /\ Sorted(shown)
    BY <2>1 DEF Gathered
  <2>3. CASE does = "proxy"
    <3> DEFINE some == Match(shown)
    <3>1. /\ some \in Seq(Entry) /\ Sorted(some)
          /\ \A e : e \in Range(some) <=> e \in Matching /\ e \in Range(shown)
      BY <2>2, SortedSifted, SiftedRange DEF Match
    <3> HIDE DEF some
    <3>2. shown' = some
      BY <1>1, <2>3 DEF some
    <3>3. Sorted(shown)'
      BY <3>1, <3>2, ReaderLeaves DEF Sorted
    <3>4. ASSUME ~warned', NEW e \in (there' \cap Matching) \ (dropped' \cup Range(some)), some # <<>>
          PROVE  Precedes(e, some[1])
      <4>1. some[1] \in Range(some) /\ some[1] \in Range(shown)
        <5>1. 1 \in DOMAIN some
          BY <3>1, <3>4
        <5> QED BY <3>1, <5>1 DEF Range
      <4>2. Unread(e) \/ Cut(e)
        BY <1>1, <2>1, <2>3, <3>1, <3>4, ReaderLeaves DEF NoneMissed
      <4>3. CASE Unread(e)
        <5>1. PICK n \in toRead : At(e, n[1])
          BY <4>3 DEF Unread
        <5> QED BY <2>1, <2>3, <4>1, <5>1, AtFacts DEF Gathered, InStep
      <4>4. CASE Cut(e)
        <5>1. shown # <<>> /\ Precedes(e, shown[1])
          BY <4>1, <4>4 DEF Cut, Range
        <5>2. PICK k \in 1..Len(shown) : shown[k] = some[1]
          BY <2>2, <4>1 DEF Range
        <5>3. k = 1 \/ Precedes(shown[1], shown[k])
          BY <2>2, <5>2 DEF Sorted
        <5> QED BY <5>1, <5>2, <5>3, PrecedesThrough
      <4> QED BY <4>2, <4>3, <4>4
    <3>5. ~warned' => Gapless'
      BY <3>2, <3>4, ReaderLeaves DEF Gapless
    <3> QED BY <3>3, <3>5
  <2>4. CASE does = "internal"
    <3>1. toRead = {} /\ shown' = LastOf(Limit, shown) /\ Limit \in Nat
      BY <1>1, <2>4, ViewAssumption DEF Enough
    <3>2. /\ shown' \in Seq(Entry) /\ Sorted(shown')
          /\ \A e \in Range(shown) : \/ e \in Range(shown')
                                     \/ shown' = <<>> \/ Precedes(e, shown'[1])
      BY <2>2, <3>1, LastOfIs
    <3>3. Sorted(shown)'
      BY <3>2, ReaderLeaves DEF Sorted
    <3>4. ASSUME ~warned', NEW e \in (there' \cap Matching) \ (dropped' \cup Range(shown'))
          PROVE  shown' = <<>> \/ Precedes(e, shown'[1])
      <4>1. e \in Range(shown)
        BY <1>1, <2>1, <2>4, <3>1, <3>4, ReaderLeaves DEF NoneMissed, Unread, Cut
      <4> QED BY <3>2, <3>4, <4>1
    <3>5. ~warned' => Gapless'
      BY <3>4, ReaderLeaves DEF Gapless
    <3> QED BY <3>3, <3>5
  <2> QED BY <1>1, <2>3, <2>4 DEF ViewInv
<1>3. \A m \in listed' : \E k \in Present' : m[1] <= k[1]
  BY <1>1, ReaderLeaves DEF ViewInv
<1>4. toRead' \subseteq listed' /\ listed' \subseteq Name /\ there' \subseteq Entry
      /\ does' \in {"proxy", "internal", "follow"}
  BY <1>1 DEF ViewInv
<1> QED BY <1>1, <1>2, <1>3, <1>4 DEF ViewInv

LEMMA ViewReader ==
  ASSUME AloneInv, PlaceInv, WroteInv, OrderInv, ViewInv, ReaderSteps
  PROVE  ViewInv'
<1>1. CASE ListActives \/ ListArchives \/ ReadNext \/ PrintEntries
  BY <1>1, ListActivesKept, ListArchivesKept, ReadNextKept, PrintKept
<1>2. CASE ShowRecent \/ StatRecent \/ LookForFile \/ TailFile
  <2>1. /\ toRead' = toRead /\ listed' = listed /\ there' = there /\ does' = does
        /\ at' \notin {"idle", "archives", "read", "done"}
    BY <1>2, ReaderLeaves DEF ShowRecent, StatRecent, LookForFile, TailFile
  <2>2. \A m \in listed' : \E k \in Present' : m[1] <= k[1]
    BY <2>1, ReaderLeaves DEF ViewInv
  <2> QED BY <2>1, <2>2 DEF ViewInv
<1> QED BY <1>1, <1>2 DEF ReaderSteps

-----------------------------------------------------------------------------
(* The readers of the logs *)

ReadInv == AloneInv /\ WroteInv /\ FollowInv /\ OrderInv /\ ViewInv

LEMMA AloneSame ==
  ASSUME AloneInv, UNCHANGED vars
  PROVE  AloneInv'
<1> USE DEF vars, dirVars, logVars, tryVars, jobVars, histVars
<1>1. Present' = Present /\ Opening' = Opening /\ Pruning' = Pruning
  BY DEF Present, Opening, Pruning
<1>2. (\A n : Size(n)' = Size(n)) /\ \A S : Oldest(S)' = Oldest(S)
  BY DEF Size, Oldest, Before
<1>3. ASSUME NEW s \in Session PROVE SessionOK(s)'
  <2>1. Manners(s) /\ Aims(s) /\ Writes(s) /\ Spares(s)
    BY DEF AloneInv, SessionOK
  <2>2. Manners(s)'
    BY <2>1 DEF Manners, Idle, Jobless, Opening, Pruning
  <2>3. Aims(s)'
    BY <1>1, <1>2, <2>1 DEF Aims
  <2>4. Writes(s)'
    BY <1>1, <1>2, <2>1 DEF Writes
  <2>5. Spares(s)'
    BY <1>1, <1>2, <2>1 DEF Spares
  <2> QED BY <2>2, <2>3, <2>4, <2>5 DEF SessionOK
<1>4. ASSUME NEW j \in Job PROVE JobFiles(j)'
  <2>1. JobFiles(j)
    BY DEF AloneInv
  <2> QED BY <1>2, <2>1 DEF JobFiles
<1>5. OneBusy' /\ Accounts' /\ FullDoubles'
  BY <1>2 DEF AloneInv, OneBusy, Idle, Accounts, FullDoubles
<1> QED BY <1>3, <1>4, <1>5 DEF AloneInv

LEMMA OrderSame ==
  ASSUME WroteInv, OrderInv, UNCHANGED vars, UNCHANGED <<wrote, behind>>
  PROVE  WroteInv' /\ OrderInv'
<1> USE DEF vars, dirVars, logVars
<1>1. /\ \A e, i : At(e, i)' <=> At(e, i)
      /\ \A d, e : Precedes(d, e)' <=> Precedes(d, e)
      /\ \A s \in Session : Older(s)' <=> Older(s)
  BY DEF At, Present, Precedes, Older
<1>2. WroteInv'
  BY DEF WroteInv
<1> QED BY <1>1, <1>2 DEF OrderInv

LEMMA ReadInit == Init /\ ReaderInit => ReadInv
<1> SUFFICES ASSUME Init, ReaderInit PROVE ReadInv
  OBVIOUS
<1>1. AloneInv
  BY InitAlone
<1>2. Present = {}
  BY DEF Init, Present
<1>3. WroteInv
  BY DEF Init, ReaderInit, WroteInv
<1>4. FollowInv
  BY DEF ReaderInit, FollowInv
<1>5. OrderInv
  BY <1>2 DEF OrderInv, At, Init, Older
<1>6. ViewInv
  BY DEF ReaderInit, ViewInv
<1> QED BY <1>1, <1>3, <1>4, <1>5, <1>6 DEF ReadInv

LEMMA ReadKept ==
  ASSUME ReadInv, PlaceInv, [ReaderNext]_<<vars, readerVars>>
  PROVE  ReadInv'
<1> USE DEF ReadInv
<1>1. CASE WriterSteps
  <2>1. AloneInv'
    BY <1>1, WriterStep, AloneNextKept
  <2> QED BY <1>1, <2>1, WroteKept, FollowWriter, OrderKept, ViewWriter
<1>2. CASE ReaderSteps
  <2>1. UNCHANGED vars /\ UNCHANGED <<wrote, behind>>
    BY <1>2 DEF ReaderSteps
  <2> QED BY <1>2, <2>1, AloneSame, OrderSame, FollowReader, ViewReader
<1>3. CASE UNCHANGED <<vars, readerVars>>
  <2>1. UNCHANGED vars /\ UNCHANGED readerVars
    BY <1>3
  <2>2. UNCHANGED <<wrote, behind, does, at, toRead, shown, listed, there, warned, followed, offset, from, news>>
    BY <2>1 DEF readerVars, viewVars, followVars
  <2>3. UNCHANGED <<dir, data, dropped>>
    BY <2>1 DEF vars, dirVars, histVars
  <2>4. AloneInv' /\ WroteInv' /\ OrderInv'
    BY <2>1, <2>2, AloneSame, OrderSame
  <2>5. FollowInv'
    BY <2>2, <2>3 DEF FollowInv, Told, Present, Lines
  <2>6. /\ \A e, i : At(e, i)' <=> At(e, i)
        /\ \A d, e : Precedes(d, e)' <=> Precedes(d, e)
        /\ \A d : Written(d)' <=> Written(d)
        /\ Present' = Present /\ (Sorted(shown)' <=> Sorted(shown))
    BY <2>2, <2>3 DEF At, Present, Precedes, Written, Sorted
  <2>7. (Listing' <=> Listing) /\ (Gathered' <=> Gathered) /\ (NoneMissed' <=> NoneMissed) /\ (Gapless' <=> Gapless)
        /\ (ListedTwice' <=> ListedTwice)
    BY <2>2, <2>3, <2>6 DEF Listing, Gathered, NoneMissed, Gapless, ListedTwice, InStep, Unread, Cut
  <2>8. ViewInv'
    BY <2>2, <2>6, <2>7 DEF ViewInv
  <2> QED BY <2>4, <2>5, <2>8
<1> QED BY <1>1, <1>2, <1>3 DEF ReaderNext

\* Readers only read: with them the writers do what they do without.
THEOREM ReadersOnlyRead == ReaderSpec => Spec
<1>1. [ReaderNext]_<<vars, readerVars>> => [Next]_vars
  BY DEF ReaderNext, WriterSteps, ReaderSteps
<1> QED BY <1>1, PTL DEF ReaderSpec, Spec

\* Whatever the writers do while the files are listed and read - append, rotate, compress,
\* prune, crash - a viewer that has not warned prints the entries in the order of writing
\* and without a gap, but for files found in the middle of their compression and unless a
\* session went on with an older file; and a follower prints what was completed, once.
THEOREM ReadAsWritten == ReaderSpec => []LogsAsWritten
<1>1. Init /\ ReaderInit => ReadInv
  BY ReadInit
<1>2. ReadInv /\ PlaceInv /\ [ReaderNext]_<<vars, readerVars>> => ReadInv'
  BY ReadKept
<1>3. ReadInv => LogsAsWritten
  <2> SUFFICES ASSUME ReadInv PROVE LogsAsWritten
    OBVIOUS
  <2>1. ASSUME at = "done", ~warned, ~ListedTwice, ~behind
        PROVE  /\ \A m, n \in 1..Len(shown) : m < n => Precedes(shown[m], shown[n])
               /\ \A e \in (there \cap Matching) \ (dropped \cup Range(shown)) :
                    shown = <<>> \/ Precedes(e, shown[1])
    BY <2>1 DEF ReadInv, ViewInv, Sorted, Gapless
  <2>2. ASSUME does = "follow", followed # None, dir[Log(followed)] # None
        PROVE  news = SubSeq(Lines(dir[Log(followed)]), (from + 1) \div 2 + 1, offset \div 2)
    BY <2>2 DEF ReadInv, FollowInv, Told
  <2> QED BY <2>1, <2>2 DEF LogsAsWritten
<1> QED BY <1>1, <1>2, <1>3, PlaceInvariance, ReadersOnlyRead, PTL DEF ReaderSpec

\* As long as no session goes on with an older file, the names of the files are in the order
\* of what is in them, which sorting them by name (cmd/devsandbox/logs.go) relies on.
THEOREM NamedInOrder == ReaderSpec => [](behind \/ NamesInOrder)
<1>1. Init /\ ReaderInit => ReadInv
  BY ReadInit
<1>2. ReadInv /\ PlaceInv /\ [ReaderNext]_<<vars, readerVars>> => ReadInv'
  BY ReadKept
<1>3. ReadInv => behind \/ NamesInOrder
  <2> SUFFICES ASSUME ReadInv, ~behind, NEW m \in Present, NEW n \in Present, m[1] < n[1],
                      NEW d \in data[dir[m]], NEW e \in data[dir[n]]
               PROVE  Precedes(d, e)
    BY DEF NamesInOrder
  <2>1. At(d, m[1]) /\ At(e, n[1])
    BY DEF At
  <2>2. m[1] \in Index /\ n[1] \in Index
    BY BeforeOrder DEF Present
  <2> QED BY <2>1, <2>2 DEF ReadInv, OrderInv
<1> QED BY <1>1, <1>2, <1>3, PlaceInvariance, ReadersOnlyRead, PTL DEF ReaderSpec

=============================================================================
